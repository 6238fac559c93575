--------------------------- MODULE MVCCListProofs ---------------------------
(***************************************************************************)
(* Proofs about MVCCList: the collector's scan preserves the inductive     *)
(* invariant of MVCCListInvariant, which is therefore one of every         *)
(* reachable state, and what follows from it for the list, for its items   *)
(* and for the readers that walk it.                                       *)
(***************************************************************************)
EXTENDS MVCCListInvariant

-----------------------------------------------------------------------------
(* The position of the last committed item, where scan_mvcc_list ends. *)
Last == IF HasUncommitted THEN Len(chain) - 1 ELSE Len(chain)

(* A list that is scanned has a committed item. *)
LEMMA LastCommitted ==
  ASSUME IInv, chain # <<>>, HasUncommitted => head # tail
  PROVE  /\ Len(chain) \in Nat /\ Last \in 1 .. Len(chain) /\ chain[Last] = iterate_tail
         /\ HasUncommitted => Last = Len(chain) - 1
         /\ ~ HasUncommitted => Last = Len(chain)
         /\ \A i \in 1 .. Len(chain) : chain[i] = iterate_tail => i = Last
<1> USE DEF IInv
<1> DEFINE L == Len(chain)
<1>1. L \in Nat /\ L >= 1 /\ head = chain[1] /\ tail = chain[L]
  BY Ends DEF Shape
<1>2. \A i, j \in 1 .. L : chain[i] = chain[j] => i = j
  BY DEF Shape, ListShape
<1>3. HasUncommitted => L > 1 /\ pre_tail = chain[L - 1]
  <2> SUFFICES ASSUME HasUncommitted PROVE L > 1 /\ pre_tail = chain[L - 1]
    OBVIOUS
  <2>1. L # 1
    BY <1>1
  <2>2. pre_tail = IF L = 1 THEN tail ELSE chain[L - 1]
    BY DEF Shape, ListShape, HasUncommitted
  <2> QED
    BY <1>1, <2>1, <2>2
<1> HIDE DEF L
<1>4. CASE HasUncommitted
  <2>1. Last = L - 1 /\ iterate_tail = chain[L - 1] /\ L - 1 \in 1 .. L
    BY <1>1, <1>3, <1>4 DEF Last, iterate_tail, L
  <2> QED
    BY <1>1, <1>2, <1>4, <2>1 DEF L
<1>5. CASE ~ HasUncommitted
  <2>1. Last = L /\ iterate_tail = chain[L] /\ L \in 1 .. L
    BY <1>1, <1>5 DEF Last, iterate_tail, L
  <2> QED
    BY <1>1, <1>2, <1>5, <2>1 DEF L
<1> QED
  BY <1>4, <1>5

(* What gc_checkpoint is: nothing, or the last position that is collected. *)
LEMMA Checkpoint ==
  ASSUME IInv, chain # <<>>, HasUncommitted => head # tail
  PROVE  /\ gc_checkpoint \in 0 .. Last
         /\ gc_checkpoint # 0 =>
              /\ IsEdge \/ \A j \in 1 .. gc_checkpoint - 1 : GCable(j)
              /\ GCable(gc_checkpoint) \/ (gc_checkpoint = Last /\ val[chain[gc_checkpoint]] = Empty)
<1> DEFINE last == CHOOSE i \in 1 .. Len(chain) : chain[i] = iterate_tail
           reached == {i \in 1 .. last : IsEdge \/ \A j \in 1 .. i - 1 : GCable(j)}
           collected == {i \in reached : GCable(i) \/ (i = last /\ val[chain[i]] = Empty)}
           Chosen(n) == (n = 0 \/ n \in collected) /\ \A i \in collected : i <= n
<1>1. last = Last /\ Last \in Nat /\ Last >= 1
  BY LastCommitted
<1>2. gc_checkpoint = CHOOSE n \in 0 .. last : Chosen(n)
  BY DEF gc_checkpoint
<1>3. collected \subseteq 1 .. last
  OBVIOUS
<1>4. \A i \in collected : /\ IsEdge \/ \A j \in 1 .. i - 1 : GCable(j)
                           /\ GCable(i) \/ (i = last /\ val[chain[i]] = Empty)
  OBVIOUS
<1> HIDE DEF last, reached, collected
<1>5. \E n \in 0 .. last : Chosen(n)
  <2> DEFINE T == {n \in 0 .. last : \A i \in collected : i <= n}
  <2>1. T \in SUBSET Nat /\ last \in T
    BY <1>1, <1>3
  <2>2. PICK k \in T : \A y \in T : k <= y
    BY <2>1, Least, Zenon
  <2>3. k \in 0 .. last /\ \A i \in collected : i <= k
    OBVIOUS
  <2>4. k = 0 \/ k \in collected
    <3> SUFFICES ASSUME k # 0, k \notin collected PROVE FALSE
      OBVIOUS
    <3>1. k - 1 \in 0 .. last /\ \A i \in collected : i <= k - 1
      BY <1>1, <1>3, <2>3
    <3>2. k - 1 \in T
      BY <3>1
    <3>3. k <= k - 1
      BY <2>2, <3>2
    <3> QED
      BY <2>3, <1>1, <3>3
  <2> QED
    BY <2>3, <2>4
<1>6. gc_checkpoint \in 0 .. last /\ Chosen(gc_checkpoint)
  BY <1>2, <1>5
<1> QED
  BY <1>1, <1>4, <1>6

(* What a scan does: n items go, and the pointers follow. *)
LEMMA ScanFacts ==
  ASSUME IInv, ScanMVCCList, NEW n, n = gc_checkpoint, NEW L, L = Len(chain)
  PROVE  /\ chain # <<>> /\ (HasUncommitted => head # tail)
         /\ L \in Nat /\ n \in 1 .. Last /\ Last \in 1 .. L /\ n \in 1 .. L
         /\ chain' \in Seq(Item) /\ Len(chain') = L - n
         /\ \A i \in 1 .. L - n : chain'[i] = chain[n + i]
         /\ next' = [next EXCEPT ![chain[n]] = NULL]
         /\ garbage' = garbage \cup {chain[i] : i \in 1 .. n}
         /\ n = L => /\ ~ HasUncommitted /\ chain' = <<>>
                     /\ head' = NULL /\ tail' = NULL /\ pre_tail' = NULL /\ tmp_pre_tail' = NULL
         /\ n < L => /\ head' = chain[n + 1] /\ tail' = tail
                     /\ IF HasUncommitted /\ n = L - 1
                        THEN pre_tail' = tail /\ tmp_pre_tail' = tail
                        ELSE pre_tail' = pre_tail /\ tmp_pre_tail' = tmp_pre_tail
         /\ begin_time' = begin_time /\ end_time' = end_time /\ val' = val /\ pool' = pool
         /\ clock' = clock /\ stat' = stat /\ bt' = bt /\ ct' = ct /\ min_bt' = min_bt
<1> USE DEF IInv
<1>1. chain # <<>> /\ (HasUncommitted => head # tail)
  BY DEF ScanMVCCList, Shape, ListShape
<1>2. /\ n > 0 /\ next' = [next EXCEPT ![chain[n]] = NULL]
      /\ garbage' = garbage \cup {chain[i] : i \in 1 .. n}
      /\ head' = next[chain[n]] /\ chain' = SubSeq(chain, n + 1, L)
      /\ IF chain[n] = iterate_tail
         THEN IF HasUncommitted
              THEN pre_tail' = tail /\ tmp_pre_tail' = tail /\ tail' = tail
              ELSE tail' = NULL /\ pre_tail' = NULL /\ tmp_pre_tail' = NULL
         ELSE tail' = tail /\ pre_tail' = pre_tail /\ tmp_pre_tail' = tmp_pre_tail
  BY DEF ScanMVCCList
<1>3. /\ begin_time' = begin_time /\ end_time' = end_time /\ val' = val /\ pool' = pool
      /\ clock' = clock /\ stat' = stat /\ bt' = bt /\ ct' = ct /\ min_bt' = min_bt
  BY Zenon DEF ScanMVCCList, trxVars
<1>4. /\ L \in Nat /\ Last \in 1 .. L /\ chain[Last] = iterate_tail
      /\ HasUncommitted => Last = L - 1
      /\ ~ HasUncommitted => Last = L
      /\ \A i \in 1 .. L : chain[i] = iterate_tail => i = Last
  BY <1>1, LastCommitted
<1>5. n \in 0 .. Last
  BY <1>1, Checkpoint
<1>6. n \in 1 .. Last /\ n \in 1 .. L
  BY <1>2, <1>4, <1>5
<1>7. /\ chain' \in Seq(Item) /\ Len(chain') = L - n
      /\ \A i \in 1 .. L - n : chain'[i] = chain[n + i]
  <2>1. n + 1 \in Int /\ L \in Int /\ \A i \in n + 1 .. L : chain[i] \in Item
    BY <1>4, <1>6 DEF TypeOK
  <2>2. /\ chain' \in Seq(Item)
        /\ Len(chain') = IF n + 1 <= L THEN L - (n + 1) + 1 ELSE 0
        /\ \A i \in 1 .. L - (n + 1) + 1 : chain'[i] = chain[(n + 1) + i - 1]
    BY <1>2, <2>1, SubSeqProperties
  <2>3. Len(chain') = L - n /\ L - (n + 1) + 1 = L - n
    BY <1>4, <1>6, <2>2
  <2>4. \A i \in 1 .. L - n : (n + 1) + i - 1 = n + i
    BY <1>4, <1>6
  <2> QED
    BY <2>2, <2>3, <2>4
<1>8. chain[n] = iterate_tail <=> n = Last
  BY <1>4, <1>6
<1>9. ASSUME n = L
      PROVE  /\ ~ HasUncommitted /\ chain' = <<>>
             /\ head' = NULL /\ tail' = NULL /\ pre_tail' = NULL /\ tmp_pre_tail' = NULL
  <2>1. n = Last /\ ~ HasUncommitted
    BY <1>4, <1>6, <1>9
  <2>2. head' = NULL
    BY <1>1, <1>2, <1>9, Ends DEF Shape
  <2>3. chain' = <<>>
    BY <1>2, <1>4, <1>9, SubSeqEmpty
  <2> QED
    BY <1>2, <1>8, <2>1, <2>2, <2>3
<1>10. ASSUME n < L
       PROVE  /\ head' = chain[n + 1] /\ tail' = tail
              /\ IF HasUncommitted /\ n = L - 1
                 THEN pre_tail' = tail /\ tmp_pre_tail' = tail
                 ELSE pre_tail' = pre_tail /\ tmp_pre_tail' = tmp_pre_tail
  <2>1. n \in 1 .. Len(chain) - 1
    BY <1>4, <1>6, <1>10
  <2>2. head' = chain[n + 1]
    BY <1>2, <2>1 DEF Shape, ListShape
  <2>3. n = Last <=> HasUncommitted /\ n = L - 1
    BY <1>4, <1>6, <1>10
  <2> QED
    BY <1>2, <1>8, <2>2, <2>3
<1> QED
  BY <1>1, <1>2, <1>3, <1>4, <1>6, <1>7, <1>9, <1>10

(* Cutting the list keeps what is left of it in order. *)
LEMMA ScanInv ==
  ASSUME IInv, ScanMVCCList
  PROVE  IInv'
<1> USE DEF IInv
<1> DEFINE n == gc_checkpoint
           L == Len(chain)
<1>1. /\ chain # <<>> /\ L \in Nat /\ n \in 1 .. L
      /\ chain' \in Seq(Item) /\ Len(chain') = L - n
      /\ \A i \in 1 .. L - n : chain'[i] = chain[n + i]
      /\ next' = [next EXCEPT ![chain[n]] = NULL]
      /\ garbage' = garbage \cup {chain[i] : i \in 1 .. n}
      /\ n = L => /\ ~ HasUncommitted /\ chain' = <<>>
                  /\ head' = NULL /\ tail' = NULL /\ pre_tail' = NULL /\ tmp_pre_tail' = NULL
      /\ n < L => /\ head' = chain[n + 1] /\ tail' = tail
                  /\ IF HasUncommitted /\ n = L - 1
                     THEN pre_tail' = tail /\ tmp_pre_tail' = tail
                     ELSE pre_tail' = pre_tail /\ tmp_pre_tail' = tmp_pre_tail
  BY ScanFacts, Zenon
<1>2. /\ begin_time' = begin_time /\ end_time' = end_time /\ val' = val /\ pool' = pool
      /\ clock' = clock /\ stat' = stat /\ bt' = bt /\ ct' = ct /\ min_bt' = min_bt
  BY ScanFacts, Zenon
<1>3. /\ L >= 1 /\ tail = chain[L] /\ tail # NULL /\ tail \in Item /\ next[tail] = NULL
      /\ \A i \in 1 .. L : chain[i] \in Item
  BY <1>1, Ends DEF Shape
<1>4. \A i, j \in 1 .. L : chain[i] = chain[j] => i = j
  BY DEF Shape, ListShape
<1>5. \A i \in 1 .. L - 1 : next[chain[i]] = chain[i + 1]
  BY DEF Shape, ListShape
<1>6. HasUncommitted => pre_tail = IF L = 1 THEN tail ELSE chain[L - 1]
  BY <1>1 DEF Shape, ListShape, HasUncommitted
<1>7. pool \cup garbage \cup Items = Item /\ pool \cap garbage = {} /\ (pool \cup garbage) \cap Items = {}
  BY DEF Shape, ItemsPartitioned
<1>8. \A i \in 1 .. L :
        /\ i < L => ~ IS_VALID_TRX_ID(begin_time[chain[i]])
        /\ i < L => end_time[chain[i]] = begin_time[chain[i + 1]]
        /\ i < L => begin_time[chain[i]] < begin_time[chain[i + 1]]
        /\ i = L /\ ~ IS_VALID_TRX_ID(begin_time[chain[i]]) => end_time[chain[i]] = MAX_TIME
  BY DEF Shape, LifetimesAdjacent
<1>9. Items = {chain[i] : i \in 1 .. L}
  BY DEF Items
<1>10. /\ \A t \in Trx : bt[t] <= clock /\ ct[t] <= clock
       /\ \A i \in 1 .. L : begin_time[chain[i]] <= MAX_TIME => begin_time[chain[i]] <= clock
       /\ begin_time[tail] > MAX_TIME => stat[begin_time[tail]] \in {"processing", "validating"}
       /\ begin_time[tail] > MAX_TIME /\ stat[begin_time[tail]] = "validating"
            => \A i \in 1 .. L - 1 : begin_time[chain[i]] < ct[begin_time[tail]]
  BY <1>1 DEF Times
<1>11. tmp_pre_tail # NULL => IS_VALID_TRX_ID(begin_time[tail])
  BY DEF Shape, TmpPreTailOnlyUncommitted
<1> HIDE DEF n, L
<1>13. next' \in [Item -> Item \cup {NULL}] /\ garbage' \subseteq Item
  BY <1>1, <1>3 DEF TypeOK
<1>14. \A i \in 1 .. L : i # n => next'[chain[i]] = next[chain[i]]
  BY <1>1, <1>3, <1>4 DEF TypeOK
<1>15. ItemsPartitioned'
  <2> DEFINE cut == {chain[i] : i \in 1 .. n}
  <2>1. Items' = {chain[i] : i \in n + 1 .. L}
    <3>1. \A i \in n + 1 .. L : i - n \in 1 .. L - n /\ chain'[i - n] = chain[i]
      BY <1>1
    <3>2. \A i \in 1 .. L - n : n + i \in n + 1 .. L
      BY <1>1
    <3>3. Items' = {chain'[i] : i \in 1 .. L - n}
      BY <1>1 DEF Items
    <3>4. \A i \in 1 .. L - n : chain'[i] = chain[n + i]
      BY <1>1
    <3>5. Items' \subseteq {chain[i] : i \in n + 1 .. L}
      BY <3>2, <3>3, <3>4
    <3>6. {chain[i] : i \in n + 1 .. L} \subseteq Items'
      BY <3>1, <3>3
    <3> QED
      BY <3>5, <3>6
  <2>2. Items = cut \cup Items'
    BY <1>1, <1>9, <2>1
  <2>3. cut \cap Items' = {}
    BY <1>1, <1>4, <2>1
  <2> HIDE DEF cut
  <2>4. garbage' = garbage \cup cut
    BY <1>1 DEF cut
  <2> QED
    BY <1>2, <1>7, <2>2, <2>3, <2>4 DEF ItemsPartitioned
<1>16. CASE n = L
  <2>1. TypeOK'
    BY <1>1, <1>2, <1>13, <1>16 DEF TypeOK
  <2>2. ListShape' /\ LifetimesAdjacent' /\ TmpPreTailOnlyUncommitted' /\ Times'
    BY <1>1, <1>2, <1>10, <1>16 DEF ListShape, LifetimesAdjacent, TmpPreTailOnlyUncommitted, Times
  <2> QED
    BY <1>15, <2>1, <2>2 DEF Shape
<1>17. CASE n < L
  <2> DEFINE m == L - n
  <2>1. /\ m \in Nat /\ m >= 1 /\ Len(chain') = m /\ chain' # <<>>
        /\ \A i \in 1 .. m : chain'[i] = chain[n + i] /\ n + i \in 1 .. L
        /\ \A i \in 1 .. m - 1 : i + 1 \in 1 .. m /\ n + i \in 1 .. L - 1 /\ n + (i + 1) = n + i + 1 /\ n + i # n
        /\ n + m = L
    BY <1>1, <1>17
  <2>2. /\ head' = chain[n + 1] /\ tail' = tail
        /\ IF HasUncommitted /\ n = L - 1
           THEN pre_tail' = tail /\ tmp_pre_tail' = tail
           ELSE pre_tail' = pre_tail /\ tmp_pre_tail' = tmp_pre_tail
    BY <1>1, <1>17
  <2>3. m = 1 <=> n = L - 1
    BY <1>1
  <2> HIDE DEF m
  <2>4. head' \in Item /\ head' # NULL /\ head' = chain'[1] /\ tail' = chain'[m] /\ tail' # NULL
    BY <1>3, <2>1, <2>2, NULLAssumption
  <2>5. TypeOK'
    <3>1. {head', tail', pre_tail', tmp_pre_tail'} \subseteq Item \cup {NULL}
      BY <1>3, <2>2, <2>4, Zenon DEF TypeOK
    <3> QED
      BY <1>1, <1>2, <1>13, <3>1 DEF TypeOK
  <2>6. ListShape'
    <3>1. next'[tail'] = NULL
      BY <1>1, <1>3, <1>14, <1>17, <2>1, <2>2
    <3>2. \A i, j \in 1 .. m : chain'[i] = chain'[j] => i = j
      BY <1>1, <1>4, <2>1
    <3>3. \A i \in 1 .. m - 1 : next'[chain'[i]] = chain'[i + 1]
      <4> SUFFICES ASSUME NEW i \in 1 .. m - 1 PROVE next'[chain'[i]] = chain'[i + 1]
        OBVIOUS
      <4>1. i \in 1 .. m /\ i + 1 \in 1 .. m
        BY <2>1
      <4>2. chain'[i] = chain[n + i] /\ chain'[i + 1] = chain[n + i + 1]
        BY <2>1, <4>1
      <4>3. next'[chain[n + i]] = next[chain[n + i]]
        BY <1>14, <2>1, <4>1
      <4> QED
        BY <1>5, <2>1, <4>2, <4>3
    <3>4. IS_VALID_TRX_ID(begin_time[tail]) => pre_tail' = IF m = 1 THEN tail ELSE chain'[m - 1]
      <4> SUFFICES ASSUME HasUncommitted PROVE pre_tail' = IF m = 1 THEN tail ELSE chain'[m - 1]
        BY DEF HasUncommitted
      <4>1. CASE m = 1
        BY <2>2, <2>3, <4>1
      <4>2. CASE m # 1
        <5>1. m - 1 \in 1 .. m /\ L # 1 /\ n + (m - 1) = L - 1
          BY <1>1, <2>1, <4>2
        <5>2. pre_tail' = chain[L - 1]
          BY <1>6, <2>2, <2>3, <4>2, <5>1
        <5> QED
          BY <2>1, <4>2, <5>1, <5>2
      <4> QED
        BY <4>1, <4>2
    <3> QED
      BY <1>2, <2>1, <2>2, <2>4, <3>1, <3>2, <3>3, <3>4 DEF ListShape
  <2>7. TmpPreTailOnlyUncommitted'
    BY <1>2, <1>11, <2>2, <2>4 DEF TmpPreTailOnlyUncommitted, HasUncommitted
  <2>8. LifetimesAdjacent'
    <3> SUFFICES ASSUME NEW i \in 1 .. m
                 PROVE  /\ i < m => ~ IS_VALID_TRX_ID(begin_time[chain'[i]])
                        /\ i < m => end_time[chain'[i]] = begin_time[chain'[i + 1]]
                        /\ i < m => begin_time[chain'[i]] < begin_time[chain'[i + 1]]
                        /\ i = m /\ ~ IS_VALID_TRX_ID(begin_time[chain'[i]]) => end_time[chain'[i]] = MAX_TIME
      BY <1>2, <2>1 DEF LifetimesAdjacent
    <3>1. CASE i = m
      <4>1. chain'[i] = chain[L] /\ L \in 1 .. L
        BY <1>3, <1>1, <2>1, <3>1, Zenon
      <4>2. ~ IS_VALID_TRX_ID(begin_time[chain[L]]) => end_time[chain[L]] = MAX_TIME
        BY <1>8, <4>1
      <4>3. ~ (i < m)
        BY <2>1, <3>1
      <4> QED
        BY <4>1, <4>2, <4>3
    <3>2. CASE i < m
      <4>1. i \in 1 .. m - 1 /\ i \in 1 .. m
        BY <2>1, <3>2
      <4>2. i + 1 \in 1 .. m /\ n + i \in 1 .. L - 1 /\ n + (i + 1) = n + i + 1 /\ n + i \in 1 .. L
        BY <2>1, <4>1
      <4>3. chain'[i] = chain[n + i] /\ chain'[i + 1] = chain[n + i + 1]
        BY <2>1, <4>1, <4>2
      <4>4. n + i < L
        BY <1>1, <4>2
      <4> QED
        BY <1>8, <3>2, <4>2, <4>3, <4>4
    <3> QED
      BY <2>1, <3>1, <3>2
  <2>9. Times'
    <3>1. \A i \in 1 .. m : begin_time[chain'[i]] <= MAX_TIME => begin_time[chain'[i]] <= clock
      BY <1>10, <2>1, Zenon
    <3>2. begin_time[tail] > MAX_TIME /\ stat[begin_time[tail]] = "validating"
            => \A i \in 1 .. m - 1 : begin_time[chain'[i]] < ct[begin_time[tail]]
      <4>1. \A i \in 1 .. m - 1 : i \in 1 .. m
        BY <2>1
      <4> QED
        BY <1>10, <2>1, <4>1, Zenon
    <3> QED
      BY <1>2, <1>10, <2>1, <2>2, <3>1, <3>2 DEF Times
  <2> QED
    BY <1>15, <2>5, <2>6, <2>7, <2>8, <2>9 DEF Shape
<1>18. n = L \/ n < L
  BY <1>1
<1> QED
  BY <1>16, <1>17, <1>18

-----------------------------------------------------------------------------
(* Every step keeps the inductive invariant. *)
LEMMA StepInv == IInv /\ [Next]_vars => IInv'
<1> SUFFICES ASSUME IInv, [Next]_vars PROVE IInv'
  OBVIOUS
<1>1. ASSUME NEW t \in Trx, Begin(t) PROVE IInv'
  BY <1>1, BeginInv
<1>2. ASSUME NEW t \in Trx, Validate(t) PROVE IInv'
  BY <1>2, ValidateInv
<1>3. ASSUME NEW t \in Trx, Finish(t) PROVE IInv'
  <2>1. stat' = [stat EXCEPT ![t] = "finished"] /\ UNCHANGED <<clock, bt, ct, min_bt>>
    BY <1>3 DEF Finish
  <2>2. CASE stat[t] = "validating" /\ CommitVersion(t)
    BY <2>1, <2>2, CommitVersionInv, Zenon
  <2>3. CASE AbortVersion(t)
    BY <2>1, <2>3, AbortVersionInv, Zenon
  <2>4. CASE ~ Writes(t) /\ UNCHANGED <<itemVars, ptrVars, pool, garbage, chain>>
    BY <2>1, <2>4, FinishOtherInv, ZenonT(30)
  <2> QED
    BY <1>3, <2>2, <2>3, <2>4 DEF Finish
<1>4. ASSUME NEW t \in Trx, NEW v \in Value, AppendVersion(t, v) PROVE IInv'
  BY <1>4, AppendFirstInv, AppendOwnInv, AppendNextInv DEF AppendVersion
<1>5. CASE UpdateGlobalMinBT
  BY <1>5, UpdateGlobalMinBTInv
<1>6. CASE ScanMVCCList
  BY <1>6, ScanInv
<1>7. ASSUME NEW i \in Item, FreeItem(i) PROVE IInv'
  BY <1>7, FreeItemInv, SMTT(30)
<1>8. CASE UNCHANGED vars
  <2>1. /\ UNCHANGED <<itemVars, ptrVars, pool, garbage, chain>>
        /\ begin_time' = begin_time /\ end_time' = end_time /\ next' = next /\ val' = val
        /\ head' = head /\ tail' = tail /\ pre_tail' = pre_tail /\ tmp_pre_tail' = tmp_pre_tail
        /\ pool' = pool /\ garbage' = garbage /\ chain' = chain
        /\ clock' = clock /\ stat' = stat /\ bt' = bt /\ ct' = ct /\ min_bt' = min_bt
    BY <1>8 DEF vars, itemVars, ptrVars
  <2>2. Shape'
    BY <2>1, ListAlone DEF IInv
  <2> QED
    BY <2>1, <2>2 DEF IInv, TypeOK, Times
<1> QED
  BY <1>1, <1>2, <1>3, <1>4, <1>5, <1>6, <1>7, <1>8 DEF Next

LEMMA AlwaysIInv == Spec => []IInv
BY InitInv, StepInv, PTL DEF Spec

(* The type invariant, for every pool and every number of transactions. *)
THEOREM TypeCorrect == Spec => []TypeOK
<1>1. IInv => TypeOK
  BY DEF IInv
<1> QED
  BY <1>1, AlwaysIInv, PTL

(* The four pointers always describe the list (mvcc_list.tpp): pre_tail_,  *)
(* through which CommitVersion and AbortVersion write, is the item in      *)
(* front of an uncommitted tail, whatever the collector cut off.           *)
THEOREM PointersDescribeList == Spec => []ListShape
<1>1. IInv => ListShape
  BY DEF IInv, Shape
<1> QED
  BY <1>1, AlwaysIInv, PTL

(* No item of the memory pool is lost, shared or freed twice between       *)
(* AppendVersion, AbortVersion, scan_mvcc_list and the consumer.           *)
THEOREM ItemsHeldOnce == Spec => []ItemsPartitioned
<1>1. IInv => ItemsPartitioned
  BY DEF IInv, Shape
<1> QED
  BY <1>1, AlwaysIInv, PTL

(* The lifetimes of the versions follow each other without gap or overlap, *)
(* through every CommitVersion, AbortVersion and scan_mvcc_list.           *)
THEOREM LifetimesAlwaysAdjacent == Spec => []LifetimesAdjacent
<1>1. IInv => LifetimesAdjacent
  BY DEF IInv, Shape
<1> QED
  BY <1>1, AlwaysIInv, PTL

-----------------------------------------------------------------------------
(* Readers.  The items in front of the last committed one end when the     *)
(* next one begins; that one is open.                                      *)
LEMMA EndTimes ==
  ASSUME IInv, chain # <<>>, HasUncommitted => head # tail
  PROVE  /\ Last \in 1 .. Len(chain) /\ Len(chain) \in Nat
         /\ \A i \in 1 .. Last : /\ begin_time[chain[i]] \in Nat
                                 /\ begin_time[chain[i]] <= MAX_TIME
                                 /\ GetTransactionID(chain[i]) = 0
                                 /\ GetEndTime(chain[i]) = end_time[chain[i]]
         /\ \A i \in 1 .. Last - 1 : /\ GetEndTime(chain[i]) = begin_time[chain[i + 1]]
                                     /\ begin_time[chain[i]] < begin_time[chain[i + 1]]
         /\ GetEndTime(chain[Last]) \in Nat /\ GetEndTime(chain[Last]) >= MAX_TIME
<1> USE DEF IInv
<1> DEFINE L == Len(chain)
<1>1. /\ L \in Nat /\ Last \in 1 .. L
      /\ HasUncommitted => Last = L - 1
      /\ ~ HasUncommitted => Last = L
  BY LastCommitted
<1>2. L >= 1 /\ tail = chain[L] /\ \A i \in 1 .. L : chain[i] \in Item
  BY Ends DEF Shape
<1>3. \A i \in 1 .. L : begin_time[chain[i]] \in Nat /\ end_time[chain[i]] \in Nat
  BY <1>2, Numbers, SMTT(30) DEF TypeOK
<1>4. \A i \in 1 .. L :
        /\ i < L => ~ IS_VALID_TRX_ID(begin_time[chain[i]])
        /\ i < L => end_time[chain[i]] = begin_time[chain[i + 1]]
        /\ i < L => begin_time[chain[i]] < begin_time[chain[i + 1]]
        /\ i = L /\ ~ IS_VALID_TRX_ID(begin_time[chain[i]]) => end_time[chain[i]] = MAX_TIME
  BY DEF Shape, LifetimesAdjacent
<1>5. HasUncommitted <=> IS_VALID_TRX_ID(begin_time[chain[L]])
  BY <1>2 DEF HasUncommitted
<1>6. MAX_TIME \in Nat
  BY Numbers
<1> HIDE DEF L
<1>7. \A i \in 1 .. Last : i \in 1 .. L /\ ~ IS_VALID_TRX_ID(begin_time[chain[i]])
  BY <1>1, <1>2, <1>4, <1>5
<1>8. \A i \in 1 .. Last : /\ begin_time[chain[i]] \in Nat
                           /\ begin_time[chain[i]] <= MAX_TIME
                           /\ GetTransactionID(chain[i]) = 0
                           /\ GetEndTime(chain[i]) = end_time[chain[i]]
  <2> SUFFICES ASSUME NEW i \in 1 .. Last
               PROVE  /\ begin_time[chain[i]] \in Nat
                      /\ begin_time[chain[i]] <= MAX_TIME
                      /\ GetTransactionID(chain[i]) = 0
                      /\ GetEndTime(chain[i]) = end_time[chain[i]]
    OBVIOUS
  <2>1. begin_time[chain[i]] \in Nat /\ ~ (begin_time[chain[i]] > MAX_TIME)
    BY <1>3, <1>7 DEF IS_VALID_TRX_ID
  <2>2. GetTransactionID(chain[i]) = 0
    BY <2>1 DEF GetTransactionID, IS_VALID_TRX_ID
  <2> QED
    BY <1>6, <2>1, <2>2, SMTT(30) DEF GetEndTime
<1>9. \A i \in 1 .. Last - 1 : i \in 1 .. Last /\ i \in 1 .. L /\ i < L
  BY <1>1, SMTT(30)
<1>10. \A i \in 1 .. Last - 1 : /\ GetEndTime(chain[i]) = begin_time[chain[i + 1]]
                                /\ begin_time[chain[i]] < begin_time[chain[i + 1]]
  BY <1>4, <1>8, <1>9, SMTT(30)
<1>11. GetEndTime(chain[Last]) \in Nat /\ GetEndTime(chain[Last]) >= MAX_TIME
  <2>1. Last \in 1 .. Last /\ GetEndTime(chain[Last]) = end_time[chain[Last]] /\ end_time[chain[Last]] \in Nat
    BY <1>1, <1>3, <1>8, SMTT(30)
  <2>2. CASE HasUncommitted
    <3>1. end_time[chain[Last]] = begin_time[chain[L]] /\ L \in 1 .. L
      BY <1>1, <1>2, <1>4, <2>2
    <3>2. begin_time[chain[L]] > MAX_TIME /\ begin_time[chain[L]] \in Nat
      BY <1>3, <1>5, <2>2, <3>1 DEF IS_VALID_TRX_ID
    <3> QED
      BY <1>6, <2>1, <3>1, <3>2
  <2>3. CASE ~ HasUncommitted
    BY <1>1, <1>4, <1>5, <1>6, <2>1, <2>3
  <2> QED
    BY <2>2, <2>3, SMTT(30)
<1> QED
  BY <1>1, <1>8, <1>10, <1>11 DEF L

(* A visible list has a committed item. *)
LEMMA VisibleScanned ==
  ASSUME IInv, NEW t \in Trx, ~ Invisible(t)
  PROVE  /\ chain # <<>> /\ (HasUncommitted => head # tail)
         /\ begin_time[chain[1]] <= bt[t] /\ bt[t] \in Nat /\ bt[t] <= MaxTS
<1> USE DEF IInv
<1>1. head # NULL /\ GetTransactionID(head) = 0 /\ ~ (begin_time[head] > bt[t])
  BY SMTT(30) DEF Invisible
<1>2. chain # <<>>
  BY <1>1, SMTT(30) DEF Shape, ListShape
<1>3. head = chain[1] /\ head \in Item /\ begin_time[head] \in Nat
  BY <1>2, Ends, Numbers, SMTT(30) DEF Shape, TypeOK
<1>4. ~ IS_VALID_TRX_ID(begin_time[head])
  BY <1>1, <1>3, Numbers, SMTT(30) DEF GetTransactionID, IS_VALID_TRX_ID
<1>5. bt[t] \in Nat /\ bt[t] <= MaxTS
  BY Numbers DEF TypeOK
<1> QED
  BY <1>1, <1>2, <1>3, <1>4, <1>5 DEF HasUncommitted

(* CHECK(version != tail_) of the walk never fails: the walk of a running  *)
(* transaction stops, at the latest at the last committed item.            *)
THEOREM WalkAlwaysStops == Spec => []WalkStops
<1>1. IInv => WalkStops
  <2> SUFFICES ASSUME IInv, NEW t \in Running, ~ Invisible(t)
               PROVE  \E i \in 1 .. Len(chain) : StopsAt(t, i)
    BY DEF WalkStops
  <2>1. t \in Trx
    BY DEF Running
  <2>2. chain # <<>> /\ (HasUncommitted => head # tail) /\ bt[t] \in Nat /\ bt[t] <= MaxTS
    BY <2>1, VisibleScanned, SMTT(30)
  <2>3. /\ Last \in 1 .. Len(chain) /\ Len(chain) \in Nat
        /\ GetEndTime(chain[Last]) \in Nat /\ GetEndTime(chain[Last]) >= MAX_TIME
        /\ \A i \in 1 .. Last : GetEndTime(chain[i]) = end_time[chain[i]]
    BY <2>2, EndTimes, SMTT(30)
  <2>4. \A i \in 1 .. Last : GetEndTime(chain[i]) \in Nat
    <3>1. \A i \in 1 .. Last : chain[i] \in Item
      BY <2>3 DEF IInv, TypeOK
    <3> QED
      BY <2>3, <3>1, Numbers, SMTT(30) DEF IInv, TypeOK
  <2> DEFINE T == {i \in 1 .. Last : bt[t] < GetEndTime(chain[i])}
  <2>5. T \in SUBSET Nat
    BY <2>3
  <2>6. Last \in T
    <3>1. MAX_TIME = MaxTS + 1 /\ MaxTS \in Nat
      BY Numbers
    <3> QED
      BY <2>2, <2>3, <3>1, SMTT(30)
  <2>7. PICK i \in T : \A j \in T : i <= j
    BY <2>5, <2>6, Least, Zenon
  <2>8. i \in 1 .. Last /\ i \in 1 .. Len(chain) /\ bt[t] < GetEndTime(chain[i])
    BY <2>3, SMTT(30)
  <2>9. \A j \in 1 .. i - 1 : GetEndTime(chain[j]) <= bt[t]
    <3> SUFFICES ASSUME NEW j \in 1 .. i - 1 PROVE GetEndTime(chain[j]) <= bt[t]
      OBVIOUS
    <3>1. j \in 1 .. Last /\ ~ (i <= j)
      BY <2>3, <2>8, SMTT(30)
    <3>2. ~ (bt[t] < GetEndTime(chain[j]))
      BY <2>7, <3>1, SMTT(30)
    <3> QED
      BY <2>2, <2>4, <3>1, <3>2
  <2> QED
    BY <2>8, <2>9 DEF StopsAt
<1> QED
  BY <1>1, AlwaysIInv, PTL

-----------------------------------------------------------------------------
(* The items a scan of a property list cuts off ended before the           *)
(* watermark; the last committed one is cut off as well when it is a       *)
(* deletion.                                                               *)
LEMMA ScanCut ==
  ASSUME IInv, ScanMVCCList, ~ IsEdge, NEW n, n = gc_checkpoint
  PROVE  /\ n \in 1 .. Last /\ Last \in Nat
         /\ \A j \in 1 .. Last : GetEndTime(chain[j]) \in Nat
         /\ \A j \in 1 .. n - 1 : GetEndTime(chain[j]) < min_bt
         /\ GetEndTime(chain[n]) < min_bt \/ (n = Last /\ val[chain[n]] = Empty)
         /\ GetEndTime(chain[n]) < min_bt => n < Last
<1>1. /\ chain # <<>> /\ (HasUncommitted => head # tail)
      /\ n \in 1 .. Last /\ Last \in 1 .. Len(chain) /\ Len(chain) \in Nat
  BY ScanFacts
<1>2. /\ \A j \in 1 .. n - 1 : GetEndTime(chain[j]) < min_bt
      /\ GetEndTime(chain[n]) < min_bt \/ (n = Last /\ val[chain[n]] = Empty)
  BY <1>1, Checkpoint, SMTT(30) DEF GCable
<1>3. \A j \in 1 .. Last : GetEndTime(chain[j]) \in Nat
  <2>1. \A j \in 1 .. Last : GetEndTime(chain[j]) = end_time[chain[j]]
    BY <1>1, EndTimes
  <2>2. \A j \in 1 .. Last : chain[j] \in Item
    BY <1>1 DEF IInv, TypeOK
  <2> QED
    BY <2>1, <2>2, Numbers DEF IInv, TypeOK
<1>4. GetEndTime(chain[n]) < min_bt => n < Last
  <2> SUFFICES ASSUME GetEndTime(chain[n]) < min_bt, n = Last PROVE FALSE
    BY <1>1
  <2>1. GetEndTime(chain[Last]) \in Nat /\ GetEndTime(chain[Last]) >= MAX_TIME
    BY <1>1, EndTimes
  <2>2. min_bt \in Nat /\ min_bt <= MAX_TIME /\ MAX_TIME \in Nat
    BY Numbers DEF IInv, TypeOK
  <2> QED
    BY <2>1, <2>2
<1> QED
  BY <1>1, <1>2, <1>3, <1>4

(* A running transaction finds the same value before and after a scan. *)
LEMMA ScanReads ==
  ASSUME IInv, ScanMVCCList, ~ IsEdge, NEW t \in Running, min_bt <= bt[t], NEW v \in Value
  PROVE  Sees(t, v) <=> Sees(t, v)'
<1> DEFINE g == gc_checkpoint
           K == Len(chain)
<1>0. /\ chain # <<>> /\ K \in Nat /\ g \in 1 .. Last /\ Last \in 1 .. K /\ g \in 1 .. K
      /\ Len(chain') = K - g
      /\ \A i \in 1 .. K - g : chain'[i] = chain[g + i]
      /\ g = K => ~ HasUncommitted /\ head' = NULL /\ tail' = NULL
      /\ g < K => head' = chain[g + 1] /\ tail' = tail
      /\ begin_time' = begin_time /\ end_time' = end_time /\ val' = val /\ bt' = bt
      /\ HasUncommitted => head # tail
  BY ScanFacts, Zenon
<1> HIDE DEF g, K
<1>a. PICK n \in Nat : n = g
  BY <1>0
<1>b. PICK L \in Nat : L = K
  BY <1>0
<1>1. /\ chain # <<>> /\ L \in Nat /\ n \in 1 .. Last /\ Last \in 1 .. L /\ n \in 1 .. L
      /\ Len(chain') = L - n
      /\ \A i \in 1 .. L - n : chain'[i] = chain[n + i]
      /\ n = L => ~ HasUncommitted /\ head' = NULL /\ tail' = NULL
      /\ n < L => head' = chain[n + 1] /\ tail' = tail
      /\ begin_time' = begin_time /\ end_time' = end_time /\ val' = val /\ bt' = bt
      /\ HasUncommitted => head # tail
  BY <1>0, <1>a, <1>b
<1>2. /\ \A j \in 1 .. Last : GetEndTime(chain[j]) \in Nat
      /\ \A j \in 1 .. n - 1 : GetEndTime(chain[j]) < min_bt
      /\ GetEndTime(chain[n]) < min_bt \/ (n = Last /\ val[chain[n]] = Empty)
      /\ GetEndTime(chain[n]) < min_bt => n < Last
  BY <1>a, ScanCut DEF g
<1>3. t \in Trx /\ bt[t] \in Nat /\ bt[t] < MAX_TIME /\ min_bt \in Nat /\ min_bt <= bt[t] /\ MAX_TIME \in Nat
  BY Numbers DEF Running, IInv, TypeOK
<1>4. /\ \A i \in 1 .. Last : /\ begin_time[chain[i]] \in Nat
                              /\ GetTransactionID(chain[i]) = 0
      /\ \A i \in 1 .. Last - 1 : /\ GetEndTime(chain[i]) = begin_time[chain[i + 1]]
                                  /\ begin_time[chain[i]] < begin_time[chain[i + 1]]
      /\ GetEndTime(chain[Last]) >= MAX_TIME
  BY <1>b, <1>1, EndTimes DEF K
<1>5. head = chain[1] /\ tail = chain[L] /\ tail # NULL /\ head # NULL /\ tail \in Item
  BY <1>b, <1>1, Ends DEF K, IInv, Shape
<1>6. HasUncommitted => Last = L - 1
  BY <1>b, <1>1, LastCommitted DEF K
<1>7. ~ HasUncommitted => Last = L
  BY <1>b, <1>1, LastCommitted DEF K
<1>8. /\ \A x : GetTransactionID(x)' = IF IS_VALID_TRX_ID(begin_time[x']) THEN begin_time[x'] ELSE 0
      /\ Writes(t)' <=> (tail' # NULL /\ GetTransactionID(tail') = t)
      /\ Invisible(t)' <=> (head' = NULL \/ GetTransactionID(head') # 0 \/ begin_time[head'] > bt[t])
  BY <1>1 DEF GetTransactionID, Writes, Invisible, IS_VALID_TRX_ID
<1>9. \A i \in 1 .. L - n : GetEndTime(chain[i])' = GetEndTime(chain[n + i])
  BY <1>1, Zenon DEF GetEndTime, GetTransactionID
<1>10. \A i \in 1 .. L - n :
         StopsAt(t, i)' <=> /\ bt[t] < GetEndTime(chain[n + i])
                            /\ \A j \in 1 .. i - 1 : GetEndTime(chain[n + j]) <= bt[t]
  <2> SUFFICES ASSUME NEW i \in 1 .. L - n
               PROVE  StopsAt(t, i)' <=> /\ bt[t] < GetEndTime(chain[n + i])
                                         /\ \A j \in 1 .. i - 1 : GetEndTime(chain[n + j]) <= bt[t]
    OBVIOUS
  <2>1. \A j \in 1 .. i - 1 : j \in 1 .. L - n
    BY <1>1
  <2> QED
    BY <1>1, <1>9, <2>1, Zenon DEF StopsAt
<1>11. Writes(t)' <=> Writes(t)
  <2>1. CASE n = L
    <3>1. ~ Writes(t)
      BY <1>1, <1>3, <2>1, Numbers DEF Writes, GetTransactionID, HasUncommitted
    <3> QED
      BY <1>1, <1>8, <2>1, <3>1
  <2>2. CASE n < L
    BY <1>1, <1>8, <2>2 DEF Writes
  <2> QED
    BY <1>1, <2>1, <2>2
<1>12. CASE Writes(t)
  <2>1. n # L
    BY <1>1, <1>3, <1>12, Numbers DEF Writes, GetTransactionID, HasUncommitted
  <2>2. tail' = tail
    BY <1>1, <2>1
  <2> QED
    BY <1>1, <1>11, <1>12, <2>2, Zenon DEF Sees
<1>13. CASE ~ Writes(t) /\ GetEndTime(chain[n]) < min_bt
  <2>1. n < Last /\ n \in 1 .. Last - 1 /\ n < L /\ n + 1 \in 1 .. Last /\ 1 \in 1 .. Last - 1 /\ 1 \in 1 .. Last
    BY <1>1, <1>2, <1>13
  <2>2. \A j \in 1 .. n : GetEndTime(chain[j]) <= bt[t]
    <3>1. \A j \in 1 .. n : j \in 1 .. Last /\ (j = n \/ j \in 1 .. n - 1)
      BY <1>1
    <3> QED
      BY <1>2, <1>3, <1>13, <3>1
  <2>3. ~ Invisible(t)
    <3>1. begin_time[chain[1]] < GetEndTime(chain[1]) /\ GetEndTime(chain[1]) <= bt[t]
      BY <1>1, <1>4, <2>1, <2>2
    <3> QED
      BY <1>2, <1>3, <1>4, <1>5, <2>1, <3>1 DEF Invisible
  <2>4. ~ Invisible(t)'
    <3>1. head' = chain[n + 1] /\ begin_time[chain[n + 1]] <= bt[t] /\ GetTransactionID(chain[n + 1]) = 0
      <4>1. begin_time[chain[n + 1]] = GetEndTime(chain[n]) /\ n \in 1 .. n
        BY <1>1, <1>4, <2>1
      <4> QED
        BY <1>1, <1>4, <2>1, <2>2, <4>1
    <3>2. head' # NULL
      BY <1>b, <1>1, <2>1, <3>1, NULLAssumption DEF K, IInv, TypeOK
    <3> QED
      BY <1>3, <1>4, <1>8, <2>1, <3>1, <3>2
  <2>5. \A i \in 1 .. L : StopsAt(t, i) => i - n \in 1 .. L - n
    <3> SUFFICES ASSUME NEW i \in 1 .. L, StopsAt(t, i), i <= n PROVE FALSE
      BY <1>1
    <3>1. i \in 1 .. n /\ i \in 1 .. Last
      BY <1>1
    <3> QED
      BY <1>2, <1>3, <2>2, <3>1 DEF StopsAt
  <2>6. \A i \in 1 .. L - n : StopsAt(t, i)' <=> StopsAt(t, n + i)
    <3> SUFFICES ASSUME NEW i \in 1 .. L - n PROVE StopsAt(t, i)' <=> StopsAt(t, n + i)
      OBVIOUS
    <3>1. \A j \in 1 .. i - 1 : n + j \in 1 .. n + i - 1
      BY <1>1
    <3>2. \A j \in 1 .. n + i - 1 : j \in 1 .. n \/ (j - n \in 1 .. i - 1 /\ n + (j - n) = j)
      BY <1>1
    <3>3. (\A j \in 1 .. i - 1 : GetEndTime(chain[n + j]) <= bt[t])
            <=> (\A j \in 1 .. n + i - 1 : GetEndTime(chain[j]) <= bt[t])
      <4>1. ASSUME \A j \in 1 .. i - 1 : GetEndTime(chain[n + j]) <= bt[t], NEW j \in 1 .. n + i - 1
            PROVE  GetEndTime(chain[j]) <= bt[t]
        <5>1. CASE j \in 1 .. n
          BY <2>2, <5>1
        <5>2. CASE j - n \in 1 .. i - 1 /\ n + (j - n) = j
          <6>1. GetEndTime(chain[n + (j - n)]) <= bt[t]
            BY <4>1, <5>2
          <6> QED
            BY <5>2, <6>1
        <5> QED
          BY <3>2, <5>1, <5>2
      <4> QED
        BY <3>1, <4>1
    <3> QED
      BY <1>10, <3>3 DEF StopsAt
  <2>7. ASSUME NEW i \in 1 .. L, StopsAt(t, i), v = val[chain[i]]
        PROVE  \E k \in 1 .. L - n : StopsAt(t, k)' /\ v = val[chain'[k]]
    <3>1. i - n \in 1 .. L - n /\ n + (i - n) = i
      BY <1>1, <2>5, <2>7
    <3>2. StopsAt(t, i - n)' <=> StopsAt(t, n + (i - n))
      BY <2>6, <3>1
    <3>3. chain'[i - n] = chain[n + (i - n)]
      BY <1>1, <3>1
    <3> QED
      BY <2>7, <3>1, <3>2, <3>3
  <2>8. ASSUME NEW k \in 1 .. L - n, StopsAt(t, k)', v = val[chain'[k]]
        PROVE  \E i \in 1 .. L : StopsAt(t, i) /\ v = val[chain[i]]
    <3>1. n + k \in 1 .. L /\ StopsAt(t, n + k) /\ chain'[k] = chain[n + k]
      BY <1>1, <2>6, <2>8
    <3> QED
      BY <2>8, <3>1
  <2>9. Sees(t, v) <=> \E i \in 1 .. L : StopsAt(t, i) /\ v = val[chain[i]]
    BY <1>b, <1>13, <2>3 DEF Sees, K
  <2>10. Sees(t, v)' <=> \E k \in 1 .. L - n : StopsAt(t, k)' /\ v = val[chain'[k]]
    BY <1>1, <1>11, <1>13, <2>4 DEF Sees
  <2> QED
    BY <2>7, <2>8, <2>9, <2>10, Zenon
<1>14. CASE ~ Writes(t) /\ ~ (GetEndTime(chain[n]) < min_bt)
  <2>1. n = Last /\ val[chain[n]] = Empty
    BY <1>2, <1>14
  <2>2. Invisible(t)'
    <3>1. CASE n = L
      BY <1>1, <1>8, <3>1
    <3>2. CASE n < L
      <4>1. HasUncommitted /\ n + 1 = L
        BY <1>1, <1>6, <1>7, <2>1, <3>2
      <4>2. head' = tail /\ GetTransactionID(tail) # 0
        BY <1>1, <1>3, <1>5, <3>2, <4>1 DEF HasUncommitted, IS_VALID_TRX_ID, GetTransactionID
      <4> QED
        BY <1>8, <4>2
    <3> QED
      BY <1>1, <3>1, <3>2
  <2>3. Sees(t, v)' <=> v = Empty
    BY <1>11, <1>14, <2>2 DEF Sees
  <2>4. CASE Invisible(t)
    BY <1>14, <2>3, <2>4, Zenon DEF Sees
  <2>5. CASE ~ Invisible(t)
    <3>1. bt[t] < GetEndTime(chain[n]) /\ ~ (GetEndTime(chain[n]) <= bt[t])
      BY <1>1, <1>2, <1>3, <1>4, <2>1
    <3>2. \A j \in 1 .. n - 1 : GetEndTime(chain[j]) <= bt[t] /\ ~ (bt[t] < GetEndTime(chain[j]))
      <4>1. \A j \in 1 .. n - 1 : j \in 1 .. Last
        BY <1>1
      <4> QED
        BY <1>2, <1>3, <4>1
    <3>3. \A i \in 1 .. L : StopsAt(t, i) <=> i = n
      <4> SUFFICES ASSUME NEW i \in 1 .. L PROVE StopsAt(t, i) <=> i = n
        OBVIOUS
      <4>1. CASE i = n
        BY <3>1, <3>2, <4>1 DEF StopsAt
      <4>2. CASE i < n
        <5>1. i \in 1 .. n - 1
          BY <1>1, <4>2
        <5> QED
          BY <1>1, <3>2, <4>2, <5>1 DEF StopsAt
      <4>3. CASE n < i
        <5>1. n \in 1 .. i - 1
          BY <1>1, <4>3
        <5> QED
          BY <1>1, <3>1, <4>3, <5>1 DEF StopsAt
      <4> QED
        BY <1>1, <4>1, <4>2, <4>3
    <3>4. Sees(t, v) <=> v = val[chain[n]]
      BY <1>b, <1>1, <1>14, <2>5, <3>3 DEF Sees, K
    <3> QED
      BY <2>1, <2>3, <3>4
  <2> QED
    BY <2>4, <2>5
<1> QED
  BY <1>12, <1>13, <1>14

(* In a property list the collector never changes what a transaction reads *)
(* that began at or after the watermark: scan_mvcc_list cuts off only      *)
(* items that ended before the watermark, or a deletion at the end, which  *)
(* reads like nothing.  This holds on any number of workers.               *)
THEOREM ScanAlwaysKeepsReads ==
  ASSUME ~ IsEdge
  PROVE  Spec => ScanKeepsReads
<1>1. IInv => (ScanMVCCList => \A t \in Running : min_bt <= bt[t] =>
                                 \A v \in Value : Sees(t, v) <=> Sees(t, v)')
  BY ScanReads, SMTT(30)
<1> QED
  BY <1>1, AlwaysIInv, PTL DEF ScanKeepsReads

-----------------------------------------------------------------------------
(* One worker.  The watermark is its own minimum, at most every running    *)
(* begin time and at most one beyond the clock.                            *)
OneWorker == \A t, u \in Trx : Home[t] = Home[u]

Watermark == min_bt <= clock + 1 /\ \A t \in Running : min_bt <= bt[t]

LEMMA WatermarkStep ==
  ASSUME OneWorker, IInv, Watermark, [Next]_vars
  PROVE  Watermark'
<1>0. /\ clock \in Nat /\ min_bt \in Nat
      /\ \A t \in Trx : bt[t] \in Nat /\ bt[t] <= clock
      /\ stat \in [Trx -> {"idle", "processing", "validating", "finished"}]
      /\ bt \in [Trx -> 0 .. MaxTS]
  BY Numbers DEF IInv, TypeOK, Times
<1>1. ASSUME NEW t \in Trx, Begin(t) PROVE Watermark'
  BY <1>0, <1>1 DEF Begin, Watermark, Running
<1>2. ASSUME NEW t \in Trx, Validate(t) PROVE Watermark'
  BY <1>0, <1>2 DEF Validate, Watermark, Running
<1>3. ASSUME NEW t \in Trx, Finish(t) PROVE Watermark'
  BY <1>0, <1>3 DEF Finish, Watermark, Running
<1>4. CASE UpdateGlobalMinBT
  <2>1. PICK t \in Trx : \E m \in {bt[t], bt[t] + 1} :
          (\A u \in Running : Home[u] = Home[t] => m <= bt[u]) /\ min_bt' = m
    BY <1>4 DEF UpdateGlobalMinBT
  <2>2. \A u \in Running : min_bt' <= bt[u]
    BY <2>1 DEF OneWorker, Running
  <2>3. min_bt' <= clock + 1
    BY <1>0, <2>1
  <2> QED
    BY <1>4, <2>2, <2>3 DEF UpdateGlobalMinBT, Watermark, Running
<1>5. CASE UNCHANGED <<min_bt, clock, stat, bt>>
  BY <1>5 DEF Watermark, Running
<1> QED
  BY <1>1, <1>2, <1>3, <1>4, <1>5, SMTT(30)
  DEF Next, AppendVersion, ScanMVCCList, FreeItem, trxVars, vars

(* With one worker the collector never changes what any running            *)
(* transaction reads in a property list: UpdateGlobalMinBT, the maximum of *)
(* one minimum, stays below its begin time.                                *)
THEOREM OneWorkerKeepsAllReads ==
  ASSUME ~ IsEdge, OneWorker
  PROVE  Spec => [][ScanMVCCList => \A t \in Running, v \in Value : Sees(t, v) <=> Sees(t, v)']_vars
<1>1. Init => Watermark
  BY DEF Init, Watermark, Running
<1>2. IInv /\ Watermark /\ [Next]_vars => Watermark'
  BY WatermarkStep
<1>3. IInv /\ Watermark => (ScanMVCCList => \A t \in Running, v \in Value : Sees(t, v) <=> Sees(t, v)')
  BY ScanReads DEF Watermark
<1> QED
  BY <1>1, <1>2, <1>3, AlwaysIInv, PTL DEF Spec
=============================================================================
