------------------------ MODULE RunningTrxListProofs ------------------------
(***************************************************************************)
(* Proofs about RunningTrxList for every set of workers and every bound on *)
(* the begin times.                                                        *)
(***************************************************************************)
EXTENDS RunningTrxList, SequenceTheorems, TLAPS

(* The list without its i-th node is a list of the remaining begin times   *)
(* in their old order.                                                     *)
LEMMA UnlinkShape ==
  ASSUME NEW S, NEW s \in Seq(S), NEW i \in 1 .. Len(s)
  PROVE  /\ Unlink(s, i) \in Seq(S)
         /\ Len(Unlink(s, i)) = Len(s) - 1
         /\ \A j \in 1 .. Len(s) - 1 :
              Unlink(s, i)[j] = IF j < i THEN s[j] ELSE s[j + 1]
<1> DEFINE l == SubSeq(s, 1, i - 1)
           r == SubSeq(s, i + 1, Len(s))
<1>1. l \in Seq(S) /\ Len(l) = i - 1 /\ \A j \in 1 .. i - 1 : l[j] = s[j]
  OBVIOUS
<1>2. r \in Seq(S) /\ Len(r) = Len(s) - i /\ \A j \in 1 .. Len(s) - i : r[j] = s[i + j]
  OBVIOUS
<1>3. Unlink(s, i) = l \o r
  BY DEF Unlink
<1> HIDE DEF l, r
<1>4. l \o r \in Seq(S) /\ Len(l \o r) = Len(s) - 1
  <2>1. l \o r \in Seq(S) /\ Len(l \o r) = Len(l) + Len(r)
    BY <1>1, <1>2, ConcatProperties, Zenon
  <2>2. Len(s) \in Nat /\ i \in Int
    BY LenProperties
  <2> QED
    BY <1>1, <1>2, <2>1, <2>2
<1>5. ASSUME NEW j \in 1 .. Len(s) - 1
      PROVE  (l \o r)[j] = IF j < i THEN s[j] ELSE s[j + 1]
  <2>1. CASE j < i
    BY <1>1, <1>2, <2>1
  <2>2. CASE ~ (j < i)
    <3>1. (l \o r)[j] = r[j - (i - 1)]
      BY <1>1, <1>2, <2>2
    <3>2. j - (i - 1) \in 1 .. Len(s) - i /\ i + (j - (i - 1)) = j + 1
      BY <2>2
    <3> QED
      BY <1>2, <2>2, <3>1, <3>2
  <2> QED
    BY <2>1, <2>2, Zenon
<1> QED
  BY <1>3, <1>4, <1>5

(* A step of any thread keeps the state well typed. *)
LEMMA TypeStep ==
  ASSUME TypeOK, [Next]_vars
  PROVE  TypeOK'
<1> USE MaxBTAssumption DEF BT
<1>0. ASSUME NEW w \in Worker, NEW bt \in 0 .. MaxBT + 1, UpdateMinBT(w, bt)
      PROVE  /\ min_bt' \in [Worker -> 0 .. MaxBT + 1]
             /\ rdma_mem' \in [Worker -> [Worker -> 0 .. MaxBT + 1]]
             /\ wire' \in [Worker -> [Worker -> Seq(0 .. MaxBT + 1)]]
  <2>1. CASE min_bt[w] = bt
    BY <1>0, <2>1 DEF TypeOK, UpdateMinBT, memVars
  <2>2. CASE min_bt[w] # bt
    <3>0. \A i \in Worker : wire[w][i] \in Seq(0 .. MaxBT + 1)
      BY DEF TypeOK
    <3>1. \A i \in Worker : Append(wire[w][i], bt) \in Seq(0 .. MaxBT + 1)
      BY <3>0, AppendProperties
    <3>2. [i \in Worker |-> IF i = w THEN wire[w][i] ELSE Append(wire[w][i], bt)]
            \in [Worker -> Seq(0 .. MaxBT + 1)]
      BY <3>0, <3>1, Zenon
    <3>3. wire' = [wire EXCEPT ![w] =
                    [i \in Worker |-> IF i = w THEN wire[w][i] ELSE Append(wire[w][i], bt)]]
      BY <1>0, <2>2 DEF UpdateMinBT
    <3>4. /\ min_bt' = [min_bt EXCEPT ![w] = bt]
          /\ rdma_mem' = [rdma_mem EXCEPT ![w][w] = bt]
      BY <1>0, <2>2 DEF UpdateMinBT
    <3>5. wire' \in [Worker -> [Worker -> Seq(0 .. MaxBT + 1)]]
      BY <3>2, <3>3, Zenon DEF TypeOK
    <3> QED
      BY <1>0, <3>4, <3>5, Zenon DEF TypeOK
  <2> QED
    BY <2>1, <2>2
<1>1. ASSUME NEW w \in Worker, AllocateBT(w) PROVE TypeOK'
  <2>1. PICK bt \in BT :
          /\ last_ts' = [last_ts EXCEPT ![w] = bt]
          /\ pending' = [pending EXCEPT ![w] = Append(@, bt)]
          /\ UNCHANGED <<listVars, memVars, scanVars>>
    BY <1>1, Zenon DEF AllocateBT
  <2>2. Append(pending[w], bt) \in Seq(BT)
    BY AppendProperties DEF TypeOK
  <2>3. last_ts' \in [Worker -> BT] /\ pending' \in [Worker -> Seq(BT)]
    BY <2>1, <2>2 DEF TypeOK
  <2> QED
    BY <2>1, <2>3, SMTT(30) DEF TypeOK, listVars, memVars, scanVars
<1>2. ASSUME NEW w \in Worker, InsertTrx(w) PROVE TypeOK'
  <2>1. Head(pending[w]) \in BT /\ Tail(pending[w]) \in Seq(BT)
    BY <1>2, HeadTailProperties, Zenon DEF TypeOK, InsertTrx
  <2>2. Append(list[w], Head(pending[w])) \in Seq(BT)
    BY <2>1, AppendProperties DEF TypeOK
  <2>3. /\ min_bt' \in [Worker -> 0 .. MaxBT + 1]
        /\ rdma_mem' \in [Worker -> [Worker -> 0 .. MaxBT + 1]]
        /\ wire' \in [Worker -> [Worker -> Seq(0 .. MaxBT + 1)]]
    <3>1. CASE list[w] = <<>>
      BY <1>0, <1>2, <2>1, <3>1 DEF InsertTrx
    <3>2. CASE list[w] # <<>>
      BY <1>2, <3>2, Zenon DEF InsertTrx, TypeOK, memVars
    <3> QED
      BY <3>1, <3>2
  <2> QED
    BY <1>2, <2>1, <2>2, <2>3, Zenon DEF TypeOK, InsertTrx, scanVars
<1>3. ASSUME NEW w \in Worker, EraseTrx(w) PROVE TypeOK'
  <2>1. PICK i \in DOMAIN list[w] :
          /\ list' = [list EXCEPT ![w] = Unlink(@, i)]
          /\ IF Len(list[w]) = 1 THEN UpdateMinBT(w, max_bt[w] + 1)
             ELSE IF i = 1 THEN UpdateMinBT(w, list[w][2])
             ELSE UNCHANGED <<min_bt, memVars>>
          /\ UNCHANGED <<last_ts, pending, max_bt, scanVars>>
    BY <1>3, Zenon DEF EraseTrx
  <2>2. i \in 1 .. Len(list[w]) /\ list[w] \in Seq(BT) /\ Len(list[w]) \in Nat
    BY LenProperties, SMTT(30) DEF TypeOK
  <2>3. Unlink(list[w], i) \in Seq(BT)
    BY <2>2, UnlinkShape
  <2>4. /\ min_bt' \in [Worker -> 0 .. MaxBT + 1]
        /\ rdma_mem' \in [Worker -> [Worker -> 0 .. MaxBT + 1]]
        /\ wire' \in [Worker -> [Worker -> Seq(0 .. MaxBT + 1)]]
    <3>1. CASE Len(list[w]) = 1
      <4>1. max_bt[w] \in 0 .. MaxBT
        BY DEF TypeOK
      <4>2. max_bt[w] + 1 \in 0 .. MaxBT + 1
        BY <4>1
      <4> QED
        BY <1>0, <2>1, <3>1, <4>2
    <3>2. CASE Len(list[w]) # 1 /\ i = 1
      <4>1. list[w][2] \in 0 .. MaxBT + 1
        <5>1. 2 \in 1 .. Len(list[w])
          <6> DEFINE n == Len(list[w])
          <6>1. n \in Nat /\ 1 \in 1 .. n /\ n # 1
            BY <2>2, <3>2
          <6> HIDE DEF n
          <6>2. 2 \in 1 .. n
            BY <6>1
          <6> QED
            BY <6>2 DEF n
        <5> QED
          BY <2>2, <5>1, ElementOfSeq
      <4> QED
        BY <1>0, <2>1, <3>2, <4>1
    <3>3. CASE Len(list[w]) # 1 /\ i # 1
      BY <2>1, <3>3 DEF TypeOK, memVars
    <3> QED
      BY <3>1, <3>2, <3>3
  <2> QED
    BY <2>1, <2>3, <2>4, Zenon DEF TypeOK, scanVars
<1>4. ASSUME NEW w \in Worker, NEW i \in Worker, PublishMinBT(i, w) PROVE TypeOK'
  <2>1. Head(wire[i][w]) \in 0 .. MaxBT + 1 /\ Tail(wire[i][w]) \in Seq(0 .. MaxBT + 1)
    BY <1>4, HeadTailProperties, Zenon DEF TypeOK, PublishMinBT
  <2>2. rdma_mem' \in [Worker -> [Worker -> 0 .. MaxBT + 1]]
    BY <1>4, <2>1, Zenon DEF TypeOK, PublishMinBT
  <2>3. wire' \in [Worker -> [Worker -> Seq(0 .. MaxBT + 1)]]
    BY <1>4, <2>1, Zenon DEF TypeOK, PublishMinBT
  <2> QED
    BY <1>4, <2>2, <2>3, Zenon DEF TypeOK, PublishMinBT, listVars, scanVars
<1>5. ASSUME NEW w \in Worker, StartScan(w) PROVE TypeOK'
  <2>1. unscanned' \in [Worker -> SUBSET Worker] /\ scan_bt' \in [Worker -> 0 .. MaxBT + 1]
    BY <1>5 DEF TypeOK, StartScan
  <2> QED
    BY <1>5, <2>1, SMTT(30) DEF TypeOK, StartScan, listVars, memVars
<1>6. ASSUME NEW w \in Worker, ScanSlot(w) PROVE TypeOK'
  <2>1. PICK i \in unscanned[w] :
          LET bt == Larger(scan_bt[w], rdma_mem[w][i]) IN
            /\ unscanned' = [unscanned EXCEPT ![w] = @ \ {i}]
            /\ scan_bt' = [scan_bt EXCEPT ![w] = bt]
            /\ global_min_bt' = IF unscanned[w] = {i}
                                THEN [global_min_bt EXCEPT ![w] = bt]
                                ELSE global_min_bt
            /\ UNCHANGED <<last_ts, pending, listVars, memVars>>
    BY <1>6, Zenon DEF ScanSlot
  <2>2. Larger(scan_bt[w], rdma_mem[w][i]) \in 0 .. MaxBT + 1
    <3>1. i \in Worker /\ scan_bt[w] \in 0 .. MaxBT + 1
      BY DEF TypeOK
    <3>2. rdma_mem[w][i] \in 0 .. MaxBT + 1
      BY <3>1 DEF TypeOK
    <3> QED
      BY <3>1, <3>2 DEF Larger
  <2> QED
    BY <2>1, <2>2, Zenon DEF TypeOK, listVars, memVars
<1>7. CASE UNCHANGED vars
  BY <1>7 DEF TypeOK, vars
<1> QED
  BY <1>1, <1>2, <1>3, <1>4, <1>5, <1>6, <1>7 DEF Next

(* The state of every worker stays well typed. *)
THEOREM TypeCorrect == Spec => []TypeOK
<1>1. Init => TypeOK
  BY MaxBTAssumption, EmptySeq DEF Init, TypeOK, BT
<1>2. TypeOK /\ [Next]_vars => TypeOK'
  BY TypeStep
<1> QED
  BY <1>1, <1>2, PTL DEF Spec

(* The part of ListOrdered that concerns worker w. *)
OrderedAt(w) ==
  /\ \A i, j \in 1 .. Len(list[w]) : i < j => list[w][i] < list[w][j]
  /\ \A i, j \in 1 .. Len(pending[w]) : i < j => pending[w][i] < pending[w][j]
  /\ \A i \in 1 .. Len(list[w]) : list[w][i] <= max_bt[w]
  /\ \A j \in 1 .. Len(pending[w]) : max_bt[w] < pending[w][j] /\ pending[w][j] <= last_ts[w]
  /\ list[w] # <<>> => min_bt[w] = list[w][1]
  /\ min_bt[w] <= max_bt[w] + 1 /\ max_bt[w] <= last_ts[w]

(* What one worker's step leaves alone on the other workers. *)
LEMMA OrderedElsewhere ==
  ASSUME NEW v \in Worker, OrderedAt(v),
         list'[v] = list[v], pending'[v] = pending[v], min_bt'[v] = min_bt[v],
         max_bt'[v] = max_bt[v], last_ts'[v] = last_ts[v]
  PROVE  OrderedAt(v)'
  BY DEF OrderedAt

(* A new begin time goes to the end of the queue. *)
LEMMA OrderedAllocate ==
  ASSUME TypeOK, NEW w \in Worker, OrderedAt(w), AllocateBT(w)
  PROVE  OrderedAt(w)'
<1>1. PICK bt \in BT :
        /\ bt > last_ts[w]
        /\ last_ts' = [last_ts EXCEPT ![w] = bt]
        /\ pending' = [pending EXCEPT ![w] = Append(@, bt)]
        /\ UNCHANGED <<listVars, memVars, scanVars>>
  BY Zenon DEF AllocateBT
<1>2. /\ last_ts'[w] = bt /\ pending'[w] = Append(pending[w], bt)
      /\ list' = list /\ min_bt' = min_bt /\ max_bt' = max_bt
  BY <1>1 DEF TypeOK, listVars
<1>3. /\ pending[w] \in Seq(BT) /\ list[w] \in Seq(BT) /\ last_ts[w] \in BT
      /\ max_bt[w] \in BT /\ min_bt[w] \in 0 .. MaxBT + 1
  BY DEF TypeOK
<1> DEFINE q == Append(pending[w], bt)
           n == Len(pending[w])
<1>4. /\ n \in Nat /\ Len(pending[w]) = n
      /\ Len(q) = n + 1 /\ q[n + 1] = bt
      /\ \A i \in 1 .. n : q[i] = pending[w][i] /\ pending[w][i] \in BT
  BY <1>3, AppendProperties, LenProperties, ElementOfSeq
<1>o. \A i, j \in 1 .. n : i < j => pending[w][i] < pending[w][j]
  BY DEF OrderedAt
<1> HIDE DEF q, n
<1>5. \A i \in 1 .. n : max_bt[w] < q[i] /\ q[i] <= last_ts[w] /\ q[i] \in BT
  BY <1>4 DEF OrderedAt
<1>6. max_bt[w] <= last_ts[w]
  BY DEF OrderedAt
<1>7. \A j \in 1 .. Len(q) : max_bt[w] < q[j] /\ q[j] <= bt
  <2> SUFFICES ASSUME NEW j \in 1 .. n + 1 PROVE max_bt[w] < q[j] /\ q[j] <= bt
    BY <1>4
  <2>1. CASE j \in 1 .. n
    BY <1>1, <1>3, <1>5, <2>1, MaxBTAssumption DEF BT
  <2>2. CASE j = n + 1
    BY <1>1, <1>3, <1>4, <1>6, <2>2, MaxBTAssumption DEF BT
  <2> QED
    BY <1>4, <2>1, <2>2
<1>8. \A i, j \in 1 .. Len(q) : i < j => q[i] < q[j]
  <2> SUFFICES ASSUME NEW i \in 1 .. Len(q), NEW j \in 1 .. Len(q), i < j PROVE q[i] < q[j]
    OBVIOUS
  <2>0. i \in 1 .. n /\ j \in 1 .. n + 1
    BY <1>4
  <2>1. CASE j \in 1 .. n
    BY <1>4, <1>o, <2>0, <2>1
  <2>2. CASE j = n + 1
    <3>1. q[i] <= last_ts[w] /\ q[i] \in BT /\ q[j] = bt
      BY <1>4, <1>5, <2>0, <2>2
    <3>2. q[i] \in Int /\ last_ts[w] \in Int /\ bt \in Int
      BY <1>3, <3>1, MaxBTAssumption DEF BT
    <3> QED
      BY <1>1, <3>1, <3>2
  <2> QED
    BY <1>4, <2>0, <2>1, <2>2
<1>9. max_bt[w] <= bt
  BY <1>1, <1>3, <1>6, MaxBTAssumption DEF BT
<1> QED
  BY <1>2, <1>7, <1>8, <1>9 DEF OrderedAt, q

(* The head of the queue is larger than everything in the list, and than   *)
(* the minimum an empty list has left.                                     *)
LEMMA OrderedInsert ==
  ASSUME TypeOK, NEW w \in Worker, OrderedAt(w), InsertTrx(w)
  PROVE  OrderedAt(w)' /\ min_bt[w] <= min_bt'[w]
<1> DEFINE bt == Head(pending[w])
           l == Append(list[w], bt)
           n == Len(list[w])
           m == Len(pending[w])
           q == Tail(pending[w])
<1>1. /\ pending[w] # <<>> /\ pending'[w] = q /\ list'[w] = l
      /\ max_bt'[w] = bt /\ last_ts' = last_ts
  BY DEF InsertTrx, TypeOK
<1>2. /\ pending[w] \in Seq(BT) /\ list[w] \in Seq(BT) /\ last_ts[w] \in BT
      /\ max_bt[w] \in BT /\ min_bt[w] \in 0 .. MaxBT + 1
  BY DEF TypeOK
<1>3. /\ n \in Nat /\ Len(l) = n + 1 /\ l[n + 1] = bt
      /\ \A i \in 1 .. n : l[i] = list[w][i] /\ list[w][i] \in BT
  BY <1>1, <1>2, HeadTailProperties, AppendProperties, LenProperties, ElementOfSeq
<1>4. /\ m \in Nat /\ m > 0 /\ Len(q) = m - 1
      /\ \A i \in 1 .. m - 1 : q[i] = pending[w][i + 1]
      /\ \A i \in 1 .. m : pending[w][i] \in BT
      /\ bt = pending[w][1] /\ bt \in BT
  BY <1>1, <1>2, HeadTailProperties, LenProperties, ElementOfSeq
<1>5. list[w] = <<>> <=> n = 0
  BY <1>2, EmptySeq
<1>6. IF n = 0 THEN min_bt'[w] = bt ELSE min_bt'[w] = min_bt[w]
  BY <1>5 DEF InsertTrx, UpdateMinBT, TypeOK
<1>7. l # <<>>
  BY <1>2, <1>4, AppendProperties
<1>o. /\ \A i, j \in 1 .. n : i < j => list[w][i] < list[w][j]
      /\ \A i, j \in 1 .. m : i < j => pending[w][i] < pending[w][j]
      /\ \A i \in 1 .. n : list[w][i] <= max_bt[w]
      /\ \A i \in 1 .. m : max_bt[w] < pending[w][i] /\ pending[w][i] <= last_ts[w]
      /\ n # 0 => min_bt[w] = list[w][1]
      /\ min_bt[w] <= max_bt[w] + 1
  BY <1>5 DEF OrderedAt
<1>t. /\ bt \in Int /\ max_bt[w] \in Int /\ min_bt[w] \in Int /\ last_ts[w] \in Int
      /\ BT \subseteq Int
  BY <1>2, <1>4, MaxBTAssumption DEF BT
<1> HIDE DEF bt, l, n, m, q
<1>8. max_bt[w] < bt /\ bt <= last_ts[w]
  <2>1. 1 \in 1 .. m
    BY <1>4
  <2> QED
    BY <1>4, <1>o, <2>1
<1>9. min_bt[w] <= bt
  BY <1>8, <1>o, <1>t
<1>10. \A i \in 1 .. n : l[i] < bt
  <2> TAKE i \in 1 .. n
  <2>1. l[i] \in Int /\ l[i] <= max_bt[w]
    BY <1>3, <1>o, <1>t, Zenon
  <2> QED
    BY <1>8, <1>t, <2>1
<1>16. \A i \in 1 .. Len(l) : l[i] <= bt
  <2> SUFFICES ASSUME NEW i \in 1 .. n + 1 PROVE l[i] <= bt
    BY <1>3
  <2>1. CASE i \in 1 .. n
    <3>1. l[i] \in Int /\ l[i] < bt
      BY <1>3, <1>10, <1>t, <2>1, Zenon
    <3> QED
      BY <1>t, <3>1
  <2>2. CASE i = n + 1
    BY <1>3, <1>t, <2>2
  <2> QED
    BY <1>3, <2>1, <2>2
<1>11. \A i, j \in 1 .. Len(l) : i < j => l[i] < l[j]
  <2> SUFFICES ASSUME NEW i \in 1 .. n + 1, NEW j \in 1 .. n + 1, i < j PROVE l[i] < l[j]
    BY <1>3
  <2>1. i \in 1 .. n
    BY <1>3
  <2>2. CASE j \in 1 .. n
    BY <1>3, <1>o, <2>1, <2>2
  <2>3. CASE j = n + 1
    BY <1>3, <1>10, <2>1, <2>3
  <2> QED
    BY <1>3, <2>2, <2>3
<1>12. \A i, j \in 1 .. Len(q) : i < j => q[i] < q[j]
  <2> SUFFICES ASSUME NEW i \in 1 .. m - 1, NEW j \in 1 .. m - 1, i < j PROVE q[i] < q[j]
    BY <1>4
  <2>1. i + 1 \in 1 .. m /\ j + 1 \in 1 .. m /\ i + 1 < j + 1
    BY <1>4
  <2>2. q[i] = pending[w][i + 1] /\ q[j] = pending[w][j + 1]
    BY <1>4
  <2> QED
    BY <1>o, <2>1, <2>2
<1>13. \A j \in 1 .. Len(q) : bt < q[j] /\ q[j] <= last_ts[w]
  <2> SUFFICES ASSUME NEW j \in 1 .. m - 1 PROVE bt < q[j] /\ q[j] <= last_ts[w]
    BY <1>4
  <2>1. 1 \in 1 .. m /\ j + 1 \in 1 .. m /\ 1 < j + 1
    BY <1>4
  <2>2. q[j] = pending[w][j + 1]
    BY <1>4
  <2> QED
    BY <1>4, <1>o, <2>1, <2>2
<1>14. min_bt'[w] = l[1] /\ min_bt'[w] <= bt + 1
  <2>1. CASE n = 0
    BY <1>3, <1>6, <1>t, <2>1
  <2>2. CASE n # 0
    <3>1. min_bt[w] = list[w][1] /\ 1 \in 1 .. n
      BY <1>3, <1>o, <2>2
    <3>2. l[1] = list[w][1]
      BY <1>3, <3>1
    <3> QED
      BY <1>6, <1>9, <1>t, <2>2, <3>1, <3>2
  <2> QED
    BY <2>1, <2>2
<1>15. min_bt[w] <= min_bt'[w]
  BY <1>6, <1>9, <1>t
<1> QED
  BY <1>1, <1>8, <1>16, <1>11, <1>12, <1>13, <1>14, <1>15 DEF OrderedAt

(* Unlinking a node keeps the order; only unlinking the head moves the     *)
(* minimum, and it moves up.                                               *)
LEMMA OrderedErase ==
  ASSUME TypeOK, NEW w \in Worker, OrderedAt(w), EraseTrx(w)
  PROVE  OrderedAt(w)' /\ min_bt[w] <= min_bt'[w]
<1>1. PICK i \in DOMAIN list[w] :
        /\ list' = [list EXCEPT ![w] = Unlink(@, i)]
        /\ IF Len(list[w]) = 1 THEN UpdateMinBT(w, max_bt[w] + 1)
           ELSE IF i = 1 THEN UpdateMinBT(w, list[w][2])
           ELSE UNCHANGED <<min_bt, memVars>>
        /\ UNCHANGED <<last_ts, pending, max_bt, scanVars>>
  BY Zenon DEF EraseTrx
<1> DEFINE n == Len(list[w])
           l == Unlink(list[w], i)
<1>2. /\ list[w] \in Seq(BT) /\ last_ts[w] \in BT
      /\ max_bt[w] \in BT /\ min_bt[w] \in 0 .. MaxBT + 1
  BY DEF TypeOK
<1>3. /\ n \in Nat /\ i \in 1 .. n /\ Len(l) = n - 1
      /\ \A j \in 1 .. n - 1 : l[j] = IF j < i THEN list[w][j] ELSE list[w][j + 1]
      /\ \A j \in 1 .. n : list[w][j] \in BT
  <2>1. n \in Nat /\ i \in 1 .. n
    BY <1>2, LenProperties
  <2>2. \A j \in 1 .. n : list[w][j] \in BT
    BY <1>2, ElementOfSeq
  <2>3. /\ Len(l) = n - 1
        /\ \A j \in 1 .. n - 1 : l[j] = IF j < i THEN list[w][j] ELSE list[w][j + 1]
    BY <1>2, <2>1, UnlinkShape, Zenon
  <2> QED
    BY <2>1, <2>2, <2>3
<1>4. list'[w] = l /\ pending' = pending /\ max_bt' = max_bt /\ last_ts' = last_ts
  BY <1>1 DEF TypeOK
<1>5. list[w] # <<>>
  BY <1>2, <1>3, EmptySeq
<1>6. min_bt'[w] = IF n = 1 THEN max_bt[w] + 1 ELSE IF i = 1 THEN list[w][2] ELSE min_bt[w]
  BY <1>1 DEF TypeOK, UpdateMinBT
<1>7. l = <<>> => n = 1
  BY <1>3, EmptySeq
<1> HIDE DEF n, l
<1>8. \A j \in 1 .. n : list[w][j] <= max_bt[w] /\ list[w][j] \in BT
  BY <1>3 DEF OrderedAt, n
<1>9. \A j, k \in 1 .. n : j < k => list[w][j] < list[w][k]
  BY DEF OrderedAt, n
<1>10. min_bt[w] = list[w][1] /\ 1 \in 1 .. n
  BY <1>3, <1>5 DEF OrderedAt
<1>11. \A j \in 1 .. Len(l) : l[j] <= max_bt[w]
  <2> SUFFICES ASSUME NEW j \in 1 .. n - 1 PROVE l[j] <= max_bt[w]
    BY <1>3
  <2>1. j \in 1 .. n /\ j + 1 \in 1 .. n
    BY <1>3
  <2> QED
    BY <1>3, <1>8, <2>1
<1>12. \A j, k \in 1 .. Len(l) : j < k => l[j] < l[k]
  <2> SUFFICES ASSUME NEW j \in 1 .. n - 1, NEW k \in 1 .. n - 1, j < k PROVE l[j] < l[k]
    BY <1>3
  <2>1. j \in 1 .. n /\ j + 1 \in 1 .. n /\ k \in 1 .. n /\ k + 1 \in 1 .. n
    BY <1>3
  <2>2. j < k /\ j < k + 1 /\ j + 1 < k + 1
    OBVIOUS
  <2>3. CASE k < i
    BY <1>3, <1>9, <2>1, <2>2, <2>3
  <2>4. CASE ~ (k < i) /\ j < i
    BY <1>3, <1>9, <2>1, <2>2, <2>4
  <2>5. CASE ~ (j < i)
    BY <1>3, <1>9, <2>1, <2>2, <2>5
  <2> QED
    BY <1>3, <2>3, <2>4, <2>5
<1>13. min_bt[w] <= max_bt[w] /\ (n # 1 => 2 \in 1 .. n /\ list[w][1] < list[w][2])
  <2>1. n # 1 => 2 \in 1 .. n
    BY <1>3, <1>10
  <2> QED
    BY <1>8, <1>9, <1>10, <2>1
<1>14. min_bt[w] <= min_bt'[w] /\ min_bt'[w] <= max_bt[w] + 1
  <2>1. n # 1 => list[w][2] \in BT /\ list[w][2] <= max_bt[w]
    BY <1>8, <1>13
  <2>2. CASE n = 1
    BY <1>2, <1>6, <1>13, <2>2, MaxBTAssumption DEF BT
  <2>3. CASE n # 1 /\ i = 1
    BY <1>2, <1>6, <1>10, <1>13, <2>1, <2>3, MaxBTAssumption DEF BT
  <2>4. CASE n # 1 /\ i # 1
    BY <1>2, <1>6, <1>13, <2>4, MaxBTAssumption DEF BT
  <2> QED
    BY <2>2, <2>3, <2>4
<1>15. l # <<>> => min_bt'[w] = l[1]
  <2> SUFFICES ASSUME l # <<>> PROVE min_bt'[w] = l[1]
    OBVIOUS
  <2>1. n # 1 \/ n = 1
    OBVIOUS
  <2>2. CASE n = 1
    <3>1. l = <<>>
      BY <1>2, <1>3, <2>2, UnlinkShape, EmptySeq DEF l, n
    <3> QED
      BY <3>1
  <2>3. CASE n # 1
    <3>1. 1 \in 1 .. n - 1
      BY <1>3, <1>10, <2>3
    <3>2. l[1] = IF 1 < i THEN list[w][1] ELSE list[w][2]
      BY <1>3, <3>1
    <3> QED
      BY <1>3, <1>6, <1>10, <2>3, <3>2
  <2> QED
    BY <2>2, <2>3
<1> QED
  BY <1>4, <1>11, <1>12, <1>14, <1>15 DEF OrderedAt

(* A step of any thread keeps the order on every worker and never lowers a *)
(* minimum.                                                                *)
LEMMA OrderedStep ==
  ASSUME TypeOK, ListOrdered, [Next]_vars
  PROVE  ListOrdered' /\ \A w \in Worker : min_bt[w] <= min_bt'[w]
<1> SUFFICES ASSUME NEW v \in Worker PROVE OrderedAt(v)' /\ min_bt[v] <= min_bt'[v]
  BY DEF ListOrdered, OrderedAt
<1>0. OrderedAt(v) /\ min_bt[v] \in Int
  BY DEF ListOrdered, OrderedAt, TypeOK
<1>a. ASSUME list'[v] = list[v], pending'[v] = pending[v], min_bt'[v] = min_bt[v],
             max_bt'[v] = max_bt[v], last_ts'[v] = last_ts[v]
      PROVE  OrderedAt(v)' /\ min_bt[v] <= min_bt'[v]
  BY <1>0, <1>a, OrderedElsewhere
<1>1. ASSUME NEW w \in Worker, AllocateBT(w) PROVE OrderedAt(v)' /\ min_bt[v] <= min_bt'[v]
  <2>1. CASE v = w
    <3>1. OrderedAt(v)'
      BY <1>0, <1>1, <2>1, OrderedAllocate
    <3>2. min_bt' = min_bt
      BY <1>1 DEF AllocateBT, listVars
    <3> QED
      BY <1>0, <3>1, <3>2
  <2>2. CASE v # w
    BY <1>a, <1>1, <2>2 DEF AllocateBT, listVars, TypeOK
  <2> QED
    BY <2>1, <2>2
<1>2. ASSUME NEW w \in Worker, InsertTrx(w) PROVE OrderedAt(v)' /\ min_bt[v] <= min_bt'[v]
  <2>1. CASE v = w
    BY <1>0, <1>2, <2>1, OrderedInsert
  <2>2. CASE v # w
    BY <1>a, <1>2, <2>2, Zenon DEF InsertTrx, UpdateMinBT, TypeOK
  <2> QED
    BY <2>1, <2>2
<1>3. ASSUME NEW w \in Worker, EraseTrx(w) PROVE OrderedAt(v)' /\ min_bt[v] <= min_bt'[v]
  <2>1. CASE v = w
    BY <1>0, <1>3, <2>1, OrderedErase
  <2>2. CASE v # w
    <3>1. /\ list'[v] = list[v] /\ pending' = pending
          /\ max_bt' = max_bt /\ last_ts' = last_ts
      BY <1>3, <2>2 DEF EraseTrx, TypeOK
    <3>2. min_bt' = min_bt \/ \E bt : min_bt' = [min_bt EXCEPT ![w] = bt]
      BY <1>3 DEF EraseTrx, UpdateMinBT
    <3>3. min_bt'[v] = min_bt[v]
      BY <2>2, <3>2, Zenon DEF TypeOK
    <3> QED
      BY <1>a, <3>1, <3>3
  <2> QED
    BY <2>1, <2>2
<1>4. ASSUME NEW w \in Worker, NEW i \in Worker, PublishMinBT(i, w)
      PROVE  OrderedAt(v)' /\ min_bt[v] <= min_bt'[v]
  BY <1>a, <1>4 DEF PublishMinBT, listVars
<1>5. ASSUME NEW w \in Worker, StartScan(w) \/ ScanSlot(w)
      PROVE  OrderedAt(v)' /\ min_bt[v] <= min_bt'[v]
  BY <1>a, <1>5 DEF StartScan, ScanSlot, listVars
<1>6. CASE UNCHANGED vars
  BY <1>a, <1>6 DEF vars
<1> QED
  BY <1>1, <1>2, <1>3, <1>4, <1>5, <1>6 DEF Next

(* The list and the queue of every worker are ordered by begin time, for   *)
(* every interleaving of InsertTrx, EraseTrx and the timestamp thread.     *)
THEOREM ListAlwaysOrdered == Spec => []ListOrdered
<1>1. Init => ListOrdered
  BY MaxBTAssumption DEF Init, ListOrdered, BT
<1>2. TypeOK /\ ListOrdered /\ [Next]_vars => ListOrdered'
  BY OrderedStep
<1> QED
  BY <1>1, <1>2, TypeCorrect, PTL DEF Spec

(* The minimum of a worker is a lower bound of the begin times it runs and *)
(* of those it has yet to run.                                             *)
THEOREM LocalMinBTIsSafe == Spec => []LocalMinBTSafe
<1>1. TypeOK /\ ListOrdered => LocalMinBTSafe
  <2> SUFFICES ASSUME TypeOK, ListOrdered, NEW w \in Worker
               PROVE  /\ \A bt \in Listed(w) \cup Queued(w) : min_bt[w] <= bt
                      /\ min_bt[w] <= last_ts[w] + 1
    BY DEF LocalMinBTSafe
  <2>1. /\ list[w] \in Seq(BT) /\ pending[w] \in Seq(BT)
        /\ min_bt[w] \in Int /\ max_bt[w] \in Int /\ last_ts[w] \in Int
    BY MaxBTAssumption DEF TypeOK, BT
  <2>2. DOMAIN list[w] = 1 .. Len(list[w]) /\ DOMAIN pending[w] = 1 .. Len(pending[w])
    BY <2>1, LenProperties
  <2>3. ASSUME NEW i \in 1 .. Len(list[w]) PROVE min_bt[w] <= list[w][i]
    <3>1. Len(list[w]) \in Nat /\ list[w] # <<>> /\ 1 \in 1 .. Len(list[w])
      BY <2>1, <2>3, EmptySeq, LenProperties
    <3>2. min_bt[w] = list[w][1]
      BY <3>1 DEF ListOrdered
    <3>3. CASE i = 1
      BY <2>1, <3>2, <3>3
    <3>4. CASE i # 1
      <4>1. 1 < i
        BY <3>1, <3>4
      <4>2. list[w][1] < list[w][i]
        BY <3>1, <4>1 DEF ListOrdered
      <4>3. list[w][i] \in Int
        BY <2>1, ElementOfSeq, MaxBTAssumption DEF BT
      <4> QED
        BY <2>1, <3>2, <4>2, <4>3
    <3> QED
      BY <3>3, <3>4
  <2>4. ASSUME NEW j \in 1 .. Len(pending[w]) PROVE min_bt[w] <= pending[w][j]
    <3>1. pending[w][j] \in Int
      BY <2>1, ElementOfSeq, MaxBTAssumption DEF BT
    <3> QED
      BY <2>1, <3>1 DEF ListOrdered
  <2>5. min_bt[w] <= last_ts[w] + 1
    BY <2>1, SMTT(30) DEF ListOrdered
  <2> QED
    BY <2>2, <2>3, <2>4, <2>5 DEF Listed, Queued
<1> QED
  BY <1>1, TypeCorrect, ListAlwaysOrdered, PTL

(* The CHECK(min_bt_ < bt) of UpdateMinBT never fails: no step of any      *)
(* thread lowers a minimum.                                                *)
THEOREM MinBTMonotone == Spec => MinBTNeverFalls
<1>1. TypeOK /\ ListOrdered /\ [Next]_vars => [\A w \in Worker : min_bt[w] <= min_bt'[w]]_vars
  BY OrderedStep
<1> QED
  BY <1>1, TypeCorrect, ListAlwaysOrdered, PTL DEF Spec, MinBTNeverFalls

(* What a step does to the copies of the minima: nothing, UpdateMinBT of   *)
(* one worker, or the landing of one RDMA write.                           *)
LEMMA MemStep ==
  ASSUME TypeOK, [Next]_vars
  PROVE  \/ rdma_mem' = rdma_mem /\ wire' = wire
         \/ \E w \in Worker, bt \in 0 .. MaxBT + 1 : UpdateMinBT(w, bt)
         \/ \E i, w \in Worker : PublishMinBT(i, w)
<1>1. ASSUME NEW w \in Worker, InsertTrx(w)
      PROVE  \/ rdma_mem' = rdma_mem /\ wire' = wire
             \/ \E bt \in 0 .. MaxBT + 1 : UpdateMinBT(w, bt)
  <2>1. Head(pending[w]) \in 0 .. MaxBT + 1
    <3>1. pending[w] \in Seq(BT) /\ pending[w] # <<>>
      BY <1>1 DEF InsertTrx, TypeOK
    <3>2. Head(pending[w]) \in BT
      BY <3>1, HeadTailProperties
    <3> QED
      BY <3>2, MaxBTAssumption DEF BT
  <2> QED
    BY <1>1, <2>1 DEF InsertTrx, memVars
<1>2. ASSUME NEW w \in Worker, EraseTrx(w)
      PROVE  \/ rdma_mem' = rdma_mem /\ wire' = wire
             \/ \E bt \in 0 .. MaxBT + 1 : UpdateMinBT(w, bt)
  <2>1. PICK k \in DOMAIN list[w] :
          IF Len(list[w]) = 1 THEN UpdateMinBT(w, max_bt[w] + 1)
          ELSE IF k = 1 THEN UpdateMinBT(w, list[w][2])
          ELSE UNCHANGED <<min_bt, memVars>>
    BY <1>2 DEF EraseTrx
  <2>2. CASE Len(list[w]) = 1
    <3>1. max_bt[w] \in 0 .. MaxBT
      BY DEF TypeOK, BT
    <3>2. max_bt[w] + 1 \in 0 .. MaxBT + 1
      BY <3>1, MaxBTAssumption
    <3> QED
      BY <2>1, <2>2, <3>2
  <2>3. CASE Len(list[w]) # 1 /\ k = 1
    <3> DEFINE n == Len(list[w])
    <3>1. list[w] \in Seq(BT) /\ n \in Nat /\ 1 \in 1 .. n /\ n # 1
      BY <2>1, <2>3, LenProperties DEF TypeOK
    <3> HIDE DEF n
    <3>2. 2 \in 1 .. n
      BY <3>1
    <3>3. list[w][2] \in 0 .. MaxBT + 1
      BY <3>1, <3>2, ElementOfSeq, MaxBTAssumption DEF BT, n
    <3> QED
      BY <2>1, <2>3, <3>3
  <2>4. CASE Len(list[w]) # 1 /\ k # 1
    BY <2>1, <2>4 DEF memVars
  <2> QED
    BY <2>2, <2>3, <2>4
<1>3. ASSUME NEW w \in Worker, AllocateBT(w) \/ StartScan(w) \/ ScanSlot(w)
      PROVE  rdma_mem' = rdma_mem /\ wire' = wire
  BY <1>3 DEF AllocateBT, StartScan, ScanSlot, memVars
<1>4. CASE UNCHANGED vars
  BY <1>4 DEF vars
<1> QED
  BY <1>1, <1>2, <1>3, <1>4 DEF Next

(* What UpdateMinBT with a new value does to the copies of worker i. *)
LEMMA UpdateCopies ==
  ASSUME TypeOK, NEW w \in Worker, NEW bt \in 0 .. MaxBT + 1, UpdateMinBT(w, bt),
         min_bt[w] # bt, NEW v \in Worker, NEW i \in Worker
  PROVE  /\ i # w => rdma_mem'[v][i] = rdma_mem[v][i] /\ wire'[i][v] = wire[i][v]
         /\ i = w => /\ min_bt'[i] = bt
                     /\ rdma_mem'[v][i] = IF v = i THEN bt ELSE rdma_mem[v][i]
                     /\ wire'[i][v] = IF v = i THEN wire[i][v] ELSE Append(wire[i][v], bt)
<1>1. /\ min_bt' = [min_bt EXCEPT ![w] = bt]
      /\ rdma_mem' = [rdma_mem EXCEPT ![w][w] = bt]
      /\ wire' = [wire EXCEPT ![w] = [j \in Worker |->
                     IF j = w THEN wire[w][j] ELSE Append(wire[w][j], bt)]]
  BY DEF UpdateMinBT
<1>2. min_bt'[w] = bt
  BY <1>1 DEF TypeOK
<1>3. rdma_mem'[v] = IF v = w THEN [rdma_mem[w] EXCEPT ![w] = bt] ELSE rdma_mem[v]
  BY <1>1 DEF TypeOK
<1>4. rdma_mem[v] \in [Worker -> 0 .. MaxBT + 1]
  BY DEF TypeOK
<1>5. wire'[i] = IF i = w THEN [j \in Worker |->
                              IF j = w THEN wire[w][j] ELSE Append(wire[w][j], bt)]
                          ELSE wire[i]
  BY <1>1 DEF TypeOK
<1>6. CASE i # w
  BY <1>3, <1>4, <1>5, <1>6
<1>7. CASE i = w
  <2>1. rdma_mem'[v][i] = IF v = i THEN bt ELSE rdma_mem[v][i]
    BY <1>3, <1>4, <1>7
  <2>2. wire'[i][v] = IF v = i THEN wire[i][v] ELSE Append(wire[i][v], bt)
    BY <1>5, <1>7
  <2> QED
    BY <1>2, <1>7, <2>1, <2>2
<1> QED
  BY <1>6, <1>7

(* A step keeps every copy, landed or under way, behind the minimum.       *)
LEMMA PublishedStep ==
  ASSUME TypeOK, ListOrdered, PublishedNotAhead, [Next]_vars
  PROVE  PublishedNotAhead'
<1> SUFFICES ASSUME NEW v \in Worker, NEW i \in Worker
             PROVE  /\ rdma_mem'[v][i] <= min_bt'[i]
                    /\ \A n \in DOMAIN wire'[i][v] : wire'[i][v][n] <= min_bt'[i]
  BY DEF PublishedNotAhead
<1>1. min_bt[i] <= min_bt'[i]
  BY OrderedStep
<1>2. /\ rdma_mem[v][i] \in Int /\ min_bt[i] \in Int /\ min_bt'[i] \in Int
      /\ wire[i][v] \in Seq(0 .. MaxBT + 1)
      /\ rdma_mem'[v][i] \in Int
  <2>1. TypeOK'
    BY TypeStep
  <2> QED
    BY <2>1 DEF TypeOK
<1>3. /\ rdma_mem[v][i] <= min_bt'[i]
      /\ \A n \in DOMAIN wire[i][v] : wire[i][v][n] <= min_bt'[i]
  <2>1. \A n \in DOMAIN wire[i][v] : wire[i][v][n] \in Int
    <3>1. wire[i][v] \in [1 .. Len(wire[i][v]) -> 0 .. MaxBT + 1]
      BY <1>2, LenProperties, Zenon
    <3> QED
      BY <3>1
  <2> QED
    BY <1>1, <1>2, <2>1 DEF PublishedNotAhead
<1>4. ASSUME NEW w \in Worker, NEW bt \in 0 .. MaxBT + 1, UpdateMinBT(w, bt)
      PROVE  /\ rdma_mem'[v][i] <= min_bt'[i]
             /\ \A n \in DOMAIN wire'[i][v] : wire'[i][v][n] <= min_bt'[i]
  <2>1. CASE min_bt[w] = bt
    BY <1>3, <1>4, <2>1 DEF UpdateMinBT, memVars
  <2>3. CASE min_bt[w] # bt /\ i # w
    <3>1. rdma_mem'[v][i] = rdma_mem[v][i] /\ wire'[i][v] = wire[i][v]
      BY <1>4, <2>3, UpdateCopies
    <3> QED
      BY <1>3, <3>1
  <2>2. CASE min_bt[w] # bt /\ i = w
    <3>1. min_bt'[i] = bt /\ rdma_mem'[v][i] = IF v = i THEN bt ELSE rdma_mem[v][i]
      BY <1>4, <2>2, UpdateCopies
    <3>2. wire'[i][v] = IF v = i THEN wire[i][v] ELSE Append(wire[i][v], bt)
      BY <1>4, <2>2, UpdateCopies
    <3>3. \A n \in DOMAIN Append(wire[i][v], bt) : Append(wire[i][v], bt)[n] <= bt
      <4> DEFINE q == Append(wire[i][v], bt)
                 m == Len(wire[i][v])
      <4>1. /\ m \in Nat /\ DOMAIN q = 1 .. m + 1 /\ q[m + 1] = bt
            /\ \A n \in 1 .. m : q[n] = wire[i][v][n]
            /\ DOMAIN wire[i][v] = 1 .. m
        BY <1>2, AppendProperties, LenProperties
      <4> HIDE DEF q, m
      <4>2. SUFFICES ASSUME NEW n \in 1 .. m + 1 PROVE q[n] <= bt
        BY <4>1 DEF q
      <4>3. CASE n \in 1 .. m
        BY <1>3, <3>1, <4>1, <4>3
      <4>4. CASE n = m + 1
        BY <1>4, <4>1, <4>4, MaxBTAssumption
      <4> QED
        BY <4>1, <4>3, <4>4
    <3>4. CASE v = i
      <4>1. rdma_mem'[v][i] = bt /\ wire'[i][v] = wire[i][v] /\ bt \in Int
        BY <1>4, <3>1, <3>2, <3>4, MaxBTAssumption
      <4> QED
        BY <1>3, <3>1, <4>1
    <3>5. CASE v # i
      <4>1. rdma_mem'[v][i] = rdma_mem[v][i] /\ wire'[i][v] = Append(wire[i][v], bt)
        BY <3>1, <3>2, <3>5
      <4> QED
        BY <1>3, <3>1, <3>3, <4>1
    <3> QED
      BY <3>4, <3>5
  <2> QED
    BY <2>1, <2>2, <2>3
<1>5. ASSUME rdma_mem' = rdma_mem, wire' = wire
      PROVE  /\ rdma_mem'[v][i] <= min_bt'[i]
             /\ \A n \in DOMAIN wire'[i][v] : wire'[i][v][n] <= min_bt'[i]
  BY <1>3, <1>5
<1>8. ASSUME NEW w \in Worker, NEW j \in Worker, PublishMinBT(j, w)
      PROVE  /\ rdma_mem'[v][i] <= min_bt'[i]
             /\ \A n \in DOMAIN wire'[i][v] : wire'[i][v][n] <= min_bt'[i]
  <2>1. CASE i = j /\ v = w
    <3> DEFINE q == wire[i][v]
               m == Len(q)
    <3>1. /\ q # <<>> /\ rdma_mem'[v][i] = Head(q) /\ wire'[i][v] = Tail(q)
      BY <1>8, <2>1 DEF PublishMinBT, TypeOK
    <3>2. /\ m \in Nat /\ m > 0 /\ DOMAIN q = 1 .. m /\ Head(q) = q[1]
          /\ DOMAIN Tail(q) = 1 .. m - 1 /\ \A n \in 1 .. m - 1 : Tail(q)[n] = q[n + 1]
      BY <1>2, <3>1, HeadTailProperties, LenProperties, EmptySeq
    <3>3. \A n \in 1 .. m : q[n] <= min_bt'[i]
      BY <1>3, <3>2
    <3> HIDE DEF q, m
    <3>4. 1 \in 1 .. m /\ \A n \in 1 .. m - 1 : n + 1 \in 1 .. m
      BY <3>2
    <3> QED
      BY <3>1, <3>2, <3>3, <3>4
  <2>2. CASE i # j \/ v # w
    BY <1>3, <1>8, <2>2, Zenon DEF PublishMinBT, TypeOK
  <2> QED
    BY <2>1, <2>2
<1> QED
  BY <1>4, <1>5, <1>8, MemStep

(* No copy of a minimum is ever ahead of the minimum it copies. *)
THEOREM PublishedIsSafe == Spec => []PublishedNotAhead
<1>1. Init => PublishedNotAhead
  BY DEF Init, PublishedNotAhead
<1>2. TypeOK /\ ListOrdered /\ PublishedNotAhead /\ [Next]_vars => PublishedNotAhead'
  BY PublishedStep
<1> QED
  BY <1>1, <1>2, TypeCorrect, ListAlwaysOrdered, PTL DEF Spec

-----------------------------------------------------------------------------
(* The RDMA writes of one minimum to one worker land in the order of their *)
(* values, and none is below what has landed; none goes to oneself.        *)
SlotsInOrder ==
  \A w, i \in Worker :
    /\ w = i => wire[i][w] = <<>>
    /\ \A n \in 1 .. Len(wire[i][w]) : rdma_mem[w][i] <= wire[i][w][n]
    /\ \A n, m \in 1 .. Len(wire[i][w]) : n < m => wire[i][w][n] <= wire[i][w][m]

(* A step keeps the writes in order and lowers no slot. *)
LEMMA SlotsStep ==
  ASSUME TypeOK, ListOrdered, PublishedNotAhead, SlotsInOrder, [Next]_vars
  PROVE  SlotsInOrder' /\ \A w, i \in Worker : rdma_mem[w][i] <= rdma_mem'[w][i]
<1> SUFFICES ASSUME NEW v \in Worker, NEW i \in Worker
             PROVE  /\ v = i => wire'[i][v] = <<>>
                    /\ \A n \in 1 .. Len(wire'[i][v]) : rdma_mem'[v][i] <= wire'[i][v][n]
                    /\ \A n, m \in 1 .. Len(wire'[i][v]) :
                         n < m => wire'[i][v][n] <= wire'[i][v][m]
                    /\ rdma_mem[v][i] <= rdma_mem'[v][i]
  BY Zenon DEF SlotsInOrder
<1> DEFINE q == wire[i][v]
           k == Len(q)
<1>1. /\ rdma_mem[v][i] \in Int /\ min_bt[i] \in Int /\ min_bt'[i] \in Int
      /\ q \in Seq(0 .. MaxBT + 1) /\ min_bt[i] <= min_bt'[i]
  <2>1. TypeOK'
    BY TypeStep
  <2>2. min_bt[i] <= min_bt'[i]
    BY OrderedStep
  <2> QED
    BY <2>1, <2>2 DEF TypeOK
<1>2. /\ k \in Nat /\ DOMAIN q = 1 .. k
      /\ \A n \in 1 .. k : q[n] \in Int /\ q[n] <= min_bt[i]
  <2>1. k \in Nat /\ DOMAIN q = 1 .. k
    BY <1>1, LenProperties
  <2>2. \A n \in 1 .. k : q[n] \in Int
    BY <1>1, <2>1, ElementOfSeq, MaxBTAssumption
  <2> QED
    BY <2>1, <2>2 DEF PublishedNotAhead
<1>3. /\ v = i => q = <<>>
      /\ \A n \in 1 .. k : rdma_mem[v][i] <= q[n]
      /\ \A n, m \in 1 .. k : n < m => q[n] <= q[m]
  BY Zenon DEF SlotsInOrder
<1>4. ASSUME rdma_mem'[v][i] = rdma_mem[v][i], wire'[i][v] = wire[i][v]
      PROVE  /\ v = i => wire'[i][v] = <<>>
             /\ \A n \in 1 .. Len(wire'[i][v]) : rdma_mem'[v][i] <= wire'[i][v][n]
             /\ \A n, m \in 1 .. Len(wire'[i][v]) :
                  n < m => wire'[i][v][n] <= wire'[i][v][m]
             /\ rdma_mem[v][i] <= rdma_mem'[v][i]
  BY <1>1, <1>3, <1>4
<1>5. ASSUME NEW w \in Worker, NEW bt \in 0 .. MaxBT + 1, UpdateMinBT(w, bt)
      PROVE  /\ v = i => wire'[i][v] = <<>>
             /\ \A n \in 1 .. Len(wire'[i][v]) : rdma_mem'[v][i] <= wire'[i][v][n]
             /\ \A n, m \in 1 .. Len(wire'[i][v]) :
                  n < m => wire'[i][v][n] <= wire'[i][v][m]
             /\ rdma_mem[v][i] <= rdma_mem'[v][i]
  <2>1. CASE min_bt[w] = bt
    BY <1>4, <1>5, <2>1 DEF UpdateMinBT, memVars
  <2>2. CASE min_bt[w] # bt /\ i # w
    BY <1>4, <1>5, <2>2, UpdateCopies
  <2>3. CASE min_bt[w] # bt /\ i = w
    <3>1. /\ min_bt'[i] = bt
          /\ rdma_mem'[v][i] = IF v = i THEN bt ELSE rdma_mem[v][i]
          /\ wire'[i][v] = IF v = i THEN q ELSE Append(q, bt)
      BY <1>5, <2>3, UpdateCopies
    <3>2. min_bt[i] <= bt /\ bt \in Int
      BY <1>1, <3>1
    <3>3. rdma_mem[v][i] <= bt
      BY <1>1, <3>2 DEF PublishedNotAhead
    <3>4. CASE v = i
      <4>1. wire'[i][v] = <<>> /\ rdma_mem'[v][i] = bt
        BY <1>3, <3>1, <3>4
      <4> QED
        BY <3>3, <3>4, <4>1
    <3>5. CASE v # i
      <4>1. wire'[i][v] = Append(q, bt) /\ rdma_mem'[v][i] = rdma_mem[v][i]
        BY <3>1, <3>5
      <4>2. /\ Len(Append(q, bt)) = k + 1 /\ Append(q, bt)[k + 1] = bt
            /\ \A n \in 1 .. k : Append(q, bt)[n] = q[n]
        BY <1>1, <1>2, AppendProperties
      <4> DEFINE r == Append(q, bt)
      <4> HIDE DEF r, q, k
      <4>3. \A n \in 1 .. k + 1 : n \in 1 .. k \/ n = k + 1
        BY <1>2
      <4>4. \A n \in 1 .. k + 1 : rdma_mem[v][i] <= r[n]
        BY <1>3, <3>3, <4>2, <4>3 DEF r
      <4>5. ASSUME NEW n \in 1 .. k + 1, NEW m \in 1 .. k + 1, n < m
            PROVE  r[n] <= r[m]
        <5>1. n \in 1 .. k /\ r[n] = q[n]
          BY <1>2, <4>2, <4>5 DEF r
        <5>2. CASE m \in 1 .. k
          BY <1>3, <4>2, <4>5, <5>1, <5>2 DEF r
        <5>3. CASE m = k + 1
          <6>1. r[m] = bt
            BY <4>2, <5>3 DEF r
          <6>2. q[n] \in Int /\ q[n] <= min_bt[i]
            BY <1>2, <5>1
          <6> QED
            BY <1>1, <3>2, <5>1, <6>1, <6>2
        <5> QED
          BY <4>3, <5>2, <5>3
      <4>6. Len(wire'[i][v]) = k + 1 /\ wire'[i][v] = r
        BY <4>1, <4>2 DEF r
      <4>7. \A n \in 1 .. Len(wire'[i][v]) : rdma_mem'[v][i] <= wire'[i][v][n]
        BY <4>1, <4>4, <4>6, Zenon
      <4>8. \A n, m \in 1 .. Len(wire'[i][v]) : n < m => wire'[i][v][n] <= wire'[i][v][m]
        BY <4>5, <4>6, Zenon
      <4>9. rdma_mem[v][i] <= rdma_mem'[v][i]
        BY <1>1, <4>1, SMTT(30)
      <4> QED
        BY <3>5, <4>7, <4>8, <4>9, ZenonT(30)
    <3> QED
      BY <3>4, <3>5
  <2> QED
    BY <2>1, <2>2, <2>3
<1>6. ASSUME NEW j \in Worker, NEW w \in Worker, PublishMinBT(j, w)
      PROVE  /\ v = i => wire'[i][v] = <<>>
             /\ \A n \in 1 .. Len(wire'[i][v]) : rdma_mem'[v][i] <= wire'[i][v][n]
             /\ \A n, m \in 1 .. Len(wire'[i][v]) :
                  n < m => wire'[i][v][n] <= wire'[i][v][m]
             /\ rdma_mem[v][i] <= rdma_mem'[v][i]
  <2>1. CASE i = j /\ v = w
    <3>1. q # <<>> /\ rdma_mem'[v][i] = Head(q) /\ wire'[i][v] = Tail(q)
      BY <1>6, <2>1 DEF PublishMinBT, TypeOK
    <3>2. /\ k > 0 /\ Head(q) = q[1] /\ Len(Tail(q)) = k - 1
          /\ \A n \in 1 .. k - 1 : Tail(q)[n] = q[n + 1]
      BY <1>1, <1>2, <3>1, HeadTailProperties, LenProperties, EmptySeq
    <3>3. v # i
      BY <1>3, <3>1
    <3>4. 1 \in 1 .. k /\ \A n \in 1 .. k - 1 : n + 1 \in 1 .. k /\ 1 < n + 1
      BY <1>2, <3>2
    <3> DEFINE r == Tail(q)
    <3> HIDE DEF q, k, r
    <3>5. \A n \in 1 .. k - 1 : q[1] <= r[n]
      BY <1>3, <3>2, <3>4 DEF r
    <3>6. ASSUME NEW n \in 1 .. k - 1, NEW m \in 1 .. k - 1, n < m
          PROVE  r[n] <= r[m]
      <4>1. n + 1 \in 1 .. k /\ m + 1 \in 1 .. k /\ n + 1 < m + 1
        BY <1>2, <3>6
      <4>2. r[n] = q[n + 1] /\ r[m] = q[m + 1]
        BY <3>2 DEF r
      <4> QED
        BY <1>3, <4>1, <4>2
    <3>7. rdma_mem[v][i] <= q[1]
      BY <1>3, <3>4
    <3> QED
      BY <3>1, <3>2, <3>3, <3>5, <3>6, <3>7 DEF r
  <2>2. CASE i # j \/ v # w
    <3>1. rdma_mem'[v][i] = rdma_mem[v][i] /\ wire'[i][v] = wire[i][v]
      BY <1>6, <2>2, Zenon DEF PublishMinBT, TypeOK
    <3> QED
      BY <1>4, <3>1
  <2> QED
    BY <2>1, <2>2
<1> QED
  BY <1>4, <1>5, <1>6, MemStep

(* What the scan and the watermark of a worker rest on: some slot has each *)
(* of them, and a scan under way has reached the watermark or will.        *)
ScanBehind ==
  \A w \in Worker :
    /\ \E i \in Worker : scan_bt[w] <= rdma_mem[w][i]
    /\ \E i \in Worker : global_min_bt[w] <= rdma_mem[w][i]
    /\ \/ global_min_bt[w] <= scan_bt[w]
       \/ \E i \in unscanned[w] : global_min_bt[w] <= rdma_mem[w][i]

(* A step keeps that, and lowers no watermark. *)
LEMMA ScanStep ==
  ASSUME TypeOK, ListOrdered, PublishedNotAhead, SlotsInOrder, ScanBehind, [Next]_vars
  PROVE  ScanBehind' /\ \A w \in Worker : global_min_bt[w] <= global_min_bt'[w]
<1> SUFFICES ASSUME NEW w \in Worker
             PROVE  /\ \E i \in Worker : scan_bt'[w] <= rdma_mem'[w][i]
                    /\ \E i \in Worker : global_min_bt'[w] <= rdma_mem'[w][i]
                    /\ \/ global_min_bt'[w] <= scan_bt'[w]
                       \/ \E i \in unscanned'[w] : global_min_bt'[w] <= rdma_mem'[w][i]
                    /\ global_min_bt[w] <= global_min_bt'[w]
  BY Zenon DEF ScanBehind
<1>1. /\ scan_bt[w] \in Int /\ global_min_bt[w] \in Int /\ unscanned[w] \subseteq Worker
      /\ \A i \in Worker : rdma_mem[w][i] \in Nat /\ rdma_mem'[w][i] \in Nat
  <2>1. TypeOK'
    BY TypeStep
  <2>2. \A i \in Worker : rdma_mem[w][i] \in Nat
    BY DEF TypeOK
  <2>3. \A i \in Worker : rdma_mem'[w][i] \in Nat
    BY <2>1 DEF TypeOK
  <2> QED
    BY <2>2, <2>3 DEF TypeOK
<1>2. \A i \in Worker : rdma_mem[w][i] <= rdma_mem'[w][i]
  BY SlotsStep
<1>3. PICK s \in Worker : scan_bt[w] <= rdma_mem[w][s]
  BY DEF ScanBehind
<1>4. PICK g \in Worker : global_min_bt[w] <= rdma_mem[w][g]
  BY DEF ScanBehind
<1>5. scan_bt[w] <= rdma_mem'[w][s] /\ global_min_bt[w] <= rdma_mem'[w][g]
  BY <1>1, <1>2, <1>3, <1>4
<1>6. \/ global_min_bt[w] <= scan_bt[w]
      \/ \E i \in unscanned[w] : global_min_bt[w] <= rdma_mem'[w][i]
  <2>1. \A i \in unscanned[w] :
          global_min_bt[w] <= rdma_mem[w][i] => global_min_bt[w] <= rdma_mem'[w][i]
    BY <1>1, <1>2
  <2> QED
    BY <2>1, Zenon DEF ScanBehind
<1>7. ASSUME scan_bt'[w] = scan_bt[w], global_min_bt'[w] = global_min_bt[w],
             unscanned'[w] = unscanned[w]
      PROVE  /\ \E i \in Worker : scan_bt'[w] <= rdma_mem'[w][i]
             /\ \E i \in Worker : global_min_bt'[w] <= rdma_mem'[w][i]
             /\ \/ global_min_bt'[w] <= scan_bt'[w]
                \/ \E i \in unscanned'[w] : global_min_bt'[w] <= rdma_mem'[w][i]
             /\ global_min_bt[w] <= global_min_bt'[w]
  BY <1>1, <1>5, <1>6, <1>7
<1>8. ASSUME NEW v \in Worker, StartScan(v)
      PROVE  /\ \E i \in Worker : scan_bt'[w] <= rdma_mem'[w][i]
             /\ \E i \in Worker : global_min_bt'[w] <= rdma_mem'[w][i]
             /\ \/ global_min_bt'[w] <= scan_bt'[w]
                \/ \E i \in unscanned'[w] : global_min_bt'[w] <= rdma_mem'[w][i]
             /\ global_min_bt[w] <= global_min_bt'[w]
  <2>1. CASE v # w
    <3>1. /\ scan_bt'[w] = scan_bt[w] /\ global_min_bt'[w] = global_min_bt[w]
          /\ unscanned'[w] = unscanned[w]
      BY <1>8, <2>1 DEF StartScan, TypeOK
    <3> QED
      BY <1>7, <3>1
  <2>2. CASE v = w
    <3>1. /\ scan_bt'[w] = 0 /\ global_min_bt'[w] = global_min_bt[w]
          /\ unscanned'[w] = Worker
      BY <1>8, <2>2 DEF StartScan, TypeOK
    <3>2. 0 <= rdma_mem'[w][g]
      BY <1>1
    <3> QED
      BY <1>1, <1>5, <3>1, <3>2
  <2> QED
    BY <2>1, <2>2
<1>9. ASSUME NEW v \in Worker, ScanSlot(v)
      PROVE  /\ \E i \in Worker : scan_bt'[w] <= rdma_mem'[w][i]
             /\ \E i \in Worker : global_min_bt'[w] <= rdma_mem'[w][i]
             /\ \/ global_min_bt'[w] <= scan_bt'[w]
                \/ \E i \in unscanned'[w] : global_min_bt'[w] <= rdma_mem'[w][i]
             /\ global_min_bt[w] <= global_min_bt'[w]
  <2>1. CASE v # w
    <3>1. /\ scan_bt'[w] = scan_bt[w] /\ global_min_bt'[w] = global_min_bt[w]
          /\ unscanned'[w] = unscanned[w]
      BY <1>9, <2>1 DEF ScanSlot, TypeOK
    <3> QED
      BY <1>7, <3>1
  <2>2. CASE v = w
    <3>1. PICK j \in unscanned[w] :
            LET bt == Larger(scan_bt[w], rdma_mem[w][j]) IN
              /\ unscanned' = [unscanned EXCEPT ![w] = @ \ {j}]
              /\ scan_bt' = [scan_bt EXCEPT ![w] = bt]
              /\ global_min_bt' = IF unscanned[w] = {j}
                                  THEN [global_min_bt EXCEPT ![w] = bt]
                                  ELSE global_min_bt
      BY <1>9, <2>2, Zenon DEF ScanSlot
    <3> DEFINE bt == Larger(scan_bt[w], rdma_mem[w][j])
    <3>2. j \in Worker
      BY <1>1
    <3>3. /\ unscanned'[w] = unscanned[w] \ {j} /\ scan_bt'[w] = bt
          /\ global_min_bt'[w] = IF unscanned[w] = {j} THEN bt ELSE global_min_bt[w]
      BY <3>1 DEF TypeOK
    <3>4. bt = scan_bt[w] \/ bt = rdma_mem[w][j]
      BY DEF Larger
    <3>5. bt \in Int /\ scan_bt[w] <= bt /\ rdma_mem[w][j] <= bt
      BY <1>1, <3>2 DEF Larger
    <3>6. rdma_mem' = rdma_mem
      BY <1>9 DEF ScanSlot, memVars
    <3> HIDE DEF bt
    <3>7. \E i \in Worker : bt <= rdma_mem'[w][i]
      BY <1>1, <1>3, <3>2, <3>4, <3>6
    <3>8. global_min_bt[w] <= bt \/ \E i \in unscanned[w] \ {j} : global_min_bt[w] <= rdma_mem'[w][i]
      <4>1. CASE global_min_bt[w] <= scan_bt[w]
        BY <1>1, <3>5, <4>1
      <4>2. CASE \E i \in unscanned[w] : global_min_bt[w] <= rdma_mem'[w][i]
        <5>1. PICK i \in unscanned[w] : global_min_bt[w] <= rdma_mem'[w][i]
          BY <4>2
        <5>2. CASE i = j
          BY <1>1, <3>2, <3>5, <3>6, <5>1, <5>2
        <5>3. CASE i # j
          BY <5>1, <5>3
        <5> QED
          BY <5>2, <5>3
      <4> QED
        BY <1>6, <4>1, <4>2
    <3>9. CASE unscanned[w] = {j}
      <4>1. global_min_bt[w] <= bt
        BY <3>8, <3>9
      <4> QED
        BY <3>3, <3>5, <3>7, <3>9, <4>1
    <3>10. CASE unscanned[w] # {j}
      BY <1>1, <1>5, <3>3, <3>7, <3>8, <3>10
    <3> QED
      BY <3>9, <3>10
  <2> QED
    BY <2>1, <2>2
<1>10. ASSUME NEW v \in Worker,
              AllocateBT(v) \/ InsertTrx(v) \/ EraseTrx(v) \/ \E i \in Worker : PublishMinBT(i, v)
       PROVE  scan_bt' = scan_bt /\ global_min_bt' = global_min_bt /\ unscanned' = unscanned
  BY <1>10 DEF AllocateBT, InsertTrx, EraseTrx, PublishMinBT, scanVars
<1>11. CASE UNCHANGED vars
  BY <1>7, <1>11 DEF vars
<1> QED
  BY <1>7, <1>8, <1>9, <1>10, <1>11 DEF Next

(* The two invariants hold of every behaviour. *)
LEMMA ScansBehind == Spec => []SlotsInOrder /\ []ScanBehind
<1>1. Init => SlotsInOrder /\ ScanBehind
  <2> SUFFICES ASSUME Init PROVE SlotsInOrder /\ ScanBehind
    OBVIOUS
  <2>1. \A w, i \in Worker : wire[i][w] = <<>> /\ rdma_mem[w][i] = 0
    BY DEF Init
  <2>2. \A w \in Worker : scan_bt[w] = 0 /\ global_min_bt[w] = 0
    BY DEF Init
  <2> QED
    BY <2>1, <2>2, WorkerAssumption DEF SlotsInOrder, ScanBehind
<1>2. /\ TypeOK /\ ListOrdered /\ PublishedNotAhead /\ SlotsInOrder /\ ScanBehind /\ [Next]_vars
      => SlotsInOrder' /\ ScanBehind'
  BY SlotsStep, ScanStep, Zenon
<1> QED
  BY <1>1, <1>2, TypeCorrect, ListAlwaysOrdered, PublishedIsSafe, PTL DEF Spec

(* However the scan and the RDMA writes interleave, no watermark goes back. *)
THEOREM WatermarkMonotone == Spec => WatermarkNeverFalls
<1>1. TypeOK /\ ListOrdered /\ PublishedNotAhead /\ SlotsInOrder /\ ScanBehind /\ [Next]_vars
        => [\A w \in Worker : global_min_bt[w] <= global_min_bt'[w]]_vars
  BY ScanStep, Zenon
<1> QED
  BY <1>1, TypeCorrect, ListAlwaysOrdered, PublishedIsSafe, ScansBehind, PTL
     DEF Spec, WatermarkNeverFalls

(* On a system of one worker the maximum over the workers is the minimum,  *)
(* and the garbage collector never passes a running transaction.           *)
THEOREM OneWorkerWatermarkSafe ==
  ASSUME \A v, w \in Worker : v = w
  PROVE  Spec => []GlobalMinBTSafe
<1>1. TypeOK /\ LocalMinBTSafe /\ PublishedNotAhead /\ ScanBehind => GlobalMinBTSafe
  <2> SUFFICES ASSUME TypeOK, LocalMinBTSafe, PublishedNotAhead, ScanBehind,
                      NEW w \in Worker, NEW i \in Worker, NEW bt \in Listed(i) \cup Queued(i)
               PROVE  global_min_bt[w] <= bt
    BY DEF GlobalMinBTSafe
  <2>1. global_min_bt[w] <= min_bt[i]
    <3>1. global_min_bt[w] <= rdma_mem[w][i]
      BY DEF ScanBehind
    <3>2. rdma_mem[w][i] <= min_bt[i]
      BY DEF PublishedNotAhead
    <3> QED
      BY <3>1, <3>2 DEF TypeOK
  <2>2. min_bt[i] <= bt
    BY DEF LocalMinBTSafe
  <2>3. bt \in Int
    <3>1. list[i] \in Seq(BT) /\ pending[i] \in Seq(BT)
      BY DEF TypeOK
    <3>2. Listed(i) \subseteq BT /\ Queued(i) \subseteq BT
      BY <3>1, LenProperties, ElementOfSeq DEF Listed, Queued
    <3> QED
      BY <3>2, MaxBTAssumption DEF BT
  <2>4. global_min_bt[w] \in Int /\ min_bt[i] \in Int
    BY DEF TypeOK
  <2> QED
    BY <2>1, <2>2, <2>3, <2>4
<1> QED
  BY <1>1, TypeCorrect, LocalMinBTIsSafe, PublishedIsSafe, ScansBehind, PTL
=============================================================================
