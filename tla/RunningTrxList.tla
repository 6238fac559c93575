--------------------------- MODULE RunningTrxList ---------------------------
(***************************************************************************)
(* The list of running transactions every worker keeps, the minimum begin  *)
(* time (min_bt) it publishes to the other workers, and the watermark      *)
(* (global_min_bt) the garbage collector of each worker computes from the  *)
(* published values (core/running_trx_list.cpp).                           *)
(*                                                                         *)
(* Threads: the timestamp thread of the coordinator hands out begin times, *)
(* the timestamp consumer inserts them, the main thread erases them when a *)
(* transaction has finished, and the GC producer scans.  A begin time that *)
(* has been handed out and not yet inserted waits in the queue             *)
(* pending_allocated_timestamp_.                                           *)
(***************************************************************************)
EXTENDS Integers, Sequences, FiniteSets

CONSTANTS Worker,   \* the workers
          MaxBT     \* bound on the begin times handed out

ASSUME MaxBTAssumption == MaxBT \in Nat

ASSUME WorkerAssumption == Worker # {}

VARIABLES
  last_ts,        \* last begin time the clock of a worker has handed out
  pending,        \* begin times handed out and not yet inserted, in order
  list,           \* the doubly linked list of running begin times, head first
  min_bt,         \* min_bt_ of a worker
  max_bt,         \* max_bt_ of a worker
  rdma_mem,       \* rdma_mem[w][i]: the copy on worker w of the min_bt of i
  wire,           \* wire[i][w]: RDMA writes of i's min_bt on their way to w
  unscanned,      \* slots the scan of the GC thread has still to read
  scan_bt,        \* the scan's local variable global_min_bt
  global_min_bt   \* global_min_bt_ of a worker

listVars == <<list, min_bt, max_bt>>
memVars == <<rdma_mem, wire>>
scanVars == <<unscanned, scan_bt, global_min_bt>>
vars == <<last_ts, pending, list, min_bt, max_bt, rdma_mem, wire, unscanned,
          scan_bt, global_min_bt>>

BT == 0 .. MaxBT

Larger(a, b) == IF a > b THEN a ELSE b

(* The begin times a worker is running: inserted, or handed out and about  *)
(* to be inserted.                                                         *)
Listed(w) == {list[w][i] : i \in DOMAIN list[w]}
Queued(w) == {pending[w][i] : i \in DOMAIN pending[w]}

(* TypeOK: no minimum, published copy or watermark leaves 0 .. MaxBT + 1,  *)
(* max_bt_ + 1 of an empty list included.                                  *)
TypeOK ==
  /\ last_ts \in [Worker -> BT]
  /\ pending \in [Worker -> Seq(BT)]
  /\ list \in [Worker -> Seq(BT)]
  /\ min_bt \in [Worker -> 0 .. MaxBT + 1]
  /\ max_bt \in [Worker -> BT]
  /\ rdma_mem \in [Worker -> [Worker -> 0 .. MaxBT + 1]]
  /\ wire \in [Worker -> [Worker -> Seq(0 .. MaxBT + 1)]]
  /\ unscanned \in [Worker -> SUBSET Worker]
  /\ scan_bt \in [Worker -> 0 .. MaxBT + 1]
  /\ global_min_bt \in [Worker -> 0 .. MaxBT + 1]

Init ==
  /\ last_ts = [w \in Worker |-> 0]
  /\ pending = [w \in Worker |-> <<>>]
  /\ list = [w \in Worker |-> <<>>]
  /\ min_bt = [w \in Worker |-> 0]
  /\ max_bt = [w \in Worker |-> 0]
  /\ rdma_mem = [w \in Worker |-> [i \in Worker |-> 0]]
  /\ wire = [i \in Worker |-> [w \in Worker |-> <<>>]]
  /\ unscanned = [w \in Worker |-> {}]
  /\ scan_bt = [w \in Worker |-> 0]
  /\ global_min_bt = [w \in Worker |-> 0]

-----------------------------------------------------------------------------
(* Coordinator::ProcessTimestampRequest: the one thread that reads the     *)
(* clock of a worker hands out increasing timestamps, in a queue.          *)
AllocateBT(w) ==
  \E bt \in BT :
    /\ bt > last_ts[w]
    /\ last_ts' = [last_ts EXCEPT ![w] = bt]
    /\ pending' = [pending EXCEPT ![w] = Append(@, bt)]
    /\ UNCHANGED <<listVars, memVars, scanVars>>

(* Fault: the remote write carries max_bt_ + 1, not the new minimum. *)
UpdateMinBTAhead(w, bt) ==
  IF min_bt[w] = bt THEN UNCHANGED <<min_bt, memVars>>
  ELSE /\ min_bt' = [min_bt EXCEPT ![w] = bt]
       /\ rdma_mem' = [rdma_mem EXCEPT ![w][w] = bt]
       /\ wire' = [wire EXCEPT ![w] = [i \in Worker |->
                     IF i = w THEN @[i] ELSE Append(@[i], Larger(bt, max_bt[w] + 1))]]

(* UpdateMinBT, in the region locked by lock_: nothing when the minimum    *)
(* stays the same, else the worker's own slot of its rdma_mem_ is set and  *)
(* one RDMA write is posted to every other worker.                         *)
UpdateMinBT(w, bt) ==
  IF min_bt[w] = bt THEN UNCHANGED <<min_bt, memVars>>
  ELSE /\ min_bt' = [min_bt EXCEPT ![w] = bt]
       /\ rdma_mem' = [rdma_mem EXCEPT ![w][w] = bt]
       /\ wire' = [wire EXCEPT ![w] = [i \in Worker |->
                     IF i = w THEN @[i] ELSE Append(@[i], bt)]]

(* InsertTrx: appends at the tail; an empty list also gets a new minimum.  *)
InsertTrx(w) ==
  /\ pending[w] # <<>>
  /\ LET bt == Head(pending[w]) IN
       /\ list' = [list EXCEPT ![w] = Append(@, bt)]
       /\ max_bt' = [max_bt EXCEPT ![w] = bt]
       /\ IF list[w] = <<>> THEN UpdateMinBT(w, bt)
                            ELSE UNCHANGED <<min_bt, memVars>>
  /\ pending' = [pending EXCEPT ![w] = Tail(@)]
  /\ UNCHANGED <<last_ts, scanVars>>

(* The list without its i-th node. *)
Unlink(s, i) == SubSeq(s, 1, i - 1) \o SubSeq(s, i + 1, Len(s))

(* Faults of EraseTrx: the minimum becomes NewMin(i) when the head or the  *)
(* last node goes, Skips says when that is forgotten.                      *)
EraseTrxWith(w, NewMin(_), Skips(_)) ==
  \E i \in DOMAIN list[w] :
    /\ list' = [list EXCEPT ![w] = Unlink(@, i)]
    /\ IF i = 1 /\ ~ Skips(i) THEN UpdateMinBT(w, NewMin(i))
                              ELSE UNCHANGED <<min_bt, memVars>>
    /\ UNCHANGED <<last_ts, pending, max_bt, scanVars>>

(* The head leaves the minimum beyond the nodes that stay. *)
EraseTrxBeyond(w) ==
  EraseTrxWith(w, LAMBDA i : max_bt[w] + 1, LAMBDA i : FALSE)

(* The empty list resets the minimum. *)
EraseTrxReset(w) ==
  EraseTrxWith(w, LAMBDA i : IF Len(list[w]) = 1 THEN 0 ELSE list[w][2],
               LAMBDA i : FALSE)

(* The empty list keeps the minimum. *)
EraseTrxKeep(w) ==
  EraseTrxWith(w, LAMBDA i : list[w][2], LAMBDA i : Len(list[w]) = 1)

(* EraseTrx of the i-th node: the last node of all leaves the minimum at   *)
(* max_bt_ + 1, the head passes it to its right neighbour, any other node  *)
(* leaves it alone.                                                        *)
EraseTrx(w) ==
  \E i \in DOMAIN list[w] :
    /\ list' = [list EXCEPT ![w] = Unlink(@, i)]
    /\ IF Len(list[w]) = 1 THEN UpdateMinBT(w, max_bt[w] + 1)
       ELSE IF i = 1 THEN UpdateMinBT(w, list[w][2])
       ELSE UNCHANGED <<min_bt, memVars>>
    /\ UNCHANGED <<last_ts, pending, max_bt, scanVars>>

(* The oldest RDMA write of the min_bt of i still under way lands in the   *)
(* slot of i on worker w.  Without RDMA the same slot is filled by the     *)
(* answer of ProcessReadMinBTRequest while the scan of w waits for it.     *)
PublishMinBT(i, w) ==
  /\ wire[i][w] # <<>>
  /\ rdma_mem' = [rdma_mem EXCEPT ![w][i] = Head(wire[i][w])]
  /\ wire' = [wire EXCEPT ![i][w] = Tail(@)]
  /\ UNCHANGED <<last_ts, pending, listVars, scanVars>>

-----------------------------------------------------------------------------
(* UpdateGlobalMinBT, called by the GC producer at the start of a round:   *)
(* the loop over the workers' slots, one read at a time, without the lock. *)
(* The loop takes the maximum of the slots.                                *)
StartScan(w) ==
  /\ unscanned[w] = {}
  /\ unscanned' = [unscanned EXCEPT ![w] = Worker]
  /\ scan_bt' = [scan_bt EXCEPT ![w] = 0]
  /\ UNCHANGED <<last_ts, pending, listVars, memVars, global_min_bt>>

(* Fault: the last slot read wins. *)
ScanSlotLast(w) ==
  \E i \in unscanned[w] :
    LET bt == rdma_mem[w][i] IN
      /\ unscanned' = [unscanned EXCEPT ![w] = @ \ {i}]
      /\ scan_bt' = [scan_bt EXCEPT ![w] = bt]
      /\ global_min_bt' = IF unscanned[w] = {i}
                          THEN [global_min_bt EXCEPT ![w] = bt]
                          ELSE global_min_bt
      /\ UNCHANGED <<last_ts, pending, listVars, memVars>>

ScanSlot(w) ==
  \E i \in unscanned[w] :
    LET bt == Larger(scan_bt[w], rdma_mem[w][i]) IN
      /\ unscanned' = [unscanned EXCEPT ![w] = @ \ {i}]
      /\ scan_bt' = [scan_bt EXCEPT ![w] = bt]
      /\ global_min_bt' = IF unscanned[w] = {i}
                          THEN [global_min_bt EXCEPT ![w] = bt]
                          ELSE global_min_bt
      /\ UNCHANGED <<last_ts, pending, listVars, memVars>>

Next ==
  \E w \in Worker :
    \/ AllocateBT(w) \/ InsertTrx(w) \/ EraseTrx(w)
    \/ \E i \in Worker : PublishMinBT(i, w)
    \/ StartScan(w) \/ ScanSlot(w)

Spec == Init /\ [][Next]_vars

(* The consumer of the timestamp queue, the NIC and the GC producer loop   *)
(* forever; every transaction that runs finishes and is erased.  Clients   *)
(* owe nothing: AllocateBT has no fairness.                                *)
Fairness ==
  \A w \in Worker :
    /\ WF_vars(InsertTrx(w))
    /\ WF_vars(EraseTrx(w))
    /\ \A i \in Worker : WF_vars(PublishMinBT(i, w))
    /\ WF_vars(StartScan(w)) /\ WF_vars(ScanSlot(w))

FairSpec == Spec /\ Fairness

-----------------------------------------------------------------------------
(* ListOrdered: begin times stand in the list, and behind it in the queue, *)
(* in the order they were handed out; max_bt_ separates the two; the       *)
(* minimum is the head of a list that is not empty.  InsertTrx and         *)
(* EraseTrx, run by two threads, look only at the two ends of the list and *)
(* at max_bt_, and are right because of this.                              *)
ListOrdered ==
  \A w \in Worker :
    /\ \A i, j \in 1 .. Len(list[w]) : i < j => list[w][i] < list[w][j]
    /\ \A i, j \in 1 .. Len(pending[w]) : i < j => pending[w][i] < pending[w][j]
    /\ \A i \in 1 .. Len(list[w]) : list[w][i] <= max_bt[w]
    /\ \A j \in 1 .. Len(pending[w]) :
         max_bt[w] < pending[w][j] /\ pending[w][j] <= last_ts[w]
    /\ list[w] # <<>> => min_bt[w] = list[w][1]
    /\ min_bt[w] <= max_bt[w] + 1 /\ max_bt[w] <= last_ts[w]

(* LocalMinBTSafe: the min_bt of a worker is at most the begin time of     *)
(* every transaction it runs, of those whose begin time is still in the    *)
(* queue, and smaller than every begin time its clock can still hand out.  *)
LocalMinBTSafe ==
  \A w \in Worker :
    /\ \A bt \in Listed(w) \cup Queued(w) : min_bt[w] <= bt
    /\ min_bt[w] <= last_ts[w] + 1

(* PublishedNotAhead: neither a copy of a worker's minimum on another      *)
(* worker nor a write still under way is ever ahead of the worker's own    *)
(* minimum, whenever the RDMA writes land.                                 *)
PublishedNotAhead ==
  \A w, i \in Worker :
    /\ rdma_mem[w][i] <= min_bt[i]
    /\ \A n \in DOMAIN wire[i][w] : wire[i][w][n] <= min_bt[i]

(* MinBTNeverFalls: UpdateMinBT only ever raises the minimum of a worker:  *)
(* its CHECK(min_bt_ < bt), reached when the value changes, cannot fail.   *)
MinBTNeverFalls ==
  [][\A w \in Worker : min_bt[w] <= min_bt'[w]]_vars

(* GlobalMinBTSafe: the watermark of every worker's garbage collector is   *)
(* at most the begin time of every transaction running anywhere: what the  *)
(* name MIN_BT says, and what version->end_time < global_min_bt_ relies on *)
(* when GCProducer cuts version chains.                                    *)
GlobalMinBTSafe ==
  \A w, i \in Worker : \A bt \in Listed(i) \cup Queued(i) : global_min_bt[w] <= bt

(* WatermarkNeverFalls: the watermark of a worker never goes back, in     *)
(* whatever order the scan reads the slots and however late the RDMA       *)
(* writes land: what was collected below it once is below it for good.     *)
WatermarkNeverFalls ==
  [][\A w \in Worker : global_min_bt[w] <= global_min_bt'[w]]_vars

(* WatermarkAdvances: every begin time handed out on any worker is in the  *)
(* end below the watermark of every worker's garbage collector, so that no *)
(* finished transaction keeps versions alive for good.                     *)
WatermarkAdvances ==
  \A bt \in BT \ {0} : (\E i \in Worker : last_ts[i] >= bt)
                          ~> (\A w \in Worker : global_min_bt[w] > bt)
=============================================================================
