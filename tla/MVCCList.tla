------------------------------ MODULE MVCCList ------------------------------
(***************************************************************************)
(* One MVCCList (layout/mvcc_list.tpp, layout/mvcc_definition.hpp) with    *)
(* its four pointers, the items it takes from the memory pool, the         *)
(* transactions that append, commit and abort versions, and the garbage    *)
(* collector that cuts old versions off (layout/gc_producer.tpp,           *)
(* scan_mvcc_list) and frees them later (layout/gc_consumer.cpp).          *)
(*                                                                         *)
(* Every action is one region locked by the list's spinlock.  As in the    *)
(* code a transaction identifier is a number larger than every timestamp,  *)
(* and begin_time and end_time hold either.                                *)
(***************************************************************************)
EXTENDS Integers, Sequences, FiniteSets

CONSTANTS Item,      \* the items of the memory pool
          NULL,      \* the null pointer
          NumTrx,    \* number of transactions
          Value,     \* values of a version, Empty among them
          Empty,     \* the value of a deleted version
          MaxTS,     \* bound on the timestamps the clock hands out
          IsEdge,    \* TRUE for a list of EdgeMVCCItem, FALSE for a property
          Worker,    \* the workers
          Home       \* Home[t]: the worker that runs t

ASSUME NULLAssumption == NULL \notin Item

ASSUME NumAssumption == NumTrx \in Nat /\ MaxTS \in Nat

ASSUME ValueAssumption == Empty \in Value

ASSUME IsEdgeAssumption == IsEdge \in BOOLEAN

MIN_TIME == 0
MAX_TIME == MaxTS + 1

(* TRX_ID_MASK sets the highest bit of an identifier. *)
Trx == MAX_TIME + 1 .. MAX_TIME + NumTrx
IS_VALID_TRX_ID(x) == x > MAX_TIME

Time == MIN_TIME .. MAX_TIME

ASSUME HomeAssumption == Home \in [Trx -> Worker]

VARIABLES
  begin_time, end_time, next, val,   \* the fields of the items
  head, tail, pre_tail, tmp_pre_tail,
  pool,        \* items in the memory pool
  garbage,     \* items cut off by the producer, not yet freed
  chain,       \* history variable: the items from head to tail
  clock,       \* last timestamp handed out
  stat,        \* state of a transaction
  bt, ct,      \* begin and commit time of a transaction
  min_bt       \* global_min_bt_, read by the garbage collector

itemVars == <<begin_time, end_time, next, val>>
ptrVars == <<head, tail, pre_tail, tmp_pre_tail>>
trxVars == <<clock, stat, bt, ct, min_bt>>
vars == <<begin_time, end_time, next, val, head, tail, pre_tail, tmp_pre_tail,
          pool, garbage, chain, clock, stat, bt, ct, min_bt>>

Items == {chain[i] : i \in 1 .. Len(chain)}

(* TypeOK: every pointer is an item or null, and begin_time and end_time   *)
(* hold a time or a transaction identifier.                                *)
TypeOK ==
  /\ begin_time \in [Item -> Time \cup Trx]
  /\ end_time \in [Item -> Time \cup Trx]
  /\ next \in [Item -> Item \cup {NULL}]
  /\ val \in [Item -> Value]
  /\ {head, tail, pre_tail, tmp_pre_tail} \subseteq Item \cup {NULL}
  /\ pool \subseteq Item
  /\ garbage \subseteq Item
  /\ chain \in Seq(Item)
  /\ clock \in 0 .. MaxTS
  /\ stat \in [Trx -> {"idle", "processing", "validating", "finished"}]
  /\ bt \in [Trx -> 0 .. MaxTS]
  /\ ct \in [Trx -> 0 .. MaxTS]
  /\ min_bt \in 0 .. MaxTS + 1

(* A list starts empty, or with one version loaded from the data set       *)
(* (AppendInitialVersion).                                                 *)
AppendInitialVersion(c, v) ==
  /\ begin_time = [i \in Item |-> MIN_TIME]
  /\ end_time = [i \in Item |-> IF i = c THEN MAX_TIME ELSE MIN_TIME]
  /\ val = [i \in Item |-> IF i = c THEN v ELSE Empty]
  /\ head = c /\ tail = c /\ pre_tail = c
  /\ tmp_pre_tail = NULL
  /\ pool = Item \ {c}
  /\ chain = <<c>>

EmptyList ==
  /\ begin_time = [i \in Item |-> MIN_TIME]
  /\ end_time = [i \in Item |-> MIN_TIME]
  /\ val = [i \in Item |-> Empty]
  /\ head = NULL /\ tail = NULL /\ pre_tail = NULL
  /\ tmp_pre_tail = NULL
  /\ pool = Item
  /\ chain = <<>>

Init ==
  /\ EmptyList \/ \E c \in Item, v \in Value \ {Empty} : AppendInitialVersion(c, v)
  /\ next = [i \in Item |-> NULL]
  /\ garbage = {}
  /\ clock = 0
  /\ stat = [t \in Trx |-> "idle"]
  /\ bt = [t \in Trx |-> 0]
  /\ ct = [t \in Trx |-> 0]
  /\ min_bt = 0

-----------------------------------------------------------------------------
(* GetTransactionID, GetEndTime of an item. *)
GetTransactionID(i) == IF IS_VALID_TRX_ID(begin_time[i]) THEN begin_time[i] ELSE 0
GetEndTime(i) == IF GetTransactionID(i) > 0 THEN MIN_TIME ELSE end_time[i]

(* The transaction gets its begin time. *)
Begin(t) ==
  /\ stat[t] = "idle"
  /\ clock < MaxTS
  /\ clock' = clock + 1
  /\ bt' = [bt EXCEPT ![t] = clock + 1]
  /\ stat' = [stat EXCEPT ![t] = "processing"]
  /\ UNCHANGED <<itemVars, ptrVars, pool, garbage, chain, ct, min_bt>>

(* The transaction has executed its queries and gets its commit time. *)
Validate(t) ==
  /\ stat[t] = "processing"
  /\ clock < MaxTS
  /\ clock' = clock + 1
  /\ ct' = [ct EXCEPT ![t] = clock + 1]
  /\ stat' = [stat EXCEPT ![t] = "validating"]
  /\ UNCHANGED <<itemVars, ptrVars, pool, garbage, chain, bt, min_bt>>

(* AppendVersion on an empty list: Init and all four pointers. *)
AppendFirst(t, v) ==
  /\ head = NULL
  /\ \E c \in pool :
       /\ begin_time' = [begin_time EXCEPT ![c] = t]
       /\ end_time' = [end_time EXCEPT ![c] = bt[t]]
       /\ next' = [next EXCEPT ![c] = NULL]
       /\ val' = [val EXCEPT ![c] = v]
       /\ head' = c /\ tail' = c /\ pre_tail' = c /\ tmp_pre_tail' = c
       /\ pool' = pool \ {c}
       /\ chain' = <<c>>
  /\ UNCHANGED garbage

(* AppendVersion when the tail is the transaction's own: overwrite it. *)
AppendOwn(t, v) ==
  /\ head # NULL
  /\ begin_time[tail] = t
  /\ val' = [val EXCEPT ![tail] = v]
  /\ UNCHANGED <<begin_time, end_time, next, ptrVars, pool, garbage, chain>>

(* Fault: a tail of another transaction is taken for a committed one. *)
AppendNextAnyTail(t, v) ==
  /\ head # NULL
  /\ begin_time[tail] # t
  /\ \E c \in pool :
       /\ begin_time' = [begin_time EXCEPT ![c] = t]
       /\ end_time' = [end_time EXCEPT ![c] = bt[t], ![tail] = t]
       /\ next' = [next EXCEPT ![c] = NULL, ![tail] = c]
       /\ val' = [val EXCEPT ![c] = v]
       /\ tmp_pre_tail' = pre_tail
       /\ pre_tail' = tail
       /\ tail' = c
       /\ pool' = pool \ {c}
       /\ chain' = Append(chain, c)
  /\ UNCHANGED <<head, garbage>>

(* AppendVersion behind a committed tail: Init of the new item,            *)
(* AppendNextVersion of the tail, then the pointers.                       *)
AppendNext(t, v) ==
  /\ head # NULL
  /\ begin_time[tail] <= MAX_TIME
  /\ \E c \in pool :
       /\ begin_time' = [begin_time EXCEPT ![c] = t]
       /\ end_time' = [end_time EXCEPT ![c] = bt[t], ![tail] = t]
       /\ next' = [next EXCEPT ![c] = NULL, ![tail] = c]
       /\ val' = [val EXCEPT ![c] = v]
       /\ tmp_pre_tail' = pre_tail
       /\ pre_tail' = tail
       /\ tail' = c
       /\ pool' = pool \ {c}
       /\ chain' = Append(chain, c)
  /\ UNCHANGED <<head, garbage>>

(* AppendVersion; a tail of another transaction is a write-write conflict, *)
(* nullptr is returned and nothing changes.                                *)
AppendVersion(t, v) ==
  /\ stat[t] = "processing"
  /\ AppendFirst(t, v) \/ AppendOwn(t, v) \/ AppendNext(t, v)
  /\ UNCHANGED trxVars

(* The last item of the list is an uncommitted version of t. *)
Writes(t) == tail # NULL /\ GetTransactionID(tail) = t

(* Faults of CommitVersion: some of the fields keep their old value. *)
CommitVersionWith(t, newEnd, newTmp) ==
  /\ Writes(t)
  /\ begin_time' = [begin_time EXCEPT ![tail] = ct[t]]
  /\ end_time' = newEnd
  /\ tmp_pre_tail' = newTmp
  /\ UNCHANGED <<next, val, head, tail, pre_tail, pool, garbage, chain>>

CommitVersionAlone(t) ==
  CommitVersionWith(t, [end_time EXCEPT ![tail] = MAX_TIME], NULL)

CommitVersionClosed(t) ==
  CommitVersionWith(t, IF pre_tail # NULL /\ pre_tail # tail
                       THEN [end_time EXCEPT ![pre_tail] = ct[t]] ELSE end_time, NULL)

(* CommitVersion: Commit of the tail and of the item in front of it. *)
CommitVersion(t) ==
  /\ Writes(t)
  /\ begin_time' = [begin_time EXCEPT ![tail] = ct[t]]
  /\ end_time' = IF pre_tail # NULL /\ pre_tail # tail
                 THEN [end_time EXCEPT ![tail] = MAX_TIME, ![pre_tail] = ct[t]]
                 ELSE [end_time EXCEPT ![tail] = MAX_TIME]
  /\ tmp_pre_tail' = NULL
  /\ UNCHANGED <<next, val, head, tail, pre_tail, pool, garbage, chain>>

(* Fault: the item is not freed. *)
AbortVersionLeaks(t) ==
  /\ Writes(t)
  /\ IF tail # pre_tail
     THEN /\ next' = [next EXCEPT ![pre_tail] = NULL]
          /\ end_time' = [end_time EXCEPT ![pre_tail] = MAX_TIME]
          /\ tail' = pre_tail
          /\ pre_tail' = tmp_pre_tail
          /\ chain' = SubSeq(chain, 1, Len(chain) - 1)
          /\ UNCHANGED head
     ELSE /\ tail' = NULL /\ head' = NULL /\ pre_tail' = NULL
          /\ chain' = <<>>
          /\ UNCHANGED <<next, end_time>>
  /\ tmp_pre_tail' = NULL
  /\ UNCHANGED <<begin_time, val, pool, garbage>>

(* AbortVersion: the tail goes back to the pool; AbortNextVersion of the   *)
(* item in front of it.                                                    *)
AbortVersion(t) ==
  /\ Writes(t)
  /\ pool' = pool \cup {tail}
  /\ IF tail # pre_tail
     THEN /\ next' = [next EXCEPT ![pre_tail] = NULL]
          /\ end_time' = [end_time EXCEPT ![pre_tail] = MAX_TIME]
          /\ tail' = pre_tail
          /\ pre_tail' = tmp_pre_tail
          /\ chain' = SubSeq(chain, 1, Len(chain) - 1)
          /\ UNCHANGED head
     ELSE /\ tail' = NULL /\ head' = NULL /\ pre_tail' = NULL
          /\ chain' = <<>>
          /\ UNCHANGED <<next, end_time>>
  /\ tmp_pre_tail' = NULL
  /\ UNCHANGED <<begin_time, val, garbage>>

(* The transaction terminates: it commits or aborts its version, if it has *)
(* one here.  It may abort while it is still processing.                   *)
Finish(t) ==
  /\ \/ stat[t] = "validating" /\ CommitVersion(t)
     \/ stat[t] \in {"processing", "validating"} /\ AbortVersion(t)
     \/ /\ stat[t] \in {"processing", "validating"}
        /\ ~ Writes(t)
        /\ UNCHANGED <<itemVars, ptrVars, pool, garbage, chain>>
  /\ stat' = [stat EXCEPT ![t] = "finished"]
  /\ UNCHANGED <<clock, bt, ct, min_bt>>

-----------------------------------------------------------------------------
(* UpdateGlobalMinBT takes the largest of the minima the workers have     *)
(* published, and a minimum may have been published long ago: it is the    *)
(* begin time of a transaction of its worker, or max_bt_ + 1 of an empty   *)
(* list, and no larger than the begin times running on that worker.  With  *)
(* one worker it is below every running begin time; with more it is not    *)
(* (RunningTrxList!GlobalMinBTSafe).  That it never falls is               *)
(* RunningTrxList!WatermarkNeverFalls.                                     *)
Running == {t \in Trx : stat[t] \in {"processing", "validating"}}

UpdateGlobalMinBT ==
  /\ \E t \in Trx : \E m \in {bt[t], bt[t] + 1} :
       /\ stat[t] # "idle"
       /\ \A u \in Running : Home[u] = Home[t] => m <= bt[u]
       /\ min_bt < m
       /\ min_bt' = m
  /\ UNCHANGED <<itemVars, ptrVars, pool, garbage, chain, clock, stat, bt, ct>>

(* scan_mvcc_list walks from head_ to the last committed item. *)
HasUncommitted == IS_VALID_TRX_ID(begin_time[tail])
iterate_tail == IF HasUncommitted THEN pre_tail ELSE tail

(* Fault: versions that began before the watermark are collected. *)
GCableByBegin(i) == begin_time[chain[i]] < min_bt

GCable(i) == GetEndTime(chain[i]) < min_bt

(* The position of gc_checkpoint, 0 when nothing is collected.  The loop   *)
(* goes on over GCable items; at the first other one a property list stops *)
(* and an edge list does not; an item that is not GCable and is the last   *)
(* one is collected when its value is a deleted one.                       *)
gc_checkpoint ==
  LET last == CHOOSE i \in 1 .. Len(chain) : chain[i] = iterate_tail
      reached == {i \in 1 .. last : IsEdge \/ \A j \in 1 .. i - 1 : GCable(j)}
      collected == {i \in reached : GCable(i) \/ (i = last /\ val[chain[i]] = Empty)}
  IN  CHOOSE n \in 0 .. last :
        /\ n = 0 \/ n \in collected
        /\ \A i \in collected : i <= n

(* Fault: pre_tail_ keeps pointing at the item that was cut off. *)
ScanMVCCListStale ==
  /\ head # NULL
  /\ HasUncommitted => head # tail
  /\ LET n == gc_checkpoint IN
       /\ n > 0
       /\ next' = [next EXCEPT ![chain[n]] = NULL]
       /\ garbage' = garbage \cup {chain[i] : i \in 1 .. n}
       /\ head' = next[chain[n]]
       /\ chain' = SubSeq(chain, n + 1, Len(chain))
       /\ IF chain[n] = iterate_tail /\ ~ HasUncommitted
          THEN tail' = NULL /\ pre_tail' = NULL /\ tmp_pre_tail' = NULL
          ELSE UNCHANGED <<tail, pre_tail, tmp_pre_tail>>
  /\ UNCHANGED <<begin_time, end_time, val, pool, trxVars>>

(* scan_mvcc_list: cut the list behind gc_checkpoint and fix the pointers. *)
(* gc_checkpoint->next is already null when it is compared with            *)
(* iterate_tail, so the branch for "at least one version left" is never    *)
(* taken and pre_tail_ and tmp_pre_tail_ are left alone.                   *)
ScanMVCCList ==
  /\ head # NULL
  /\ HasUncommitted => head # tail
  /\ LET n == gc_checkpoint IN
       /\ n > 0
       /\ next' = [next EXCEPT ![chain[n]] = NULL]
       /\ garbage' = garbage \cup {chain[i] : i \in 1 .. n}
       /\ head' = next[chain[n]]
       /\ chain' = SubSeq(chain, n + 1, Len(chain))
       /\ IF chain[n] = iterate_tail
          THEN IF HasUncommitted
               THEN pre_tail' = tail /\ tmp_pre_tail' = tail /\ UNCHANGED tail
               ELSE tail' = NULL /\ pre_tail' = NULL /\ tmp_pre_tail' = NULL
          ELSE UNCHANGED <<tail, pre_tail, tmp_pre_tail>>
  /\ UNCHANGED <<begin_time, end_time, val, pool, trxVars>>

(* The consumer frees an item of a list that was cut off. *)
FreeItem(i) ==
  /\ i \in garbage
  /\ next' = [next EXCEPT ![i] = NULL]
  /\ garbage' = garbage \ {i}
  /\ pool' = pool \cup {i}
  /\ UNCHANGED <<begin_time, end_time, val, ptrVars, chain, trxVars>>

Next ==
  \/ \E t \in Trx : Begin(t) \/ Validate(t) \/ Finish(t)
  \/ \E t \in Trx, v \in Value : AppendVersion(t, v)
  \/ UpdateGlobalMinBT
  \/ ScanMVCCList
  \/ \E i \in Item : FreeItem(i)

Spec == Init /\ [][Next]_vars

-----------------------------------------------------------------------------
(* SnapshotLevelGetVisibleVersion for a transaction without a version of   *)
(* its own here.  Nothing is visible when the head is uncommitted or too   *)
(* young; otherwise the walk from head_ stops at the first item whose end  *)
(* time is beyond the begin time.                                          *)
Invisible(t) ==
  head = NULL \/ GetTransactionID(head) # 0 \/ begin_time[head] > bt[t]

StopsAt(t, i) ==
  /\ bt[t] < GetEndTime(chain[i])
  /\ \A j \in 1 .. i - 1 : GetEndTime(chain[j]) <= bt[t]

Sees(t, v) ==
  \/ Writes(t) /\ v = val[tail]
  \/ ~ Writes(t) /\ Invisible(t) /\ v = Empty
  \/ /\ ~ Writes(t) /\ ~ Invisible(t)
     /\ \E i \in 1 .. Len(chain) : StopsAt(t, i) /\ v = val[chain[i]]

-----------------------------------------------------------------------------
(* The four pointers describe the list: the items are linked from head_ to *)
(* tail_, each once, and while the tail is uncommitted pre_tail_ is the    *)
(* item in front of it, or the tail itself when it is alone.  CommitVersion*)
(* and AbortVersion write through pre_tail_ on that ground alone; a        *)
(* pre_tail_ left behind by the collector must never reach them.           *)
ListShape ==
  /\ (head = NULL) <=> (chain = <<>>)
  /\ (tail = NULL) <=> (chain = <<>>)
  /\ chain # <<>> => /\ head = chain[1]
                     /\ tail = chain[Len(chain)]
                     /\ next[tail] = NULL
  /\ \A i, j \in 1 .. Len(chain) : chain[i] = chain[j] => i = j
  /\ \A i \in 1 .. Len(chain) - 1 : next[chain[i]] = chain[i + 1]
  /\ chain # <<>> /\ IS_VALID_TRX_ID(begin_time[tail])
       => pre_tail = IF Len(chain) = 1 THEN tail ELSE chain[Len(chain) - 1]

(* No item is lost, shared or freed twice: an item is in the pool, in the  *)
(* list, or cut off and waiting for the collector, and in one of these.    *)
ItemsPartitioned ==
  /\ pool \cup garbage \cup Items = Item
  /\ pool \cap garbage = {}
  /\ (pool \cup garbage) \cap Items = {}

(* Only the last item may be uncommitted, the lifetimes of the committed   *)
(* ones follow each other without gap or overlap, and the last committed   *)
(* one is open, or marked with the identifier of the writer behind it.     *)
LifetimesAdjacent ==
  \A i \in 1 .. Len(chain) :
    /\ i < Len(chain) => ~ IS_VALID_TRX_ID(begin_time[chain[i]])
    /\ i < Len(chain) => end_time[chain[i]] = begin_time[chain[i + 1]]
    /\ i < Len(chain) => begin_time[chain[i]] < begin_time[chain[i + 1]]
    /\ i = Len(chain) /\ ~ IS_VALID_TRX_ID(begin_time[chain[i]])
         => end_time[chain[i]] = MAX_TIME

(* mvcc_list.hpp: "tmp_pre_tail_ is not nullptr only when the tail_ is     *)
(* uncommitted".                                                           *)
TmpPreTailOnlyUncommitted ==
  tmp_pre_tail # NULL => tail # NULL /\ IS_VALID_TRX_ID(begin_time[tail])

(* CHECK(version != tail_) never fails: the walk of a running transaction  *)
(* stops at an item, whatever was committed, aborted or cut in between.    *)
WalkStops ==
  \A t \in Running :
    ~ Writes(t) /\ ~ Invisible(t) => \E i \in 1 .. Len(chain) : StopsAt(t, i)

(* The collector never changes what a running transaction reads that began *)
(* at or after the watermark: every running one where there is one worker. *)
(* A transaction that the watermark has passed is not protected by         *)
(* scan_mvcc_list, whatever the list.                                      *)
ScanKeepsReads ==
  [][ScanMVCCList => \A t \in Running : min_bt <= bt[t] =>
                       \A v \in Value : Sees(t, v) <=> Sees(t, v)']_vars

(* The list is a VersionChain: its committed versions are the committed    *)
(* items, the writer is the owner of an uncommitted tail, and the floor is *)
(* the watermark of the collector.                                         *)
Uncommitted == chain # <<>> /\ IS_VALID_TRX_ID(begin_time[tail])

Committed == IF Uncommitted THEN SubSeq(chain, 1, Len(chain) - 1) ELSE chain

Abstract == INSTANCE VersionChain WITH
  NoTrx <- 0,
  MaxTime <- MAX_TIME + 1,
  versions <- [i \in 1 .. Len(Committed) |->
                 [begin |-> begin_time[Committed[i]], val |-> val[Committed[i]]]],
  writer <- IF Uncommitted THEN begin_time[tail] ELSE 0,
  wval <- IF Uncommitted THEN val[tail] ELSE Empty,
  floor <- min_bt

ImplementsVersionChain == Abstract!Spec

(* Snapshot isolation, reads: two reads of a transaction that writes       *)
(* nothing in between give the same value.                                 *)
SnapshotReadsRepeat ==
  [][\A t \in Running : (stat'[t] = stat[t] /\ ~ Writes(t) /\ ~ Writes(t)')
       => \A v \in Value : Sees(t, v) <=> Sees(t, v)']_vars
=============================================================================
