----------------------------- MODULE StatusTable ----------------------------
(***************************************************************************)
(* The transaction status table of a worker                                *)
(* (core/transaction_status_table.cpp): a hash table of buckets, the last  *)
(* slot of a bucket linking to an indirect bucket, in memory that other    *)
(* workers read.  The slots of finished transactions are erased through    *)
(* two lists that one thread appends to and the garbage collector shortens *)
(* without a lock.  core/trx_table_stub_rdma.cpp, trx_table_stub_zmq.cpp   *)
(* and core/coordinator.cpp read and write it.                             *)
(***************************************************************************)
EXTENDS Integers, Sequences, FiniteSets, SequencesExt

CONSTANTS Loads, NumMain, NumIndirect, ASSOCIATIVITY

VARIABLES load, table, last_ext, ro, nro, rec, gc, min_bt, clock, trx, updates, reading, crashed

vars == <<load, table, last_ext, ro, nro, rec, gc, min_bt, clock, trx, updates, reading, crashed>>

Trx == 1 .. Len(load.kinds)

(* load.kinds: the transactions of the clients, in the order of their      *)
(* begin times; an empty one has no query.  load.paths: how the table is   *)
(* read meanwhile; load.running: how many run at a time; load.outcomes:    *)
(* whether they commit, or also abort; load.workers: the workers there     *)
(* are, of which only this one's transactions are in the table.            *)
ReadOnly(t) == load.kinds[t] \in {"ro", "empty ro"}
IsEmpty(t) == load.kinds[t] \in {"empty ro", "empty rw"}

(* The slots of the buckets. *)
Slots == 0 .. (NumMain + NumIndirect) * ASSOCIATIVITY - 1
NoSlot == -1
Garbage == "uninitialized"

(* TidStatus.  The bits P, V, C and A are read by getState only. *)
EmptySlot == [trx |-> 0, stat |-> "none", ct |-> 0, occupied |-> FALSE, erased |-> FALSE]

enterProcessState(t) == [trx |-> t, stat |-> "P", ct |-> 0, occupied |-> TRUE, erased |-> FALSE]

(* The lists of TsPtrNode: nodes in the order in which they were linked,   *)
(* with the places of the head and of the tail pointer; 0 is nullptr.      *)
NoNodes == [nodes |-> <<>>, head |-> 0, tail |-> 0]
NoGC == [list |-> "none", head |-> 0, tail |-> 0, seen |-> 0]
NoRead == [t |-> 0, x |-> 0, path |-> "none", pc |-> "none", bucket |-> 0, found |-> FALSE,
           stat |-> Garbage, ct |-> 0, during |-> {}]

Idle == [st |-> "none", bt |-> 0, et |-> 0, fresh |-> FALSE]

Init ==
  /\ load \in Loads
  /\ table = [s \in Slots |-> EmptySlot]
  /\ last_ext = 0 /\ ro = NoNodes /\ nro = NoNodes /\ rec = "none" /\ gc = NoGC
  /\ min_bt = 0 /\ clock = 0 /\ trx = [t \in Trx |-> Idle] /\ updates = <<>>
  /\ reading = NoRead /\ crashed = "no"

-----------------------------------------------------------------------------
(* TrxIDHash: the transaction id without its low bits, which are 0. *)
MainBucket(t) == t % NumMain
Link(b) == b * ASSOCIATIVITY + ASSOCIATIVITY - 1
Entries(b) == b * ASSOCIATIVITY .. b * ASSOCIATIVITY + ASSOCIATIVITY - 2

First(S) == CHOOSE s \in S : \A r \in S : s <= r

RECURSIVE FindIn(_, _, _)
FindIn(tab, b, t) ==
  CASE \E s \in Entries(b) : tab[s].trx = t -> First({s \in Entries(b) : tab[s].trx = t})
    [] (\A s \in Entries(b) : tab[s].trx # t) /\ tab[Link(b)].trx = 0 -> NoSlot
    [] OTHER -> FindIn(tab, tab[Link(b)].trx, t)

find_trx(t) == FindIn(table, MainBucket(t), t)

(* The slot that insert_single_trx takes: the first of the chain that is   *)
(* empty or erased, or the first of a new bucket at the end of the chain.  *)
Free(s) == ~table[s].occupied \/ table[s].erased

RECURSIVE InsertFrom(_)
InsertFrom(b) ==
  CASE \E s \in Entries(b) : Free(s) -> [slot |-> First({s \in Entries(b) : Free(s)}), from |-> NoSlot]
    [] (\A s \in Entries(b) : ~Free(s)) /\ table[Link(b)].trx = 0 ->
         [slot |-> (NumMain + last_ext) * ASSOCIATIVITY, from |-> Link(b)]
    [] OTHER -> InsertFrom(table[Link(b)].trx)

Linked(list, ts, s) == [list EXCEPT !.nodes = Append(@, [ts |-> ts, slot |-> s])]

(* new_tail: an empty list gets its head and its tail in one assignment,   *)
(* otherwise the tail follows in a step of its own (RecordTail).           *)
Recorded(list, ts, s) ==
  IF list.tail = 0 THEN [nodes |-> <<[ts |-> ts, slot |-> s]>>, head |-> 1, tail |-> 1]
  ELSE Linked(list, ts, s)

RecordTail ==
  /\ rec # "none" /\ rec' = "none"
  /\ ro' = IF rec = "ro" THEN [ro EXCEPT !.tail = Len(ro.nodes)] ELSE ro
  /\ nro' = IF rec = "nro" THEN [nro EXCEPT !.tail = Len(nro.nodes)] ELSE nro
  /\ UNCHANGED <<load, min_bt, table, last_ext, gc, clock, trx, updates, reading, crashed>>

-----------------------------------------------------------------------------
Running(t) == trx[t].st \in {"run", "stamped", "validating", "decided"}

(* Worker::ProcessAllocatedTimestamp, BEGIN_TIME.  The clock gives t its   *)
(* begin time, the table a slot; a read-only transaction is put on its     *)
(* list, unless it opened a new bucket.  An empty transaction is answered  *)
(* at once and gets no end time.  load.running bounds the model only.      *)
Begin(t) ==
  /\ rec = "none" /\ trx[t].st = "none" /\ \A u \in Trx : u < t => trx[u].st # "none"
  /\ Cardinality({u \in Trx : Running(u)}) < load.running
  /\ clock' = clock + 1
  /\ \E at \in {InsertFrom(MainBucket(t))} :
       IF at.from # NoSlot /\ last_ext >= NumIndirect
       THEN crashed' = "out of indirect-header region" /\ UNCHANGED <<table, last_ext, ro, rec, trx>>
       ELSE /\ table' = IF at.from = NoSlot THEN [table EXCEPT ![at.slot] = enterProcessState(t)]
                        ELSE [table EXCEPT ![at.from].trx = NumMain + last_ext, ![at.slot] = enterProcessState(t)]
            /\ last_ext' = IF at.from = NoSlot THEN last_ext ELSE last_ext + 1
            /\ IF ReadOnly(t) /\ at.from = NoSlot
               THEN ro' = Recorded(ro, clock + 1, at.slot) /\ rec' = IF ro.tail = 0 THEN "none" ELSE "ro"
               ELSE UNCHANGED <<ro, rec>>
            /\ trx' = [trx EXCEPT ![t] = [st |-> IF IsEmpty(t) THEN "ended" ELSE "run", bt |-> clock + 1, et |-> 0,
                                         fresh |-> at.from # NoSlot]]
            /\ UNCHANGED crashed
  /\ UNCHANGED <<load, min_bt, nro, gc, updates, reading>>

(* The statuses of x while it is being read. *)
Noted(x, stat) == IF reading.x = x THEN [reading EXCEPT !.during = @ \cup {stat}] ELSE reading

(* modify_status with a commit time: register_ct, and then the status;     *)
(* nothing if the transaction is not found.  A read-only transaction takes *)
(* its begin time (Worker::RegisterQuery).                                 *)
(* Commit times are only told apart, so that each has a value of its own.  *)
CommitTime(t) == 100 + t

register_ct(t) ==
  /\ rec = "none" /\ trx[t].st = "run"
  /\ IF find_trx(t) = NoSlot THEN trx' = [trx EXCEPT ![t].st = "validating"] /\ UNCHANGED table
     ELSE /\ trx' = [trx EXCEPT ![t].st = "stamped"]
          /\ table' = [table EXCEPT ![find_trx(t)].ct = CommitTime(t)]
  /\ UNCHANGED <<load, min_bt, last_ext, ro, nro, rec, gc, clock, updates, reading, crashed>>

enterValidationState(t) ==
  /\ trx[t].st = "stamped"
  /\ trx' = [trx EXCEPT ![t].st = "validating"]
  /\ table' = IF find_trx(t) = NoSlot THEN table ELSE [table EXCEPT ![find_trx(t)].stat = "V"]
  /\ reading' = Noted(t, "V")
  /\ UNCHANGED <<load, min_bt, last_ext, ro, nro, rec, gc, clock, updates, crashed>>

(* TrxTableStub::update_status puts a request on the queue of the worker,  *)
(* Coordinator::ProcessTrxTableWriteReqs takes it from there.              *)
update_status(t, stat) ==
  /\ trx[t].st \in {"validating", "run"} /\ (trx[t].st = "run" => stat = "A")
  /\ trx' = [trx EXCEPT ![t].st = "decided"]
  /\ updates' = Append(updates, [t |-> t, stat |-> stat])
  /\ UNCHANGED <<load, min_bt, table, last_ext, ro, nro, rec, gc, clock, reading, crashed>>

(* modify_status: a transaction that is not found is left out silently. *)
ProcessTrxTableWriteReqs ==
  /\ updates # <<>> /\ updates' = Tail(updates)
  /\ \E s \in {find_trx(Head(updates).t)} :
       IF s = NoSlot THEN UNCHANGED <<table, reading>>
       ELSE /\ table' = [table EXCEPT ![s].stat = Head(updates).stat]
            /\ reading' = Noted(Head(updates).t, Head(updates).stat)
  /\ UNCHANGED <<load, min_bt, last_ext, ro, nro, rec, gc, clock, trx, crashed>>

(* The end of a transaction in Worker::Start: it leaves the list of the    *)
(* running ones.  An abort has waited for its status (Terminate).          *)
NotifyTrxFinished(t) ==
  /\ trx[t].st = "decided"
  /\ \A i \in 1 .. Len(updates) : updates[i] # [t |-> t, stat |-> "A"]
  /\ trx' = [trx EXCEPT ![t].st = "ended"]
  /\ reading' = IF reading.t = t THEN NoRead ELSE reading
  /\ UNCHANGED <<load, min_bt, table, last_ext, ro, nro, rec, gc, clock, updates, crashed>>

(* ProcessAllocatedTimestamp, END_TIME: record_nro_trx_with_et.  An empty  *)
(* transaction asks for no end time.                                       *)
record_nro_trx_with_et(t) ==
  /\ rec = "none" /\ trx[t].st = "ended" /\ ~ReadOnly(t) /\ ~IsEmpty(t) /\ trx[t].et = 0
  /\ clock' = clock + 1
  /\ trx' = [trx EXCEPT ![t].et = clock + 1]
  /\ nro' = Recorded(nro, clock + 1, find_trx(t))
  /\ rec' = IF nro.tail = 0 THEN "none" ELSE "nro"
  /\ UNCHANGED <<load, min_bt, table, last_ext, ro, gc, updates, reading, crashed>>

-----------------------------------------------------------------------------
(* GetGlobalMinBT: the largest of the minima of the workers                *)
(* (RunningTrxList::UpdateGlobalMinBT).  This worker's is its smallest     *)
(* running begin time, or above all of them when nothing runs; another     *)
(* one's may be any time up to now.                                        *)
MinRunning == IF \E t \in Trx : Running(t) THEN First({trx[t].bt : t \in {u \in Trx : Running(u)}}) ELSE clock + 1
GetGlobalMinBT == MinRunning .. (IF load.workers = 1 THEN MinRunning ELSE clock + 1)

(* erase_trx_via_min_bt: the head and the tail are read once; a list of    *)
(* fewer than three nodes is left alone.                                   *)
ListOf(l) == IF l = "ro" THEN ro ELSE nro

(* Wrong variant: lists of any length. *)
ErasableAlways(l) == l.head # 0 /\ l.tail # 0

Erasable(l) == l.head # 0 /\ l.tail # 0 /\ l.head # l.tail /\ l.head + 1 # l.tail

EraseStart(l) ==
  /\ gc = NoGC /\ Erasable(ListOf(l))
  /\ \E m \in GetGlobalMinBT :
       /\ m >= min_bt /\ min_bt' = m
       /\ gc' = [list |-> l, head |-> ListOf(l).head, tail |-> ListOf(l).tail, seen |-> m]
  /\ UNCHANGED <<load, table, last_ext, ro, nro, rec, clock, trx, updates, reading, crashed>>

Stops(list) == gc.head + 1 = gc.tail \/ list.nodes[gc.head].ts >= gc.seen

(* One round of the loop of erase, or its end. *)
Erase ==
  /\ gc # NoGC
  /\ IF Stops(ListOf(gc.list))
     THEN /\ ro' = IF gc.list = "ro" THEN [ro EXCEPT !.head = gc.head] ELSE ro
          /\ nro' = IF gc.list = "nro" THEN [nro EXCEPT !.head = gc.head] ELSE nro
          /\ gc' = NoGC /\ UNCHANGED table
     ELSE /\ table' = [table EXCEPT ![ListOf(gc.list).nodes[gc.head].slot].erased = TRUE]
          /\ gc' = [gc EXCEPT !.head = @ + 1] /\ UNCHANGED <<ro, nro>>
  /\ UNCHANGED <<load, min_bt, last_ext, rec, clock, trx, updates, reading, crashed>>

-----------------------------------------------------------------------------
(* A transaction asks for its own status, and for that of one that wrote   *)
(* and that has not ended before it began.                                 *)
MayAsk(t, x) ==
  /\ Running(t) /\ trx[x].st # "none"
  /\ x = t \/ (~ReadOnly(x) /\ ~IsEmpty(x) /\ (trx[x].et = 0 \/ trx[x].et > trx[t].bt))

StatusOf(x) == IF find_trx(x) = NoSlot THEN Garbage ELSE table[find_trx(x)].stat

(* read_ct: on the worker that owns x the status and then the commit time, *)
(* over RDMA bucket by bucket, over TCP by a request to the owner.         *)
read_ct(t, x, path) ==
  /\ reading = NoRead /\ MayAsk(t, x)
  /\ reading' = [t |-> t, x |-> x, path |-> path, pc |-> IF path = "tcp" THEN "ct" ELSE "status",
                 bucket |-> MainBucket(x), found |-> TRUE, stat |-> Garbage, ct |-> 0, during |-> {StatusOf(x)}]
  /\ UNCHANGED <<load, min_bt, table, last_ext, ro, nro, rec, gc, clock, trx, updates, crashed>>

query_status(x) ==
  /\ reading.x = x /\ reading.pc = "status" /\ reading.path # "rdma"
  /\ reading' = [reading EXCEPT !.stat = StatusOf(x), !.found = @ /\ find_trx(x) # NoSlot,
                                !.pc = IF reading.path = "tcp" THEN "done" ELSE "ct"]
  /\ UNCHANGED <<load, min_bt, table, last_ext, ro, nro, rec, gc, clock, trx, updates, crashed>>

query_ct(x) ==
  /\ reading.x = x /\ reading.pc = "ct"
  /\ reading' = [reading EXCEPT !.ct = IF find_trx(x) = NoSlot THEN @ ELSE table[find_trx(x)].ct,
                                !.found = @ /\ find_trx(x) # NoSlot,
                                !.pc = IF reading.path = "tcp" THEN "status" ELSE "done"]
  /\ UNCHANGED <<load, min_bt, table, last_ext, ro, nro, rec, gc, clock, trx, updates, crashed>>

(* RdmaRead copies one bucket; the slots and the link of the copy are used. *)
RdmaRead(x) ==
  /\ reading.x = x /\ reading.path = "rdma" /\ reading.pc = "status"
  /\ \E here \in {{s \in Entries(reading.bucket) : table[s].trx = x}} :
       reading' =
         CASE here # {} -> [reading EXCEPT !.pc = "done", !.stat = table[First(here)].stat,
                              !.ct = IF table[First(here)].stat \in {"C", "V"} THEN table[First(here)].ct ELSE 0]
           [] here = {} /\ table[Link(reading.bucket)].trx = 0 -> [reading EXCEPT !.pc = "done", !.found = FALSE]
           [] OTHER -> [reading EXCEPT !.bucket = table[Link(reading.bucket)].trx]
  /\ UNCHANGED <<load, min_bt, table, last_ext, ro, nro, rec, gc, clock, trx, updates, crashed>>

Return ==
  /\ reading.pc = "done" /\ reading' = NoRead
  /\ UNCHANGED <<load, min_bt, table, last_ext, ro, nro, rec, gc, clock, trx, updates, crashed>>

Next ==
  /\ crashed = "no"
  /\ \/ \E t \in Trx :
          \/ Begin(t)
          \/ register_ct(t) \/ enterValidationState(t) \/ NotifyTrxFinished(t) \/ record_nro_trx_with_et(t)
          \/ \E stat \in load.outcomes : update_status(t, stat)
          \/ \E x \in Trx, path \in load.paths : read_ct(t, x, path)
          \/ query_status(t) \/ query_ct(t) \/ RdmaRead(t)
     \/ RecordTail \/ ProcessTrxTableWriteReqs \/ Erase \/ Return
     \/ \E l \in {"ro", "nro"} : EraseStart(l)

Spec == Init /\ [][Next]_vars

-----------------------------------------------------------------------------
(* No collection has used a watermark above its begin time.  With one      *)
(* worker that is so of every transaction that runs.                       *)
Protected(t) == min_bt <= trx[t].bt

(* A protected transaction that asks for a status gets one that the other  *)
(* had while it asked: what find_trx looks for has not been erased and     *)
(* reused, and the chain of buckets it follows leads there.                *)
ReadsTrue ==
  reading.pc = "done" /\ Protected(reading.t) => reading.found /\ reading.stat \in reading.during

(* A status of VALIDATING or COMMITTED comes with the commit time; over    *)
(* TCP, where the time is read before the status, with that or with none.  *)
CtWithStatus ==
  reading.pc = "done" /\ reading.stat \in {"V", "C"} /\ Protected(reading.t) =>
    \/ reading.ct = CommitTime(reading.x)
    \/ reading.path = "tcp" /\ reading.ct = 0

(* A transaction stands in one slot at most, and from the slot of one that *)
(* runs and is protected nothing has been erased.                          *)
Standing(t) == {s \in Slots : s % ASSOCIATIVITY # ASSOCIATIVITY - 1 /\ table[s].trx = t}
OneSlotEach ==
  \A t \in Trx :
    /\ Cardinality(Standing(t)) <= 1
    /\ Running(t) /\ Protected(t) => find_trx(t) \in Standing(t) /\ ~table[find_trx(t)].erased

(* The collector frees no node that the recording thread still uses: the   *)
(* tail pointer is never behind the nodes that are left.                   *)
TailNotFreed ==
  \A l \in {"ro", "nro"} :
    ListOf(l).tail >= (IF gc.list = l THEN gc.head ELSE ListOf(l).head)

(* A slot is reclaimed for as long as its transaction is on a list: every  *)
(* one that has ended is erased or listed, but for an empty transaction    *)
(* that could have written, and a read-only one that opened a bucket.      *)
Listed(t) ==
  \E l \in {"ro", "nro"} : \E i \in 1 .. Len(ListOf(l).nodes) :
    i >= (IF gc.list = l THEN gc.head ELSE ListOf(l).head) /\ ListOf(l).nodes[i].slot \in Standing(t)
Reclaimed(t) == Standing(t) = {} \/ (\E s \in Standing(t) : table[s].erased) \/ Listed(t)
EndedAreListed ==
  \A t \in Trx : trx[t].st = "ended" /\ (ReadOnly(t) \/ trx[t].et # 0) /\ ~(ReadOnly(t) /\ trx[t].fresh) => Reclaimed(t)

(* Every read-only transaction is put on the list when it is inserted.     *)
ReadOnlyListed == \A t \in Trx : ReadOnly(t) /\ trx[t].st # "none" => Reclaimed(t)

=============================================================================
