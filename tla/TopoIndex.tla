----------------------------- MODULE TopoIndex -----------------------------
(***************************************************************************)
(* The topology index of IndexStore (layout/index_store.cpp), for vertices *)
(* or for edges: topo_vtx_data or topo_edge_data, the update list and the  *)
(* table of transaction states with their counts.  A transaction buffers   *)
(* what it adds and drops, moves the buffer to the update list when its    *)
(* validation begins and tells the index how it ended; the collector       *)
(* merges the elements of finished transactions.  Readers walk the update  *)
(* list without a lock, and MoveTopoBufferToRegion takes none either.      *)
(* The versions of the elements (DataStorage) are a list per element.      *)
(***************************************************************************)
EXTENDS Integers, Sequences, FiniteSets, SequencesExt

CONSTANTS
  NumTrx,      \* bound on the transactions, numbered as they begin
  Elem,
  Loaded,      \* the elements there when the index is built
  NoTrx,
  Worker,      \* the workers
  Home,        \* Home[t]: the worker that runs t
  MaxUpdates,  \* bound on the updates of a behaviour
  MaxReads     \* bound on the reads of the index

Trx == 1 .. NumTrx

VARIABLES
  kind,    \* "V" or "E": which of the two indexes
  clock,   \* the last begin or commit time handed out
  trx,     \* stage, begin time and commit time of each transaction
  store,   \* the versions of each element, oldest first
  buffer,  \* vtx_update_buffers, edge_update_buffers
  list,    \* vtx_update_list, edge_update_list
  table,   \* trx_status_and_count_table
  topo,    \* topo_vtx_data, topo_edge_data
  read,    \* the read of the index under way
  gc,      \* the collection under way
  passed,  \* the running transactions that a collection had below its watermark
  zombie,  \* an element whose transaction is not in the table was met
  mixed,   \* elements whose additions and deletions were not merged in order
  lost,    \* elements of the list that were thrown away
  reads, updates

vars == <<kind, clock, trx, store, buffer, list, table, topo, read, gc, passed, zombie, mixed, lost, reads, updates>>

NoRead == [t |-> NoTrx, done |-> FALSE]
NoGC == [phase |-> "idle"]
NoEntry == [stat |-> "none", count |-> 0]

(* build_topo_data *)
Init ==
  /\ kind \in {"V", "E"} /\ clock = 0
  /\ trx = [t \in Trx |-> [stage |-> "new", bt |-> 0, ct |-> 0]]
  /\ store = [e \in Elem |-> IF e \in Loaded THEN <<[add |-> TRUE, by |-> NoTrx, ct |-> 0]>> ELSE <<>>]
  /\ topo = SetToSeq(Loaded)
  /\ buffer = [t \in Trx |-> <<>>] /\ list = <<>> /\ table = [t \in Trx |-> NoEntry]
  /\ read = NoRead /\ gc = NoGC /\ passed = {} /\ zombie = FALSE /\ mixed = {} /\ lost = {} /\ reads = 0 /\ updates = 0

Running == {t \in Trx : trx[t].stage \notin {"new", "gone"}}
(* GetGlobalMinBT: the largest of the minima that the workers published    *)
(* (RunningTrxList::UpdateGlobalMinBT), so that of one worker; any of them *)
(* may have published an old one.                                          *)
MinBT(w) == Min({trx[t].bt : t \in {u \in Running : Home[u] = w}} \cup {clock + 1})

(* With one worker there are none of these. *)
Below(m) == {t \in Running : trx[t].bt < m}

NotReading(t) == read.t # t
Of(q, e) == {i \in DOMAIN q : q[i].id = e}

-----------------------------------------------------------------------------
(* Versions.  A version under way whose commit time is before the reader's *)
(* begin time is waited for.                                               *)
Tip(e) == IF store[e] = <<>> THEN [add |-> FALSE, by |-> NoTrx, ct |-> 0] ELSE Last(store[e])

Decided(t, e) ==
  LET u == Tip(e).by IN
  IF u \in {NoTrx, t} THEN TRUE ELSE trx[u].ct = 0 \/ trx[u].ct > trx[t].bt

Seen(t, e) == {i \in DOMAIN store[e] :
                 store[e][i].by = t \/ (store[e][i].by = NoTrx /\ store[e][i].ct < trx[t].bt)}

CheckVisibility(t, e) ==
  \E i \in Seen(t, e) : store[e][i].add /\ \A j \in Seen(t, e) : j <= i

MayWrite(t, e) == Tip(e).by = t \/ (Tip(e).by = NoTrx /\ Tip(e).ct < trx[t].bt)

Fresh(e) == store[e] = <<>> /\ Of(list, e) = {} /\ \A t \in Trx : Of(buffer[t], e) = {}

Written(t, e, add) ==
  LET v == [add |-> add, by |-> t, ct |-> 0] IN
  IF Tip(e).by = t THEN Front(store[e]) \o <<v>> ELSE Append(store[e], v)

-----------------------------------------------------------------------------
Begin(t) ==
  /\ trx[t].stage = "new" /\ \A u \in 1 .. t - 1 : trx[u].stage # "new"
  /\ clock' = clock + 1
  /\ trx' = [trx EXCEPT ![t] = [stage |-> "running", bt |-> clock', ct |-> 0]]
  /\ UNCHANGED <<kind, passed, store, buffer, list, table, topo, read, gc, zombie, mixed, lost, reads, updates>>

(* addV, addE, drop: the version and InsertToUpdateBuffer.  Vertex ids are *)
(* never used again; an edge may be added again by a later transaction.    *)
InsertToUpdateBuffer(t, e, add) ==
  /\ trx[t].stage = "running" /\ NotReading(t) /\ updates < MaxUpdates /\ MayWrite(t, e)
  /\ IF add THEN ~Tip(e).add /\ Tip(e).by # t /\ (kind = "V" => Fresh(e)) ELSE Tip(e).add
  /\ store' = [store EXCEPT ![e] = Written(t, e, add)]
  /\ buffer' = [buffer EXCEPT ![t] = Append(@, [id |-> e, add |-> add])]
  /\ updates' = updates + 1
  /\ UNCHANGED <<kind, passed, clock, trx, list, table, topo, read, gc, zombie, mixed, lost, reads>>

(* The commit statement: a commit time, handed out before ValidationExpert *)
(* gets to MoveTopoBufferToRegion.                                         *)
AllocateCT(t) ==
  /\ trx[t].stage = "running" /\ buffer[t] # <<>> /\ NotReading(t)
  /\ clock' = clock + 1
  /\ trx' = [trx EXCEPT ![t].stage = "moving", ![t].ct = clock']
  /\ UNCHANGED <<kind, passed, store, buffer, list, table, topo, read, gc, zombie, mixed, lost, reads, updates>>

(* MoveTopoBufferToRegion, an element at a time: into the list, then into  *)
(* the count.                                                              *)
MoveElement(t) ==
  /\ trx[t].stage = "moving" /\ buffer[t] # <<>>
  /\ list' = Append(list, [id |-> Head(buffer[t]).id, add |-> Head(buffer[t]).add, trx |-> t, ct |-> trx[t].ct])
  /\ buffer' = [buffer EXCEPT ![t] = Tail(@)]
  /\ trx' = [trx EXCEPT ![t].stage = "counting"]
  /\ UNCHANGED <<kind, passed, clock, store, table, topo, read, gc, zombie, mixed, lost, reads, updates>>

CountElement(t) ==
  /\ trx[t].stage = "counting"
  /\ table' = [table EXCEPT ![t] = IF @ = NoEntry THEN [stat |-> "VALIDATING", count |-> 1]
                                   ELSE [@ EXCEPT !.count = @ + 1]]
  /\ trx' = [trx EXCEPT ![t].stage = "moving"]
  /\ UNCHANGED <<kind, passed, clock, store, buffer, list, topo, read, gc, zombie, mixed, lost, reads, updates>>

(* DataStorage::Commit and Abort, on the versions. *)
Ended(t, commits) ==
  [e \in Elem |->
     IF Tip(e).by # t THEN store[e]
     ELSE IF commits THEN Front(store[e]) \o <<[Tip(e) EXCEPT !.by = NoTrx, !.ct = trx[t].ct]>>
     ELSE Front(store[e])]

Terminate(t, commits) ==
  /\ \/ trx[t].stage = "moving" /\ buffer[t] = <<>>
     \/ trx[t].stage = "running" /\ ~commits /\ NotReading(t)
  /\ store' = Ended(t, commits)
  /\ trx' = [trx EXCEPT ![t].stage = IF commits THEN "COMMITTED" ELSE "ABORT"]
  /\ UNCHANGED <<kind, passed, clock, buffer, list, table, topo, read, gc, zombie, mixed, lost, reads, updates>>

(* The index learns of it, and the transaction leaves the running list. *)
UpdateTrxStatus(t) ==
  /\ trx[t].stage \in {"COMMITTED", "ABORT"}
  /\ table' = [table EXCEPT ![t] = IF @ = NoEntry THEN @ ELSE [@ EXCEPT !.stat = trx[t].stage]]
  /\ trx' = [trx EXCEPT ![t] = [stage |-> "gone", bt |-> 0, ct |-> 0]]
  /\ passed' = passed \ {t}
  /\ UNCHANGED <<kind, clock, store, buffer, list, topo, read, gc, zombie, mixed, lost, reads, updates>>

-----------------------------------------------------------------------------
(* ReadVtxTopoIndex, ReadEdgeTopoIndex: the update list an element at a    *)
(* time and without a lock, then the merged data under the reader lock and *)
(* the own buffer.  unsettled: the elements for which no answer is         *)
(* promised, see ReadsSnapshot; shaken: a collection swapped the list.     *)
ReadStart(t) ==
  /\ trx[t].stage = "running" /\ read = NoRead /\ reads < MaxReads
  /\ reads' = reads + 1
  /\ read' = [t |-> t, i |-> 1, add |-> <<>>, del |-> {}, shaken |-> FALSE, done |-> FALSE, data |-> <<>>,
              unsettled |-> {e \in Elem :
                 \/ \E u \in Trx \ {t} : trx[u].stage \in {"moving", "counting"} /\ Of(buffer[u], e) # {}
                 \/ \E i \in DOMAIN buffer[t] : buffer[t][i] = [id |-> e, add |-> FALSE]}]
  /\ UNCHANGED <<kind, passed, clock, trx, store, buffer, list, table, topo, gc, zombie, mixed, lost, updates>>

ReadElement(t) ==
  /\ read.t = t /\ ~read.done /\ read.i <= Len(list)
  /\ \E e \in {list[read.i].id}, add \in {list[read.i].add} :
       /\ Decided(t, e)
       /\ \E vis \in {CheckVisibility(t, e)} :
            read' = [read EXCEPT !.i = @ + 1,
                                 !.add = IF vis /\ add THEN Append(@, e) ELSE @,
                                 !.del = IF ~vis /\ ~add THEN @ \cup {e} ELSE @]
  /\ UNCHANGED <<kind, passed, clock, trx, store, buffer, list, table, topo, gc, zombie, mixed, lost, reads, updates>>

(* What a merge of additions and deletions makes of the data.  Only the    *)
(* edge index drops additions of what is there, and only when it has a     *)
(* deletion to look for.                                                   *)
Without(q, del) == SelectSeq(q, LAMBDA e : e \notin del)
Additions(data, add, del) ==
  IF kind = "V" THEN add
  ELSE SetToSeq(ToSet(add) \ IF del = {} THEN {} ELSE ToSet(data))
Merge(data, add, del) == Without(data, del) \o Additions(data, add, del)

ReadMerged(t) ==
  /\ read.t = t /\ ~read.done /\ read.i > Len(list) /\ gc = NoGC
  /\ read' = [read EXCEPT !.done = TRUE,
                          !.data = Merge(topo, read.add, read.del)
                                     \o [i \in DOMAIN buffer[t] |-> buffer[t][i].id]]
  /\ UNCHANGED <<kind, passed, clock, trx, store, buffer, list, table, topo, gc, zombie, mixed, lost, reads, updates>>

ReadEnd ==
  /\ read.done /\ read' = NoRead
  /\ UNCHANGED <<kind, passed, clock, trx, store, buffer, list, table, topo, gc, zombie, mixed, lost, reads, updates>>

-----------------------------------------------------------------------------
(* VtxSelfGarbageCollect, EdgeSelfGarbageCollect.  The loop over the list  *)
(* comes first, the swap of the list at the end: what another thread       *)
(* appends in between is lost.  Only the vertex version counts down.       *)
Mergable(u, m) == u.ct < m /\ u.ct # 0 /\ table[u.trx].stat # "VALIDATING"
Known(u) == table[u.trx] # NoEntry
Merges(u, m) == Mergable(u, m) /\ Known(u)
Stays(u, m) == u.ct >= m \/ u.ct = 0 \/ (Known(u) /\ table[u.trx].stat = "VALIDATING")

(* Wrong variant: an element goes out of the count when it is looked at,   *)
(* merged or not.                                                          *)
CountedDownAll(m) ==
  [t \in Trx |->
     LET n == Cardinality({i \in DOMAIN list : list[i].trx = t /\ list[i].ct # 0}) IN
     IF kind = "E" \/ n = 0 THEN table[t]
     ELSE IF table[t].count <= n THEN NoEntry ELSE [table[t] EXCEPT !.count = @ - n]]

CountedDown(m) ==
  [t \in Trx |->
     LET n == Cardinality({i \in DOMAIN list : list[i].trx = t /\ Merges(list[i], m)}) IN
     IF kind = "E" \/ n = 0 THEN table[t]
     ELSE IF table[t].count = n THEN NoEntry ELSE [table[t] EXCEPT !.count = @ - n]]

Committed(add, m) ==
  SelectSeq(list, LAMBDA u : Merges(u, m) /\ table[u.trx].stat = "COMMITTED" /\ u.add = add)
Ids(q) == [i \in DOMAIN q |-> q[i].id]

(* An element of an unknown transaction is left out ("Zombie"). *)
Zombies(m) == {u \in ToSet(list) : Mergable(u, m) /\ ~Known(u)}

(* Elements merged before earlier updates of theirs: those are of a        *)
(* transaction that still runs and is below the watermark.                 *)
Overtaken(m) ==
  {u.id : u \in {w \in ToSet(list) : Stays(w, m) /\ w.trx \in Below(m)}}
    \cap {u.id : u \in {w \in ToSet(list) : Merges(w, m)}}

CollectWalk ==
  /\ gc = NoGC
  /\ \E m \in {MinBT(w) : w \in Worker} :
       /\ \E i \in DOMAIN list : list[i].ct < m
       /\ passed' = passed \cup Below(m)
       /\ zombie' = (zombie \/ \E u \in Zombies(m) : u.trx \notin Below(m))
       /\ lost' = lost \cup {<<u.trx, u.id>> : u \in Zombies(m)}
       /\ gc' = [phase |-> "swap", new |-> SelectSeq(list, LAMBDA u : Stays(u, m)), seen |-> Len(list),
                 add |-> Ids(Committed(TRUE, m)), del |-> ToSet(Ids(Committed(FALSE, m)))]
       /\ table' = CountedDown(m)
       /\ mixed' = mixed \cup Overtaken(m)
  /\ UNCHANGED <<kind, clock, trx, store, buffer, list, topo, read, reads, updates>>

CollectSwap ==
  /\ gc # NoGC /\ gc' = NoGC
  /\ topo' = Merge(topo, gc.add, gc.del)
  /\ list' = gc.new
  /\ mixed' = mixed \cup (ToSet(gc.add) \cap gc.del)
  /\ lost' = lost \cup {<<list[i].trx, list[i].id>> : i \in gc.seen + 1 .. Len(list)}
  /\ read' = IF read = NoRead THEN read ELSE [read EXCEPT !.shaken = TRUE]
  /\ UNCHANGED <<kind, passed, clock, trx, store, buffer, table, zombie, reads, updates>>

Next ==
  \/ \E t \in Trx :
       \/ Begin(t) \/ AllocateCT(t) \/ MoveElement(t) \/ CountElement(t)
       \/ Terminate(t, TRUE) \/ Terminate(t, FALSE) \/ UpdateTrxStatus(t)
       \/ ReadStart(t) \/ ReadElement(t) \/ ReadMerged(t)
       \/ \E e \in Elem : InsertToUpdateBuffer(t, e, TRUE) \/ InsertToUpdateBuffer(t, e, FALSE)
  \/ ReadEnd \/ CollectWalk \/ CollectSwap

Spec == Init /\ [][Next]_vars

-----------------------------------------------------------------------------
(* "Zombie Update Element Exists in IndexStore" is never printed unless    *)
(* the watermark is ahead of the transaction: the collector finds the      *)
(* transaction of every element it may merge in                            *)
(* trx_status_and_count_table, although MoveTopoBufferToRegion appends an  *)
(* element before it is counted.                                           *)
NoZombieElement == ~zombie

(* The vertex counts of trx_status_and_count_table: every transaction has  *)
(* as many as it has elements in the list, save one just being counted and *)
(* those that were thrown away.                                            *)
ListOf(t) == {i \in DOMAIN list : list[i].trx = t}
Uncounted(t) == IF trx[t].stage = "counting" THEN 1 ELSE 0
LostOf(t) == Cardinality({l \in lost : l[1] = t})
CountsElements ==
  kind = "V" /\ gc = NoGC => \A t \in Trx : LostOf(t) = 0 =>
    table[t].count = Cardinality(ListOf(t)) - Uncounted(t)

(* "g.V() --> All": a read that no collection overlaps, by a transaction   *)
(* that no watermark has passed, returns every element the transaction     *)
(* sees, a vertex once, and no other.                                      *)
(* Excepted are elements that the code gets wrong: thrown away by the      *)
(* collector, with an addition and a deletion merged at once or by a       *)
(* watermark ahead of the first of them, dropped by the reader itself,     *)
(* or written by a transaction that has its commit time but has not moved  *)
(* its buffer.                                                             *)
Times(q, e) == Cardinality({i \in DOMAIN q : q[i] = e})
LostIds == {l[2] : l \in lost}
Exact(e, q, there) ==
  IF there THEN Times(q, e) >= 1 /\ (kind = "V" => Times(q, e) = 1) ELSE Times(q, e) = 0
ReadsSnapshot ==
  read.done /\ ~read.shaken /\ read.t \notin passed =>
    \A e \in Elem \ (read.unsettled \cup mixed \cup LostIds) : Exact(e, read.data, CheckVisibility(read.t, e))

(* An element with nothing left in the list and no version under way is in *)
(* the merged data if it is there (once, if it is a vertex) and not at all *)
(* if it was dropped.                                                      *)
MergedExactly ==
  gc = NoGC => \A e \in Elem \ (mixed \cup LostIds) :
    Of(list, e) = {} /\ (\A t \in Trx : Of(buffer[t], e) = {}) =>
      Exact(e, topo, Tip(e).add)

(* The comment on the collector: an element that is not merged stays.      *)
(* The code loses those that are appended while it walks the list.         *)
NoElementLost == lost = {}

=============================================================================
