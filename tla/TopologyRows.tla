---------------------------- MODULE TopologyRows ----------------------------
(***************************************************************************)
(* TopologyRowList (layout/topology_row_list.cpp): the edges of one        *)
(* vertex, a cell each.  AllocateCell holds a spin lock, but               *)
(* ReadConnectedVertex and ReadConnectedEdge read head_ and edge_count_    *)
(* without it; only the collector is kept out, by gc_rwlock_.  As in       *)
(* PropertyRows, a version list is the last committed value and the        *)
(* version under way.                                                      *)
(***************************************************************************)
EXTENDS Integers, Sequences, FiniteSets, SequencesExt, RowCells

CONSTANTS
  Edge,               \* edges of the vertex: direction and neighbour
  Thread,
  VE_ROW_CELL_COUNT,
  NoTrx, NoCell,      \* NoCell: a cell that nobody has written
  MaxOps              \* bound on the operations of a behaviour

VARIABLES
  rows,     \* the cells of the rows that are linked, written or not
  count,    \* edge_count_
  e_map,    \* the edges with an entry in the edge map of DataStorage
  lock,     \* lock_: the thread that holds it
  pc, trx,  \* operation and transaction of each thread
  freed,    \* the edges whose entry SelfGarbageCollect handed to an EraseE task
  crashed,  \* an unwritten cell was followed
  ops

vars == <<rows, count, e_map, lock, pc, trx, freed, crashed, ops>>

Absent == "absent"
Drop == "drop"
Empty == [val |-> Absent, by |-> NoTrx, new |-> Absent]
Idle == [op |-> "idle"]
NewTrx == [begun |-> FALSE, touched |-> {}, failed |-> FALSE]

Init ==
  /\ rows = <<>> /\ count = 0 /\ e_map = {} /\ lock = NoTrx
  /\ pc = [t \in Thread |-> Idle] /\ trx = [t \in Thread |-> NewTrx]
  /\ freed = {} /\ crashed = FALSE /\ ops = 0

Start(t, w) ==
  /\ ~crashed /\ freed = {} /\ pc[t] = Idle /\ ~trx[t].failed /\ ops < MaxOps
  /\ ops' = ops + 1
  /\ pc' = [pc EXCEPT ![t] = w]
  /\ trx' = [trx EXCEPT ![t].begun = TRUE]

Finish(t) == pc' = [pc EXCEPT ![t] = Idle]
Fail(t) == Finish(t) /\ trx' = [trx EXCEPT ![t].failed = TRUE]
InUse == 1 .. count
CellOf(e) == CHOOSE i \in InUse : rows[i].e = e

-----------------------------------------------------------------------------
(* ProcessAddEdge, "for a specific eid ... only called once": DataStorage  *)
(* calls it for an edge that is not in the edge map.                       *)
ProcessAddEdge(t, e) ==
  /\ e \notin e_map /\ e_map' = e_map \cup {e}
  /\ Start(t, [op |-> "lock", e |-> e])
  /\ UNCHANGED <<rows, count, lock, freed, crashed>>

(* AllocateCell, step by step: the row is linked, the cell is written,     *)
(* then the count goes up.                                                 *)
Linked == IF count % VE_ROW_CELL_COUNT = 0
          THEN rows \o [i \in 1 .. VE_ROW_CELL_COUNT |-> NoCell] ELSE rows

(* Wrong variant: lock_ is not waited for. *)
AllocateCellLinkUnlocked(t) ==
  /\ pc[t].op = "lock"
  /\ lock' = t /\ rows' = Linked
  /\ pc' = [pc EXCEPT ![t] = [op |-> "write", e |-> @.e, cell_id |-> count]]
  /\ UNCHANGED <<count, e_map, trx, freed, crashed, ops>>

AllocateCellLink(t) ==
  /\ pc[t].op = "lock" /\ lock = NoTrx
  /\ lock' = t /\ rows' = Linked
  /\ pc' = [pc EXCEPT ![t] = [op |-> "write", e |-> @.e, cell_id |-> count]]
  /\ UNCHANGED <<count, e_map, trx, freed, crashed, ops>>

AllocateCellWrite(t) ==
  /\ pc[t].op = "write"
  /\ rows' = [rows EXCEPT ![pc[t].cell_id + 1] =
                [e |-> pc[t].e, list |-> [Empty EXCEPT !.by = t, !.new = "set"]]]
  /\ pc' = [pc EXCEPT ![t].op = "count"]
  /\ UNCHANGED <<count, e_map, lock, trx, freed, crashed, ops>>

AllocateCellCount(t) ==
  /\ pc[t].op = "count"
  /\ count' = pc[t].cell_id + 1
  /\ lock' = NoTrx /\ Finish(t)
  /\ UNCHANGED <<rows, e_map, trx, freed, crashed, ops>>

(* A version of an edge that is in the map: dropped, or added again. *)
ProcessEdge(t, e, v) ==
  /\ e \in e_map /\ \E i \in InUse : rows[i].e = e
  /\ Start(t, Idle)
  /\ \E i \in {CellOf(e)} :
       /\ rows[i].list.by \in {NoTrx, t} /\ e \notin trx[t].touched
       /\ v = Drop <=> "set" = (IF rows[i].list.by = t THEN rows[i].list.new ELSE rows[i].list.val)
       /\ rows' = [rows EXCEPT ![i].list = [@ EXCEPT !.by = t, !.new = v]]
  /\ UNCHANGED <<count, e_map, lock, freed, crashed>>

-----------------------------------------------------------------------------
(* ReadConnectedVertex, ReadConnectedEdge: head_ first, then edge_count_,  *)
(* then the cells.                                                         *)
ReadConnected(t) ==
  /\ Start(t, IF rows = <<>> THEN [op |-> "read", i |-> 1, count |-> 0, ret |-> {}] ELSE [op |-> "head"])
  /\ UNCHANGED <<rows, count, e_map, lock, freed, crashed>>

ReadCount(t) ==
  /\ pc[t].op = "head"
  /\ pc' = [pc EXCEPT ![t] = [op |-> "read", i |-> 1, count |-> count, ret |-> {}]]
  /\ UNCHANGED <<rows, count, e_map, lock, trx, freed, crashed, ops>>

ReadDone(t) == pc[t].op = "read" /\ pc[t].i > pc[t].count

Visible(t, c) ==
  IF c.list.by = t THEN {c.list.new}
  ELSE {c.list.val} \cup IF c.list.by # NoTrx \/ c.e \in trx[t].touched THEN {Absent, "abort"} ELSE {}

ReadCell(t) ==
  /\ pc[t].op = "read" /\ ~ReadDone(t)
  /\ IF rows[pc[t].i] = NoCell THEN crashed' = TRUE /\ UNCHANGED <<pc, trx>>
     ELSE /\ UNCHANGED crashed
          /\ \E v \in Visible(t, rows[pc[t].i]) :
               IF v = "abort" THEN Fail(t)
               ELSE /\ pc' = [pc EXCEPT ![t].i = @ + 1,
                                        ![t].ret = IF v = "set" THEN @ \cup {<<pc[t].i, rows[pc[t].i].e>>} ELSE @]
                    /\ UNCHANGED trx
  /\ UNCHANGED <<rows, count, e_map, lock, freed, ops>>

ReadEnd(t) == ReadDone(t) /\ Finish(t) /\ UNCHANGED <<rows, count, e_map, lock, trx, freed, crashed, ops>>

-----------------------------------------------------------------------------
Ends(c, t) == c # NoCell /\ c.list.by = t

End(t, Ended(_)) ==
  /\ ~crashed /\ pc[t] = Idle /\ trx[t].begun
  /\ rows' = [i \in 1 .. Len(rows) |->
                IF Ends(rows[i], t) THEN [rows[i] EXCEPT !.list = Ended(@)] ELSE rows[i]]
  /\ trx' = [u \in Thread |->
               IF u = t THEN NewTrx
               ELSE IF ~trx[u].begun THEN trx[u]
               ELSE [trx[u] EXCEPT !.touched = @ \cup {c.e : c \in {d \in ToSet(rows) : Ends(d, t)}}]]
  /\ UNCHANGED <<count, e_map, lock, pc, freed, crashed, ops>>

Commit(t) == ~trx[t].failed /\ End(t, LAMBDA l : [Empty EXCEPT !.val = l.new])
Abort(t) == End(t, LAMBDA l : [Empty EXCEPT !.val = l.val])

(* scan_mvcc_list on the list of a cell: for an edge, a committed deletion *)
(* is cut off whoever still runs, with all that came before it.            *)
ScanCell(i) ==
  /\ ~crashed /\ rows[i].list.val = Drop
  /\ rows' = [rows EXCEPT ![i].list.val = Absent]
  /\ UNCHANGED <<count, e_map, lock, pc, trx, freed, crashed, ops>>

(* SelfDefragment: under the writer lock of gc_rwlock_.  The edges of the  *)
(* empty cells (gcable_eids) leave the edge map.                           *)
NobodyInside == \A t \in Thread : pc[t] = Idle

Padded(cs) ==
  cs \o [i \in 1 .. CurRowCount(Len(cs), VE_ROW_CELL_COUNT) * VE_ROW_CELL_COUNT - Len(cs) |-> NoCell]

SelfDefragment ==
  /\ ~crashed /\ freed = {} /\ NobodyInside /\ \E i \in InUse : rows[i].list = Empty
  /\ \E cs \in {Compact([i \in InUse |-> IF rows[i].list = Empty THEN Gone ELSE rows[i]],
                        VE_ROW_CELL_COUNT)} : rows' = Padded(cs) /\ count' = Len(cs)
  /\ e_map' = e_map \ {rows[i].e : i \in {k \in InUse : rows[k].list = Empty}}
  /\ UNCHANGED <<lock, pc, trx, freed, crashed, ops>>

(* SelfGarbageCollect, once the vertex was deleted and no transaction can  *)
(* see it: lists and rows are freed; edge_count_ is left as it is.         *)
SelfGarbageCollect ==
  /\ ~crashed /\ NobodyInside /\ rows # <<>> /\ freed = {} /\ \A t \in Thread : ~trx[t].begun
  /\ \A i \in InUse : rows[i].list.by = NoTrx
  /\ freed' = {rows[i].e : i \in InUse}
  /\ rows' = [i \in InUse |-> [rows[i] EXCEPT !.list = Empty]]
  /\ UNCHANGED <<count, e_map, lock, pc, trx, crashed, ops>>

Next ==
  \/ \E t \in Thread :
       \/ \E e \in Edge : ProcessAddEdge(t, e) \/ ProcessEdge(t, e, Drop) \/ ProcessEdge(t, e, "set")
       \/ AllocateCellLink(t) \/ AllocateCellWrite(t) \/ AllocateCellCount(t)
       \/ ReadConnected(t) \/ ReadCount(t) \/ ReadCell(t) \/ ReadEnd(t)
       \/ Commit(t) \/ Abort(t)
  \/ \E i \in InUse : ScanCell(i)
  \/ SelfDefragment \/ SelfGarbageCollect

Spec == Init /\ [][Next]_vars

-----------------------------------------------------------------------------
(* "it is impossible to traverse to an uninitialized cell in               *)
(* ReadConnectedVertex() and ReadConnectedEdge()"                          *)
NoUninitializedCell == ~crashed

(* An edge has one cell, and it has one exactly while it is in the edge    *)
(* map, once its AllocateCell is through.                                  *)
OneCellPerEdge ==
  /\ \A i, j \in InUse : rows[i].e = rows[j].e => i = j
  /\ e_map = {rows[i].e : i \in InUse} \cup {pc[t].e : t \in {u \in Thread : pc[u].op \in {"lock", "write", "count"}}}

(* A read that does not abort returns every edge that is there once, and   *)
(* none that is not, save those written by another transaction meanwhile.  *)
Settled(t, e) ==
  /\ e \notin trx[t].touched
  /\ \A i \in InUse : rows[i].e = e => rows[i].list.by = NoTrx
  /\ \A u \in Thread : pc[u].op \in {"lock", "write", "count"} => pc[u].e # e

ReadsComplete ==
  \A t \in Thread : ReadDone(t) =>
    \A e \in Edge : Settled(t, e) =>
      Cardinality({r \in pc[t].ret : r[2] = e})
        = Cardinality({i \in InUse : rows[i].e = e /\ rows[i].list.val = "set"})

=============================================================================
