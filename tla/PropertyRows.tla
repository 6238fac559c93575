---------------------------- MODULE PropertyRows ----------------------------
(***************************************************************************)
(* PropertyRowList (layout/property_row_list.tpp): the properties of one   *)
(* vertex or edge, one cell per property key, the cells in rows, and a map *)
(* from key to cell once there are more than MAP_THRESHOLD cells.          *)
(*                                                                         *)
(* Every thread runs transactions, one operation after the other.  The     *)
(* sections under rwlock_ are single steps; an operation as a whole holds  *)
(* gc_rwlock_ for reading, and SelfDefragment and SelfGarbageCollect hold  *)
(* it for writing.  The version list of a cell is abstracted to its last   *)
(* committed value and the version of the transaction that is writing it:  *)
(* MVCCList models it in full.                                             *)
(***************************************************************************)
EXTENDS Integers, Sequences, FiniteSets, SequencesExt, RowCells

CONSTANTS
  Pid,             \* property keys, a sequence of which the first ones may be loaded
  Thread,
  ROW_CELL_COUNT,  \* the cells of a row
  NoMap, NoList,   \* null pointers of cell_map_ and of mvcc_list
  NoTrx,
  MaxOps           \* bound on the operations of a behaviour

MAP_THRESHOLD == ROW_CELL_COUNT

VARIABLES
  cells,     \* the cells in use: property_count_ of them
  cell_map,  \* cell_map_: key to position
  pc,        \* what each thread is at
  trx,       \* its transaction: the keys it has read, and those others ended a write of since it began
  gc,        \* the scan of the GC producer, and the defrag task
  gone,      \* SelfGarbageCollect freed the list
  crashed,   \* a CHECK failed or a null pointer was followed
  shrunk,    \* history: SelfDefragment left a map and fewer cells than MAP_THRESHOLD
  ops

vars == <<cells, cell_map, pc, trx, gc, gone, crashed, shrunk, ops>>

Keys == ToSet(Pid)
Absent == "absent"
Drop == "drop"
Empty == [val |-> Absent, by |-> NoTrx, new |-> Absent]    \* GetHead() == nullptr
Fresh(t) == [val |-> Absent, by |-> t, new |-> "set"]
Idle == [op |-> "idle"]
NewTrx == [ro |-> FALSE, begun |-> FALSE, has |-> {}, touched |-> {}, failed |-> FALSE]
ScanIdle == [at |-> 0, count |-> 0, gcable |-> 0, defrag |-> FALSE]

(* InsertInitialCell, for the first n keys; it builds no map. *)
Init ==
  /\ \E n \in 0 .. Len(Pid) :
       cells = [i \in 1 .. n |-> [pid |-> Pid[i], list |-> [Empty EXCEPT !.val = "set"]]]
  /\ cell_map = NoMap
  /\ pc = [t \in Thread |-> Idle] /\ trx = [t \in Thread |-> NewTrx]
  /\ gc = ScanIdle /\ gone = FALSE /\ crashed = FALSE /\ shrunk = FALSE /\ ops = 0

Running == ~gone /\ ~crashed
NobodyInside == \A t \in Thread : pc[t] = Idle

(* Snapshot of LocateCell: map, count (and tail) under rwlock_. *)
Start(t, op, p, want, ro) ==
  /\ trx[t].begun => ro = trx[t].ro
  /\ Running /\ pc[t] = Idle /\ ~trx[t].failed /\ ops < MaxOps
  /\ ops' = ops + 1
  /\ pc' = [pc EXCEPT ![t] = [op |-> op, pid |-> p, want |-> want, keys |-> want, map |-> cell_map # NoMap,
                              count |-> Len(cells), i |-> 1, ret |-> {}]]
  /\ trx' = [trx EXCEPT ![t].begun = TRUE, ![t].ro = ro]
  /\ UNCHANGED <<cells, cell_map, gc, gone, crashed, shrunk>>

(* The rest of LocateCell: the position of the cell of p, or 0.  The map   *)
(* is read as it is by now, the cells up to the count of the snapshot.     *)
Located(t, p) ==
  IF pc[t].map THEN IF p \in DOMAIN cell_map THEN cell_map[p] ELSE 0
  ELSE IF \E i \in 1 .. pc[t].count : cells[i].pid = p
       THEN CHOOSE i \in 1 .. pc[t].count : cells[i].pid = p ELSE 0

Finish(t) == pc' = [pc EXCEPT ![t] = Idle]
Fail(t) == Finish(t) /\ trx' = [trx EXCEPT ![t].failed = TRUE]

-----------------------------------------------------------------------------
(* ProcessModifyProperty *)
ModifyStart(t, p) == Start(t, "modify", p, {}, FALSE)

ModifyLocate(t) ==
  /\ pc[t].op = "modify" /\ Located(t, pc[t].pid) = 0
  /\ pc' = [pc EXCEPT ![t].op = "allocate"]
  /\ UNCHANGED <<cells, cell_map, trx, gc, gone, crashed, shrunk, ops>>

(* AppendVersion fails on a version of another transaction, and on one     *)
(* that was committed after the transaction began.                         *)
Appended(t, i, v) ==
  /\ cells[i].list.by \in {NoTrx, t}
  /\ cells' = [cells EXCEPT ![i].list = [@ EXCEPT !.by = t, !.new = v]]
  /\ Finish(t) /\ UNCHANGED trx

AppendFails(t, i) ==
  /\ cells[i].list.by # t
  /\ cells[i].list.by # NoTrx \/ cells[i].pid \in trx[t].touched
  /\ Fail(t) /\ UNCHANGED cells

AppendVersion(t, i, v) == Appended(t, i, v) \/ AppendFails(t, i)

ModifyFound(t) ==
  /\ pc[t].op = "modify" /\ Located(t, pc[t].pid) # 0
  /\ IF cells[Located(t, pc[t].pid)].list = NoList THEN Fail(t) /\ UNCHANGED cells
     ELSE AppendVersion(t, Located(t, pc[t].pid), "set")
  /\ UNCHANGED <<cell_map, gc, gone, crashed, shrunk, ops>>

(* AllocateCell: the cells that came after the snapshot are checked, then  *)
(* one is added; the map is built, or completed, from MAP_THRESHOLD on.    *)
AllocatedAlready(t) == \E i \in pc[t].count + 1 .. Len(cells) : cells[i].pid = pc[t].pid

MapWith(cs) ==
  IF Len(cs) - 1 < MAP_THRESHOLD THEN cell_map
  ELSE IF cell_map = NoMap
       THEN [p \in {cs[i].pid : i \in 1 .. Len(cs)} |->
               CHOOSE i \in 1 .. Len(cs) : cs[i].pid = p /\ \A j \in i + 1 .. Len(cs) : cs[j].pid # p]
       ELSE [p \in DOMAIN cell_map \cup {Last(cs).pid} |->
               IF p = Last(cs).pid THEN Len(cs) ELSE cell_map[p]]

AllocateCell(t) ==
  /\ pc[t].op = "allocate"
  /\ \/ /\ AllocatedAlready(t) /\ Fail(t) /\ UNCHANGED <<cells, cell_map>>
     \/ /\ ~AllocatedAlready(t)
        /\ \E cs \in {Append(cells, [pid |-> pc[t].pid, list |-> NoList])} :
             /\ cells' = cs /\ cell_map' = MapWith(cs)
             /\ pc' = [pc EXCEPT ![t].op = "publish", ![t].i = Len(cs)]
             /\ UNCHANGED trx
  /\ UNCHANGED <<gc, gone, crashed, shrunk, ops>>

(* "assign the mvcc_list after it has been initialized" *)
ModifyPublish(t) ==
  /\ pc[t].op = "publish"
  /\ cells' = [cells EXCEPT ![pc[t].i].list = Fresh(t)]
  /\ Finish(t)
  /\ UNCHANGED <<cell_map, trx, gc, gone, crashed, shrunk, ops>>

(* ProcessDropProperty, of a key that this transaction has read: "this     *)
(* function is called by .drop() step".                                    *)
DropStart(t, p) == p \in trx[t].has /\ Start(t, "drop", p, {}, FALSE)

DropProperty(t) ==
  /\ pc[t].op = "drop"
  /\ IF Located(t, pc[t].pid) = 0 \/ cells[Located(t, pc[t].pid)].list = NoList
     THEN crashed' = TRUE /\ UNCHANGED <<cells, pc, trx>>
     ELSE AppendVersion(t, Located(t, pc[t].pid), Drop) /\ UNCHANGED crashed
  /\ UNCHANGED <<cell_map, gc, gone, shrunk, ops>>

-----------------------------------------------------------------------------
(* GetVisibleVersion of the list of cell i: what thread t may see.  A      *)
(* version under way, or ended since the transaction began, may also hide  *)
(* the value or make the reader abort; ReadProperty returns anything for a *)
(* deleted property.                                                       *)
Visible(t, i) ==
  IF cells[i].list.by = t THEN {cells[i].list.new}
  ELSE (IF pc[t].op = "one" /\ cells[i].list.val = Drop THEN {Absent, "any", "abort"}
        ELSE {cells[i].list.val})
       \cup IF cells[i].list.by # NoTrx \/ cells[i].pid \in trx[t].touched THEN {Absent, "abort"} ELSE {}

(* A cell of a read: nullptr is "being edited by other transaction". *)
Saw(t, i) == IF cells[i].list # NoList THEN Visible(t, i) ELSE IF trx[t].ro THEN {Absent} ELSE {"abort"}

Ret(t, i, v) ==
  pc[t].ret \cup CASE v = "set" -> {<<i, cells[i].pid>>} [] v = "any" -> {<<0, cells[i].pid>>} [] OTHER -> {}

Visit(t, i, next) ==
  /\ \E v \in Saw(t, i) :
       IF v = "abort" THEN Fail(t)
       ELSE pc' = [pc EXCEPT ![t].ret = Ret(t, i, v), ![t].i = next, ![t].keys = @ \ {cells[i].pid}]
            /\ UNCHANGED trx
  /\ UNCHANGED <<cells, cell_map, gc, gone, crashed, shrunk, ops>>

(* ReadProperty of one key; ReadPropertyByPKeyList of several, by the map  *)
(* or over the cells; ReadAllProperty and ReadPidList over the cells.      *)
ReadProperty(t, p, ro) == Start(t, "one", p, {p}, ro)
ReadPropertyByPKeyList(t, keys, ro) ==
  Start(t, IF cell_map # NoMap THEN "keys" ELSE "cells", Pid[1], keys, ro)
ReadAllProperty(t, ro) == Start(t, "cells", Pid[1], Keys, ro)

Reading(t) == pc[t].op \in {"one", "keys", "cells"}
ReadDone(t) == pc[t].keys = {} \/ (pc[t].op = "cells" /\ pc[t].i > pc[t].count)

ReadKey(t) ==
  /\ pc[t].op \in {"one", "keys"}
  /\ \E p \in pc[t].keys : \E i \in {Located(t, p)} :
       IF i # 0 THEN Visit(t, i, 1)
       ELSE /\ pc' = [pc EXCEPT ![t].keys = @ \ {p}]
            /\ UNCHANGED <<cells, cell_map, trx, gc, gone, crashed, shrunk, ops>>

ReadCell(t) ==
  /\ pc[t].op = "cells" /\ ~ReadDone(t)
  /\ IF cells[pc[t].i].pid \in pc[t].keys THEN Visit(t, pc[t].i, pc[t].i + 1)
     ELSE /\ pc' = [pc EXCEPT ![t].i = @ + 1]
          /\ UNCHANGED <<cells, cell_map, trx, gc, gone, crashed, shrunk, ops>>

ReadEnd(t) ==
  /\ Reading(t) /\ ReadDone(t)
  /\ trx' = IF pc[t].op = "one" THEN trx ELSE [trx EXCEPT ![t].has = @ \cup {r[2] : r \in pc[t].ret}]
  /\ Finish(t)
  /\ UNCHANGED <<cells, cell_map, gc, gone, crashed, shrunk, ops>>

-----------------------------------------------------------------------------
OwnedBy(c, t) == c.list # NoList /\ c.list.by = t

(* The end of a transaction: its versions get a commit time, or go. *)
End(t, Ended(_)) ==
  /\ Running /\ pc[t] = Idle /\ trx[t].begun
  /\ cells' = [i \in 1 .. Len(cells) |->
                 IF OwnedBy(cells[i], t) THEN [cells[i] EXCEPT !.list = Ended(@)] ELSE cells[i]]
  /\ trx' = [u \in Thread |->
               IF u = t THEN NewTrx
               ELSE IF ~trx[u].begun THEN trx[u]
               ELSE [trx[u] EXCEPT !.touched = @ \cup {c.pid : c \in {d \in ToSet(cells) : OwnedBy(d, t)}}]]
  /\ UNCHANGED <<cell_map, pc, gc, gone, crashed, shrunk, ops>>

Commit(t) == ~trx[t].failed /\ End(t, LAMBDA l : [Empty EXCEPT !.val = l.new])
Abort(t) == End(t, LAMBDA l : [Empty EXCEPT !.val = l.val])

-----------------------------------------------------------------------------
(* GCProducer::scan_prop_row_list, which holds gc_rwlock_ for reading. *)
ScanStart ==
  /\ Running /\ gc.at = 0 /\ cells # <<>>
  /\ gc' = [gc EXCEPT !.at = 1, !.count = Len(cells), !.gcable = 0]
  /\ UNCHANGED <<cells, cell_map, pc, trx, gone, crashed, shrunk, ops>>

(* scan_mvcc_list cuts a list whose last committed version is a deletion   *)
(* once no running transaction began before it; a cell without a version,  *)
(* or without a list yet, counts as gcable.                                *)
Cut(c) ==
  IF c.list # NoList /\ c.list.val = Drop /\ \A t \in Thread : c.pid \notin trx[t].touched
  THEN [c.list EXCEPT !.val = Absent] ELSE c.list

ScanCell ==
  /\ Running /\ gc.at \in 1 .. gc.count
  /\ cells' = [cells EXCEPT ![gc.at].list = Cut(cells[gc.at])]
  /\ gc' = [gc EXCEPT !.at = @ + 1,
                      !.gcable = @ + IF Cut(cells[gc.at]) \in {NoList, Empty} THEN 1 ELSE 0]
  /\ UNCHANGED <<cell_map, pc, trx, gone, crashed, shrunk, ops>>

(* "a / W + (a % W > 0) ? 1 : 0" is 1 as soon as there is a cell. *)
RowsOf(n) == IF n \div MAP_THRESHOLD + (IF n % MAP_THRESHOLD > 0 THEN 1 ELSE 0) # 0 THEN 1 ELSE 0

ScanEnd ==
  /\ Running /\ gc.at > gc.count /\ gc.at > 0
  /\ gc' = [gc EXCEPT !.at = 0, !.count = 0, !.gcable = 0,
                      !.defrag = @ \/ RowsOf(gc.count) > RowsOf(gc.count - gc.gcable)]
  /\ UNCHANGED <<cells, cell_map, pc, trx, gone, crashed, shrunk, ops>>

Positions(cs) == [p \in {c.pid : c \in ToSet(cs)} |-> CHOOSE i \in 1 .. Len(cs) : cs[i].pid = p]

(* SelfDefragment: the empty cells go, the map is indexed anew. *)
DefragmentWith(cs, erased) ==
  /\ cells' = cs
  /\ IF cell_map = NoMap \/ erased = {} THEN UNCHANGED <<cell_map, crashed>>
     ELSE IF {c.pid : c \in ToSet(cs)} \subseteq DOMAIN cell_map \ erased
     THEN /\ cell_map' = [p \in DOMAIN cell_map \ erased |-> Positions(cs)[p]]
          /\ UNCHANGED crashed
     ELSE crashed' = TRUE /\ UNCHANGED cell_map
  /\ shrunk' = (shrunk \/ (cell_map # NoMap /\ Len(cs) < MAP_THRESHOLD))

(* Wrong variant: gc_rwlock_ is not taken. *)
SelfDefragmentUnlocked ==
  /\ Running /\ gc.at = 0 /\ gc.defrag
  /\ gc' = [gc EXCEPT !.defrag = FALSE]
  /\ IF \E i \in 1 .. Len(cells) : cells[i].list = NoList
     THEN crashed' = TRUE /\ UNCHANGED <<cells, cell_map, shrunk>>
     ELSE DefragmentWith(SelectSeq(cells, LAMBDA c : c.list # Empty),
                         {c.pid : c \in {d \in ToSet(cells) : d.list = Empty}})
  /\ UNCHANGED <<pc, trx, gone, ops>>

SelfDefragment ==
  /\ Running /\ NobodyInside /\ gc.at = 0 /\ gc.defrag
  /\ gc' = [gc EXCEPT !.defrag = FALSE]
  /\ IF \E i \in 1 .. Len(cells) : cells[i].list = NoList
     THEN crashed' = TRUE /\ UNCHANGED <<cells, cell_map, shrunk>>
     ELSE DefragmentWith(Compact([i \in 1 .. Len(cells) |-> IF cells[i].list = Empty THEN Gone
                                                            ELSE cells[i]], ROW_CELL_COUNT),
                         {c.pid : c \in {d \in ToSet(cells) : d.list = Empty}})
  /\ UNCHANGED <<pc, trx, gone, ops>>

(* SelfGarbageCollect, once the vertex or edge was deleted and no          *)
(* transaction can see it: every list is freed, then the rows.             *)
SelfGarbageCollect ==
  /\ Running /\ NobodyInside /\ gc.at = 0 /\ cells # <<>>
  /\ \A c \in ToSet(cells) : c.list = NoList \/ c.list.by = NoTrx
  /\ gone' = TRUE
  /\ crashed' = \E c \in ToSet(cells) : c.list = NoList
  /\ UNCHANGED <<cells, cell_map, pc, trx, gc, shrunk, ops>>

Next ==
  \/ \E t \in Thread :
       \/ \E p \in Keys : ModifyStart(t, p) \/ DropStart(t, p)
       \/ \E ro \in BOOLEAN :
            \/ \E p \in Keys : ReadProperty(t, p, ro)
            \/ \E p \in Keys : ReadPropertyByPKeyList(t, {p}, ro)
            \/ ReadAllProperty(t, ro)
       \/ ModifyLocate(t) \/ ModifyFound(t) \/ AllocateCell(t) \/ ModifyPublish(t)
       \/ DropProperty(t) \/ ReadKey(t) \/ ReadCell(t) \/ ReadEnd(t)
       \/ Commit(t) \/ Abort(t)
  \/ ScanStart \/ ScanCell \/ ScanEnd
  \/ SelfDefragment \/ SelfGarbageCollect

Spec == Init /\ [][Next]_vars

-----------------------------------------------------------------------------
(* "each pid should occupies only one cell": also when several threads add *)
(* the same key, and across defragmentations.                              *)
OneCellPerPid ==
  \A i, j \in 1 .. Len(cells) : cells[i].pid = cells[j].pid => i = j

(* The same, as long as no defragmentation left a map behind that is too   *)
(* small for AllocateCell to complete.                                     *)
OneCellUnlessShrunk == ~shrunk => OneCellPerPid

(* The map, once it is there, finds every cell.                            *)
MapFindsCells ==
  ~shrunk /\ cell_map # NoMap =>
    /\ DOMAIN cell_map = {c.pid : c \in ToSet(cells)}
    /\ \A p \in DOMAIN cell_map : cells[cell_map[p]].pid = p

(* The CHECKs of ProcessDropProperty and SelfDefragment hold, and          *)
(* SelfGarbageCollect follows no null list.                                *)
ChecksHold == ~shrunk => ~crashed

(* A read that does not abort returns a property once if it is there, and  *)
(* not if it is not, whatever cells are added meanwhile; left out are the  *)
(* keys another transaction wrote meanwhile and the value of a deleted     *)
(* property, for which ReadProperty has no return statement.               *)
Settled(t, p) ==
  /\ p \notin trx[t].touched
  /\ \A c \in ToSet(cells) : c.pid = p => c.list # NoList /\ c.list.by = NoTrx

ReadsComplete ==
  \A t \in Thread :
    ~shrunk /\ Reading(t) /\ ReadDone(t) =>
      \A p \in pc[t].want : Settled(t, p) =>
        Cardinality({r \in pc[t].ret : r[2] = p /\ r[1] # 0})
          = Cardinality({i \in 1 .. Len(cells) : cells[i].pid = p /\ cells[i].list.val = "set"})

=============================================================================
