------------------------------ MODULE MCStorage -----------------------------
(***************************************************************************)
(* The containers of the storage for TLC: the memory pool, the two kinds   *)
(* of row lists, the two kinds of index, and samples for the algorithms    *)
(* that are functions.  They share no state, so that a behaviour is one of *)
(* one of them: `mode' says which, and the others stay where they began.   *)
(***************************************************************************)
EXTENDS MemPool

CONSTANTS RowThread, PRowOps, TRowOps, RowEdge, NoMap, NoList, NoTrx, NoCell, Gone,
          IndexElem, IndexLoaded, TopoUpdates, PropUpdates

VARIABLES mode, sample, p_cells, p_map, p_pc, p_trx, p_gc, p_gone, p_crashed, p_shrunk, p_ops,
          t_rows, t_count, t_map, t_lock, t_pc, t_trx, t_freed, t_crashed, t_ops,
          x_kind, x_clock, x_trx, x_store, x_buffer, x_list, x_table, x_topo, x_read, x_gc, x_passed, x_zombie,
          x_mixed, x_lost, x_reads, x_updates,
          i_val, i_writer, i_trx, i_clock, i_buffer, i_region, i_idx, i_unbuffered, i_off, i_updates

MCValue == {<<"a">>, <<"d", "e", "f", "g", "h">>}

P == INSTANCE PropertyRows WITH Pid <- <<"p", "q">>, Thread <- RowThread, ROW_CELL_COUNT <- 1, MaxOps <- PRowOps,
       cells <- p_cells, cell_map <- p_map, pc <- p_pc, trx <- p_trx, gc <- p_gc, gone <- p_gone,
       crashed <- p_crashed, shrunk <- p_shrunk, ops <- p_ops

T == INSTANCE TopologyRows WITH Edge <- RowEdge, Thread <- RowThread, VE_ROW_CELL_COUNT <- 2, MaxOps <- TRowOps,
       rows <- t_rows, count <- t_count, e_map <- t_map, lock <- t_lock, pc <- t_pc, trx <- t_trx,
       freed <- t_freed, crashed <- t_crashed, ops <- t_ops

X == INSTANCE TopoIndex WITH NumTrx <- 3, Elem <- IndexElem, Loaded <- IndexLoaded, Worker <- {1, 2}, Home <- <<1, 2, 1>>,
       MaxUpdates <- TopoUpdates, MaxReads <- 1,
       kind <- x_kind, clock <- x_clock, trx <- x_trx, store <- x_store, buffer <- x_buffer, list <- x_list,
       table <- x_table, topo <- x_topo, read <- x_read, gc <- x_gc, passed <- x_passed, zombie <- x_zombie, mixed <- x_mixed,
       lost <- x_lost, reads <- x_reads, updates <- x_updates

I == INSTANCE PropIndex WITH NumTrx <- 2, Elem <- IndexLoaded, Value <- {<<1, 1>>, <<1, 2>>}, Empty <- <<1, 0>>,
       Worker <- {1, 2}, Home <- <<1, 2>>, MaxUpdates <- PropUpdates,
       val <- i_val, writer <- i_writer, trx <- i_trx, clock <- i_clock, buffer <- i_buffer, region <- i_region,
       idx <- i_idx, unbuffered <- i_unbuffered, off <- i_off, updates <- i_updates

NoSample == [of |-> "none"]
Marks == UNION {[1 .. n -> BOOLEAN] : n \in 1 .. 6}
SampleKey == {<<1, n>> : n \in 1 .. 4}
Samples ==
  [of : {"cells"}, live : Marks, width : 1 .. 3]
    \cup {s \in [of : {"keys"}, keys : SUBSET SampleKey, op : I!RangeOps, lo : 0 .. 5, hi : 1 .. 5] : s.lo <= s.hi}

p_vars == <<p_cells, p_map, p_pc, p_trx, p_gc, p_gone, p_crashed, p_shrunk, p_ops>>
t_vars == <<t_rows, t_count, t_map, t_lock, t_pc, t_trx, t_freed, t_crashed, t_ops>>
x_vars == <<x_kind, x_clock, x_trx, x_store, x_buffer, x_list, x_table, x_topo, x_read, x_gc, x_passed, x_zombie,
            x_mixed, x_lost, x_reads, x_updates>>
i_vars == <<i_val, i_writer, i_trx, i_clock, i_buffer, i_region, i_idx, i_unbuffered, i_off, i_updates>>
mc_vars == <<mode, vars, p_vars, t_vars, x_vars, i_vars, sample>>

MCInit ==
  /\ mode \in {"pool", "properties", "edges", "topo index", "prop index", "samples"}
  /\ Init /\ P!Init /\ T!Init /\ X!Init /\ I!Init /\ sample = NoSample
  /\ mode # "pool" => IsPool
  /\ mode # "properties" => p_cells = <<>>
  /\ mode # "topo index" => x_kind = "V"
  /\ mode # "prop index" => \A e \in IndexLoaded : i_val[e] = <<1, 0>>

MCNext ==
  /\ UNCHANGED mode
  /\ \/ mode = "pool" /\ Next /\ UNCHANGED <<p_vars, t_vars, x_vars, i_vars, sample>>
     \/ mode = "properties" /\ P!Next /\ UNCHANGED <<vars, t_vars, x_vars, i_vars, sample>>
     \/ mode = "edges" /\ T!Next /\ UNCHANGED <<vars, p_vars, x_vars, i_vars, sample>>
     \/ mode = "topo index" /\ X!Next /\ UNCHANGED <<vars, p_vars, t_vars, i_vars, sample>>
     \/ mode = "prop index" /\ I!Next /\ UNCHANGED <<vars, p_vars, t_vars, x_vars, sample>>
     \/ mode = "samples" /\ sample = NoSample /\ sample' \in Samples
        /\ UNCHANGED <<vars, p_vars, t_vars, x_vars, i_vars>>

MCSpec == MCInit /\ [][MCNext]_mc_vars

-----------------------------------------------------------------------------
(* MemPool: offsets are in range, the chain of every block and the shared  *)
(* one end where their tails say, ReadValue gives back the bytes that      *)
(* InsertValue stored, the counters differ by the cells in use, and Get    *)
(* fails only when no more than the largest request is left to share.      *)
PoolSound ==
  mode = "pool" => TypeOK /\ ChainsEnd /\ ReadsWhole /\ CountersAgree /\ ExhaustedOnlyWhenFull

(* PropertyRows: no CHECK fails and no null list is followed whatever runs *)
(* between the steps of a writer, the map of a list finds every cell, a    *)
(* property stands in one cell until a compaction has left fewer cells     *)
(* than a map needs, and a read returns every property that was committed  *)
(* before it began and has not been changed since.  The compaction itself  *)
(* keeps every live cell once, for every pattern of empty cells.           *)
PropertyRowsSound ==
  /\ mode = "properties" => P!ChecksHold /\ P!MapFindsCells /\ P!OneCellUnlessShrunk /\ P!ReadsComplete
  /\ sample.of = "cells" =>
       P!CompactAgrees([i \in DOMAIN sample.live |-> IF sample.live[i] THEN i ELSE Gone], sample.width)

(* PropertyRows: every property stands in one cell.  This does not hold,   *)
(* see the README.                                                         *)
OneCellPerPid == P!OneCellPerPid

(* TopologyRows: no reader gets to a cell that has not been filled, an     *)
(* edge stands in one cell although two transactions may add it at once,   *)
(* and a read returns every edge that was committed before it began and    *)
(* not dropped since.                                                      *)
EdgeRowsSound == mode = "edges" => T!NoUninitializedCell /\ T!OneCellPerEdge /\ T!ReadsComplete

(* TopoIndex: the collector finds the transaction of every element that it *)
(* may merge, the table counts as many elements as are in the list, what   *)
(* was merged is what is there, and a read that no collection overlaps     *)
(* gives what its transaction sees (the elements excepted are named        *)
(* there).                                                                 *)
TopoIndexSound ==
  mode = "topo index" => X!NoZombieElement /\ X!CountsElements /\ X!MergedExactly /\ X!ReadsSnapshot

(* TopoIndex: no update is lost while the collector swaps the list.  This  *)
(* does not hold, see the README.                                          *)
NoElementLost == X!NoElementLost

(* PropIndex: reading a value gives the elements that have it, a predicate *)
(* of several values finds none that does not satisfy it and misses those  *)
(* only that it says, and reading the elements without the key gives those *)
(* (the ones excepted are named there), the count of a value is not below  *)
(* the number of its elements, and a range predicate takes the keys that   *)
(* Evaluate accepts.                                                       *)
PropIndexSound ==
  /\ mode = "prop index" => I!EqReadsExact /\ I!SeveralReadsExact /\ I!NoneReadsExact /\ I!CountNotBelow
  /\ sample.of = "keys" =>
       I!RangeAgrees(sample.keys, [op |-> sample.op, args |-> <<<<1, sample.lo>>, <<1, sample.hi>>>>])

(* PropIndex: EqReadsExact after a property was set to the value that it   *)
(* had.  This does not hold, see the README.                               *)
EqReadsRewritten == I!EqReadsRewritten

=============================================================================
