------------------------------ MODULE RowCells ------------------------------
(***************************************************************************)
(* The compaction that PropertyRowList::SelfDefragment                     *)
(* (layout/property_row_list.tpp) and TopologyRowList::SelfDefragment      *)
(* (layout/topology_row_list.cpp) share.  A list keeps its cells in rows   *)
(* of `width' cells; cell i (from 0) is cell i % width of row i \div       *)
(* width.  A cell that holds nothing any more is Gone.                     *)
(***************************************************************************)
EXTENDS Integers, Sequences, FiniteSets, SequencesExt

CONSTANT Gone

(* row_count: the rows that `count' cells take; never 0. *)
RowCount(count, width) ==
  LET full == count \div width
      rows == IF full * width # count THEN full + 1 ELSE full
  IN  IF rows = 0 THEN 1 ELSE rows

(* cur_row_count: the rows that stay. *)
CurRowCount(cur, width) == IF cur % width = 0 THEN cur \div width ELSE cur \div width + 1

(* empty_cell_queue: the positions of the empty cells, from the head. *)
EmptyCellQueue(cells) == SelectSeq([i \in 1 .. Len(cells) |-> i - 1], LAMBDA i : cells[i + 1] = Gone)

(* The loop "move cell from tail to empty cell": j is inverse_cell_index,  *)
(* row inverse_row_index, movable num_movable_cell.  A row index below 0   *)
(* fails a CHECK: the result is then the empty list.                       *)
RowAt(j, row, count, width) == IF j % width = width - 1 /\ j # count - 1 THEN row - 1 ELSE row

Moved(cells, at, q) == IF cells[at + 1] = Gone THEN cells ELSE [cells EXCEPT ![Head(q) + 1] = cells[at + 1]]

RECURSIVE MoveCells(_, _, _, _, _, _)
MoveCells(cells, q, j, row, movable, width) ==
  LET r == RowAt(j, row, Len(cells), width)
      at == r * width + (j % width)
      live == r >= 0 /\ cells[at + 1] # Gone
      q2 == IF live THEN Tail(q) ELSE q
      m2 == IF live THEN movable - 1 ELSE movable
  IN  CASE r < 0 -> <<>>
        [] q2 = <<>> \/ m2 = 0 \/ j = 0 -> Moved(cells, at, q)
        [] OTHER -> MoveCells(Moved(cells, at, q), q2, j - 1, r, m2, width)

(* The cells that are left, in the rows that stay. *)
CompactFrom(cells, q, width) ==
  IF q = <<>> THEN cells
  ELSE SubSeq(MoveCells(cells, q, Len(cells) - 1, RowCount(Len(cells), width) - 1,
                        Len(cells) - Len(q), width),
              1, Len(cells) - Len(q))

Compact(cells, width) == CompactFrom(cells, EmptyCellQueue(cells), width)

LiveCells(cells) == {c \in ToSet(cells) : c # Gone}

(* Reference: the cells that are left are the live ones, each once, and    *)
(* one that already stands in the part that is kept stays in place.        *)
CompactAgrees(cells, width) ==
  \E r \in {Compact(cells, width)} :
    /\ LiveCells(cells) = ToSet(r)
    /\ Len(r) = Cardinality(LiveCells(cells))
    /\ \A i \in 1 .. Len(r) : cells[i] # Gone => r[i] = cells[i]
    /\ Len(r) <= CurRowCount(Len(r), width) * width
    /\ CurRowCount(Len(r), width) <= RowCount(Len(cells), width)

=============================================================================
