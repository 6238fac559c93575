------------------------------ MODULE FreeLists -----------------------------
(***************************************************************************)
(* What the memory containers of a worker promise: ConcurrentMemPool       *)
(* (layout/concurrent_mem_pool.tpp) and MVCCValueStore                     *)
(* (layout/mvcc_value_store.cpp) share this behaviour.  Free cells stand   *)
(* in one shared list and in one list per thread; a thread takes cells     *)
(* from the head of its own list and gives them back at its tail, and      *)
(* cells move in batches between the two.  MemPool shows that the next     *)
(* offsets of both containers keep exactly these lists.                    *)
(***************************************************************************)
EXTENDS Integers, Sequences

CONSTANTS
  Cell,     \* the cells of the container
  Thread    \* the threads that use it

VARIABLES
  shared,   \* the shared list
  local,    \* the list of each thread
  used      \* the runs of cells handed out: one cell, or those of a value

vars == <<shared, local, used>>

SeqCells(s) == {s[i] : i \in 1 .. Len(s)}
NoRepeat(s) == \A i, j \in 1 .. Len(s) : s[i] = s[j] => i = j
Disjoint(s, r) == \A i \in 1 .. Len(s), j \in 1 .. Len(r) : s[i] # r[j]
Prefix(s, k) == SubSeq(s, 1, k)
Rest(s, k) == SubSeq(s, k + 1, Len(s))

(* The lists and the runs in use keep their types. *)
TypeOK ==
  /\ shared \in Seq(Cell) /\ local \in [Thread -> Seq(Cell)] /\ used \subseteq Seq(Cell)

(* A cell is in one list at one place, or in one run that is in use: Get   *)
(* hands out no cell twice.                                                *)
NoCellTwice ==
  /\ NoRepeat(shared)
  /\ \A t \in Thread : NoRepeat(local[t]) /\ Disjoint(local[t], shared)
  /\ \A t, u \in Thread : t # u => Disjoint(local[t], local[u])
  /\ \A r \in used : /\ r # <<>> /\ NoRepeat(r) /\ Disjoint(r, shared)
                     /\ \A t \in Thread : Disjoint(r, local[t])
  /\ \A r, s \in used : r # s => Disjoint(r, s)

Init == TypeOK /\ NoCellTwice /\ used = {}

(* Get: after k cells of the shared list were fetched, n are taken. *)
Get(t, n, k) ==
  /\ shared' = Rest(shared, k)
  /\ local' = [local EXCEPT ![t] = Rest(@ \o Prefix(shared, k), n)]
  /\ used' = used \cup {Prefix(local[t] \o Prefix(shared, k), n)}

(* Get of a large value: straight from the shared list. *)
GetShared(n) ==
  /\ shared' = Rest(shared, n)
  /\ used' = used \cup {Prefix(shared, n)}
  /\ UNCHANGED local

(* Free: the run r goes to the tail of the list of the thread, and k cells *)
(* from its head to the shared list.                                       *)
Free(t, r, k) ==
  /\ local' = [local EXCEPT ![t] = Rest(@ \o r, k)]
  /\ shared' = shared \o Prefix(local[t] \o r, k)
  /\ used' = used \ {r}

FreeShared(r) ==
  /\ shared' = shared \o r
  /\ used' = used \ {r}
  /\ UNCHANGED local

Next ==
  \/ \E t \in Thread, k \in 0 .. Len(shared) : \E n \in 1 .. Len(local[t]) + k : Get(t, n, k)
  \/ \E n \in 1 .. Len(shared) : GetShared(n)
  \/ \E t \in Thread, r \in used : \E k \in 0 .. Len(local[t]) + Len(r) : Free(t, r, k)
  \/ \E r \in used : FreeShared(r)

Spec == Init /\ [][Next]_vars

-----------------------------------------------------------------------------
AllCells ==
  SeqCells(shared) \cup (UNION {SeqCells(local[t]) : t \in Thread})
                   \cup (UNION {SeqCells(r) : r \in used})

(* No step of Get or Free loses a cell: free or in use, it stays in one of *)
(* the lists.                                                              *)
NoCellLost == [][AllCells' = AllCells]_vars

=============================================================================
