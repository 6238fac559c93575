------------------------------- MODULE MemPool ------------------------------
(***************************************************************************)
(* The two memory containers on their next offsets: ConcurrentMemPool,     *)
(* which hands out single cells (layout/concurrent_mem_pool.tpp), and      *)
(* MVCCValueStore, which cuts a value into pieces and keeps them in a      *)
(* chain of cells (layout/mvcc_value_store.cpp).  A tid belongs to one     *)
(* thread and the shared list has a lock, so Get and Free are single       *)
(* steps; writing and reading the cells of a value is not.                 *)
(*                                                                         *)
(* A value is a sequence of bytes, the first of which is its type.         *)
(***************************************************************************)
EXTENDS Integers, Sequences, FiniteSets, FiniteSetsExt

CONSTANTS
  NumCells,    \* cell_count
  Thread,      \* the tids, 0 .. nthreads - 1
  BLOCK_SIZE,
  MEM_CELL_SIZE,
  Value,       \* the values that are stored: sequences of bytes
  Garbage,     \* what a byte holds that no InsertValue wrote
  MaxCalls     \* bound on the calls of a behaviour

Offset == 0 .. NumCells - 1
NumThreads == Cardinality(Thread)

(* "make sure that enough cells are available for all threads" *)
ASSUME PoolAssumption ==
  /\ Thread = 0 .. NumThreads - 1 /\ BLOCK_SIZE \in Nat /\ BLOCK_SIZE >= 2
  /\ NumCells > NumThreads * (BLOCK_SIZE + 2)
  /\ MEM_CELL_SIZE \in Nat \ {0, 1}
  /\ \A v \in Value : Len(v) >= 1

VARIABLES
  IsPool,        \* TRUE: ConcurrentMemPool, FALSE: MVCCValueStore
  next_offset,   \* next_offset_
  head, tail,    \* head_ and tail_ of the shared list
  block,         \* thread_local_block_
  mem,           \* attached_mem_
  held,          \* the headers handed out and not yet freed, with their values
  work,          \* the ReadValue of a reader, whose thread is immaterial
  exhausted,     \* an assert(... != tail_) failed
  calls          \* calls made, for MaxCalls

vars == <<IsPool, next_offset, head, tail, block, mem, held, work, exhausted, calls>>

(* ValueHeader::GetCellCount *)
GetCellCount(bytes) ==
  bytes \div MEM_CELL_SIZE + (IF (bytes \div MEM_CELL_SIZE) * MEM_CELL_SIZE # bytes THEN 1 ELSE 0)

Idle == [op |-> "idle"]

Init ==
  /\ IsPool \in BOOLEAN
  /\ next_offset = [i \in Offset |-> i + 1]
  /\ head = NumThreads * BLOCK_SIZE /\ tail = NumCells - 1
  /\ block = [t \in Thread |-> [block_head |-> t * BLOCK_SIZE,
                                block_tail |-> t * BLOCK_SIZE + BLOCK_SIZE - 1,
                                free_cell_count |-> BLOCK_SIZE,
                                get_counter |-> 0, free_counter |-> 0]]
  /\ mem = [i \in Offset |-> [b \in 1 .. MEM_CELL_SIZE |-> Garbage]]
  /\ held = {} /\ work = Idle /\ exhausted = FALSE /\ calls = 0

(* n links down the chain from offset o. *)
Follow(next, o, n) ==
  LET link[i \in 0 .. n] == IF i = 0 THEN o ELSE next[link[i - 1]] IN link[n]

(* The n cells of the chain that starts at o. *)
Chain(next, o, n) == [i \in 1 .. n |-> Follow(next, o, i - 1)]

(* The shared list has a cell left after n were taken. *)
Suffices(n) == \A i \in 1 .. n : Follow(next_offset, head, i) # tail

-----------------------------------------------------------------------------
(* Wrong variant: the block is not linked to them. *)
FetchedUnlinked(next, b) ==
  [next |-> next,
   block |-> [b EXCEPT !.free_cell_count = @ + BLOCK_SIZE, !.block_tail = Follow(next, head, BLOCK_SIZE - 1)],
   head |-> Follow(next, head, BLOCK_SIZE)]

(* Fetching BLOCK_SIZE cells of the shared list to the tail of the block.  *)
Fetched(next, b) ==
  [next |-> [next EXCEPT ![b.block_tail] = head],
   block |-> [b EXCEPT !.free_cell_count = @ + BLOCK_SIZE,
                       !.block_tail = Follow(next, head, BLOCK_SIZE - 1)],
   head |-> Follow(next, head, BLOCK_SIZE)]

Unfetched(next, b) == [next |-> next, block |-> b, head |-> head]

(* Taking n cells from the head of the block. *)
Take(t, n, f) ==
  /\ next_offset' = f.next /\ head' = f.head
  /\ block' = [block EXCEPT ![t] = [f.block EXCEPT !.block_head = Follow(f.next, @, n),
                                                   !.free_cell_count = @ - n,
                                                   !.get_counter = @ + n]]
  /\ UNCHANGED tail

(* ConcurrentMemPool::Get fetches when only head and tail are left,        *)
(* MVCCValueStore::Get when fewer than two would be left.                  *)
FewLeft(t, n) ==
  IF IsPool THEN next_offset[block[t].block_head] = block[t].block_tail
  ELSE block[t].free_cell_count < n + 2

GetLocal(t, n) ==
  /\ ~FewLeft(t, n)
  /\ Take(t, n, Unfetched(next_offset, block[t]))
  /\ UNCHANGED exhausted

GetFetching(t, n) ==
  /\ FewLeft(t, n) /\ (IsPool \/ n <= BLOCK_SIZE)
  /\ exhausted' = ~Suffices(BLOCK_SIZE)
  /\ IF Suffices(BLOCK_SIZE) THEN Take(t, n, Fetched(next_offset, block[t]))
     ELSE UNCHANGED <<next_offset, head, tail, block>>

GetGlobal(t, n) ==
  /\ ~IsPool /\ FewLeft(t, n) /\ n > BLOCK_SIZE
  /\ exhausted' = ~Suffices(n)
  /\ head' = IF Suffices(n) THEN Follow(next_offset, head, n) ELSE head
  /\ block' = [block EXCEPT ![t].get_counter = @ + n]
  /\ UNCHANGED <<next_offset, tail>>

Get(t, n) == GetLocal(t, n) \/ GetFetching(t, n) \/ GetGlobal(t, n)

(* The offset that Get returns. *)
Got(t, n) == IF ~IsPool /\ FewLeft(t, n) /\ n > BLOCK_SIZE THEN head ELSE block[t].block_head

-----------------------------------------------------------------------------
(* Wrong variant: a free is not counted. *)
AttachedUncounted(t, o, n) ==
  [next |-> [next_offset EXCEPT ![block[t].block_tail] = o],
   block |-> [block[t] EXCEPT !.block_tail = Follow(next_offset, o, n - 1), !.free_cell_count = @ + n]]

(* The chain of n cells from o is attached to the tail of the block. *)
Attached(t, o, n) ==
  [next |-> [next_offset EXCEPT ![block[t].block_tail] = o],
   block |-> [block[t] EXCEPT !.block_tail = Follow(next_offset, o, n - 1),
                              !.free_cell_count = @ + n,
                              !.free_counter = @ + n]]

(* m cells from the head of the block go to the tail of the shared list. *)
Returned(t, a, m) ==
  /\ next_offset' = [a.next EXCEPT ![tail] = a.block.block_head]
  /\ tail' = Follow(a.next, a.block.block_head, m - 1)
  /\ block' = [block EXCEPT ![t] = [a.block EXCEPT !.block_head = Follow(a.next, @, m),
                                                   !.free_cell_count = @ - m]]

Kept(t, a) ==
  /\ next_offset' = a.next /\ block' = [block EXCEPT ![t] = a.block]
  /\ UNCHANGED tail

TooMany(b) == IF IsPool THEN b.free_cell_count = 2 * BLOCK_SIZE
              ELSE b.free_cell_count >= 2 * BLOCK_SIZE

FreeGlobally(t, n) == ~IsPool /\ n > BLOCK_SIZE /\ block[t].free_cell_count + n >= 2 * BLOCK_SIZE

FreeLocal(t, o, n) ==
  /\ ~FreeGlobally(t, n)
  /\ \E a \in {Attached(t, o, n)} :
       IF TooMany(a.block) THEN Returned(t, a, IF IsPool THEN BLOCK_SIZE
                                               ELSE a.block.free_cell_count - BLOCK_SIZE)
       ELSE Kept(t, a)

FreeGlobal(t, o, n) ==
  /\ FreeGlobally(t, n)
  /\ next_offset' = [next_offset EXCEPT ![tail] = o]
  /\ tail' = Follow(next_offset, o, n - 1)
  /\ block' = [block EXCEPT ![t].free_counter = @ + n]

Free(t, o, n) == FreeLocal(t, o, n) \/ FreeGlobal(t, o, n)

-----------------------------------------------------------------------------
(* Cells a value takes: one object of the pool, or the cells of a value.   *)
Cells(v) == IF IsPool THEN 1 ELSE GetCellCount(Len(v))

(* InsertValue: bytes of v that go to its i-th cell, from byte value_off;  *)
(* byte 1 is the type.                                                     *)
ValueOff(i) == (i - 1) * MEM_CELL_SIZE

PieceLen(v, i) ==
  CASE i = 1 -> IF Len(v) - 1 < MEM_CELL_SIZE - 1 THEN Len(v) ELSE MEM_CELL_SIZE
    [] i # 1 /\ i = Cells(v) -> Len(v) - ValueOff(i)
    [] OTHER -> MEM_CELL_SIZE

Filled(m, v, chain) ==
  [o \in Offset |->
    IF \E i \in 1 .. Len(chain) : chain[i] = o
    THEN LET i == CHOOSE i \in 1 .. Len(chain) : chain[i] = o
         IN  [b \in 1 .. MEM_CELL_SIZE |-> IF b <= PieceLen(v, i) THEN v[ValueOff(i) + b] ELSE m[o][b]]
    ELSE m[o]]

Call == calls < MaxCalls /\ calls' = calls + 1

(* A header of a value, with the value it was made for. *)
InsertValue(t, v) ==
  /\ Call
  /\ Get(t, Cells(v))
  /\ IF exhausted' THEN UNCHANGED <<mem, held>>
     ELSE \E o \in {Got(t, Cells(v))} :
            /\ held' = held \cup {[head_offset |-> o, byte_count |-> Len(v), value |-> v]}
            /\ mem' = IF IsPool THEN mem ELSE Filled(mem, v, Chain(next_offset', o, Cells(v)))
  /\ UNCHANGED <<IsPool, work>>

FreeValue(t, h) ==
  /\ Call
  /\ Free(t, h.head_offset, Cells(h.value))
  /\ held' = held \ {h}
  /\ UNCHANGED <<IsPool, head, mem, work, exhausted>>

(* ReadValue follows the chain of a header cell by cell, without a lock. *)
ReadValue(h) ==
  /\ ~IsPool /\ work = Idle /\ Call
  /\ work' = [op |-> "read", of |-> h, at |-> h.head_offset, i |-> 1, content |-> <<>>]
  /\ UNCHANGED <<IsPool, next_offset, head, tail, block, mem, held, exhausted>>

ReadCell ==
  /\ work.op = "read" /\ work.i <= GetCellCount(work.of.byte_count)
  /\ work' = [work EXCEPT !.content = @ \o SubSeq(mem[work.at], 1,
                                                     PieceLen(work.of.value, work.i)),
                          !.at = next_offset[@], !.i = @ + 1]
  /\ UNCHANGED <<IsPool, next_offset, head, tail, block, mem, held, exhausted, calls>>

ReadDone ==
  /\ work.op = "read" /\ work.i > GetCellCount(work.of.byte_count)
  /\ work' = Idle
  /\ UNCHANGED <<IsPool, next_offset, head, tail, block, mem, held, exhausted, calls>>

(* After a failed assert nothing more happens. *)
Next ==
  /\ ~exhausted
  /\ \/ \E t \in Thread, v \in Value : InsertValue(t, v)
     \/ \E t \in Thread, h \in held : FreeValue(t, h)
     \/ \E h \in held : ReadValue(h)
     \/ ReadCell
     \/ ReadDone

Spec == Init /\ [][Next]_vars

-----------------------------------------------------------------------------
SharedCount ==
  NumCells - MapThenSumSet(LAMBDA t : block[t].free_cell_count, Thread)
           - MapThenSumSet(LAMBDA h : Cells(h.value), held)

(* Offsets stay in range, blocks count at least the two cells that Get     *)
(* leaves ("reserved for head and tail").                                  *)
TypeOK ==
  /\ head \in Offset /\ tail \in Offset
  /\ \A t \in Thread : /\ block[t].block_head \in Offset /\ block[t].block_tail \in Offset
                        /\ block[t].free_cell_count \in 2 .. 2 * BLOCK_SIZE
  /\ \A h \in held : h.value \in Value

(* The chain of a block ends at block_tail after free_cell_count cells,    *)
(* the shared one at tail_, and every cell is in one of them or in a value *)
(* (FreeLists): Get never hands out a cell that is in use, whichever       *)
(* thread freed it.                                                        *)
SharedChain == Chain(next_offset, head, SharedCount)
BlockChain == [t \in Thread |-> Chain(next_offset, block[t].block_head, block[t].free_cell_count)]
UsedChains == {Chain(next_offset, h.head_offset, Cells(h.value)) : h \in held}

ChainsEnd ==
  /\ \A t \in Thread : BlockChain[t][block[t].free_cell_count] = block[t].block_tail
  /\ SharedCount >= 1 /\ SharedChain[SharedCount] = tail

Lists == INSTANCE FreeLists WITH Cell <- Offset, shared <- SharedChain, local <- BlockChain,
                                 used <- UsedChains

(* Lists!Spec, with the test for an idle step first. *)
ImplementsFreeLists == Lists!Init /\ [][UNCHANGED vars \/ Lists!Next]_<<SharedChain, BlockChain, UsedChains>>

(* What is read of a value is what was inserted, however the other threads *)
(* get and free meanwhile, unless the value itself was freed.              *)
ReadsWhole ==
  work.op = "read" /\ work.i > GetCellCount(work.of.byte_count) /\ work.of \in held
    => work.content = work.of.value

(* The assert(... != tail_) of Get fails only when the shared list holds   *)
(* at most one cell more than the largest request: cells that the threads  *)
(* hoard in their blocks are all that can be free besides.                 *)
ExhaustedOnlyWhenFull ==
  exhausted => SharedCount <= 1 + Max({BLOCK_SIZE} \cup {Cells(v) : v \in Value})

(* GetUsage, by which UsageString and the status command report the        *)
(* container: the counters differ by the cells that are in use.            *)
CountersAgree ==
  ~exhausted =>
    MapThenSumSet(LAMBDA t : block[t].get_counter - block[t].free_counter, Thread)
      = MapThenSumSet(LAMBDA h : Cells(h.value), held)

=============================================================================
