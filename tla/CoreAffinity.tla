---------------------------- MODULE CoreAffinity ----------------------------
(***************************************************************************)
(* How CoreAffinity (base/core_affinity.hpp) deals out the cores of a      *)
(* machine to the six divisions of the expert threads, and which threads a *)
(* thread steals from.  A machine is [sockets, cores, smt]: sockets, cores *)
(* per socket and threads per core.  Lists and pools start at 1, cores and *)
(* threads at 0.                                                           *)
(***************************************************************************)
EXTENDS Integers, Sequences, FiniteSets, SequencesExt

NUM_THREAD_DIVISION == 6
NUM_RESIDENT_THREAD == 4
Divisions == 1 .. NUM_THREAD_DIVISION
TRAVERSAL == 3
division_numerator == <<3, 2, 1, 2, 2, 2>>
division_denominator == 12

PhysicalCores(m) == m.sockets * m.cores
LogicalCores(m) == PhysicalCores(m) * m.smt

(* core_by_numa: consecutive cores are taken from one socket. *)
core_by_numa(m, i) == (i % m.cores) * m.sockets + i \div m.cores

(* cur_div at the end of division i, with cur_step: a division without a   *)
(* core gets one.                                                          *)
NextDiv(phys, step, last) ==
  IF step \div division_denominator = last
  THEN [step |-> (last + 1) * phys, div |-> last + 1]
  ELSE [step |-> step, div |-> step \div division_denominator]

RECURSIVE DivEnds(_, _, _, _)
DivEnds(phys, i, step, last) ==
  IF i > NUM_THREAD_DIVISION THEN <<>>
  ELSE LET n == NextDiv(phys, step + division_numerator[i] * phys, last)
       IN  <<n.div>> \o DivEnds(phys, i + 1, n.step, n.div)

Ends(m) == DivEnds(PhysicalCores(m), 1, 0, 0)

(* init_potential_core_pool: the cores of every division, and their        *)
(* threads: first threads first.  CPUInfoUtil gives core c the logical     *)
(* cores c, c + PhysicalCores, ...                                         *)
CorePool(m, ends, i) ==
  [k \in 1 .. (IF i = 1 THEN ends[1] ELSE ends[i] - ends[i - 1]) |->
     core_by_numa(m, (IF i = 1 THEN 0 ELSE ends[i - 1]) + k - 1)]

ThreadPool(m, pool) == FlattenSeq([j \in 1 .. m.smt |-> [k \in 1 .. Len(pool) |-> pool[k] + (j - 1) * PhysicalCores(m)]])

(* get_num_thread_for_each_division.  The threads that are left go to the  *)
(* divisions in turn; the traversal division takes none beyond its second. *)
Base(level) == <<(level * 3) \div 2, level, (level + 1) \div 2, level, level, level>>

(* Wrong variant: the threads that the traversal division does not take    *)
(* are lost.                                                               *)
RECURSIVE AssignOnce(_, _, _)
AssignOnce(num, i, free) ==
  CASE i >= free -> num
    [] i < free /\ (i % 6) + 1 = TRAVERSAL /\ num[TRAVERSAL] = 2 -> AssignOnce(num, i + 1, free)
    [] OTHER -> AssignOnce([num EXCEPT ![(i % 6) + 1] = @ + 1], i + 1, free)

RECURSIVE Assign(_, _, _)
Assign(num, i, free) ==
  CASE i >= free -> num
    [] i < free /\ (i % 6) + 1 = TRAVERSAL /\ num[TRAVERSAL] = 2 -> Assign(num, i + 1, free + 1)
    [] OTHER -> Assign([num EXCEPT ![(i % 6) + 1] = @ + 1], i + 1, free)

NumThreads(n) == Assign(Base(n \div NUM_THREAD_DIVISION), 0, n % NUM_THREAD_DIVISION)

(* get_core_id_for_each_division takes the first ones of every pool; a     *)
(* pool that is too short is read past its end.                            *)
Fits(m, n) ==
  \E ends \in {Ends(m)} : \A i \in Divisions : NumThreads(n)[i] <= Len(CorePool(m, ends, i)) * m.smt

core_pool_table(m, n) ==
  [i \in Divisions |-> SubSeq(ThreadPool(m, CorePool(m, Ends(m), i)), 1, NumThreads(n)[i])]

(* load_core_to_thread_map. *)
thread_to_core_map(table) == FlattenSeq(table)

(* load_steal_list: the own division without itself, then the others, from *)
(* the first or, for an odd core, from the fourth on.                      *)
Concat(table, is) == FlattenSeq([k \in 1 .. Len(is) |-> table[is[k]]])
Without(is, i) == SelectSeq(is, LAMBDA j : j # i)

StealList(table, i, id) ==
  SelectSeq(table[i], LAMBDA c : c # id) \o
  (IF id % 2 = 0 THEN Concat(table, Without(<<1, 2, 3, 4, 5, 6>>, i))
   ELSE Concat(table, Without(<<4, 5, 6>>, i)) \o Concat(table, <<1, 2, 3>>))

(* load_expert_division and get_core_id_by_expert: the cores of a division *)
(* in turn; `at' is the place of its iterator.                             *)
CACHE_SEQ == {"LABEL", "HASLABEL", "PROPERTIES", "VALUES", "HAS", "KEY"}
CACHE_BARR == {"GROUP", "ORDER"}
TRAVERSALS == {"TRAVERSAL", "INIT", "INDEX"}
NORMAL_BARR == {"COUNT", "AGGREGATE", "CAP", "DEDUP", "MATH"}
NORMAL_BRANCH == {"RANGE", "BRANCH", "BRANCHFILTER"}

expert_division(type) ==
  CASE type \in CACHE_SEQ -> 1
    [] type \in CACHE_BARR -> 2
    [] type \in TRAVERSALS -> TRAVERSAL
    [] type \in NORMAL_BARR -> 4
    [] type \in NORMAL_BRANCH -> 5
    [] OTHER -> 6

get_core_id_by_expert(table, type, at) == table[expert_division(type)][(at % Len(table[expert_division(type)])) + 1]

-----------------------------------------------------------------------------
(* The pools are a partition of the cores of the machine, none empty, if   *)
(* there are as many cores as divisions.                                   *)
PoolsPartition(m) ==
  PhysicalCores(m) >= NUM_THREAD_DIVISION =>
    \E ends \in {Ends(m)} :
      /\ \A i \in Divisions : Len(CorePool(m, ends, i)) > 0
      /\ ToSet(FlattenSeq([i \in Divisions |-> CorePool(m, ends, i)])) = 0 .. PhysicalCores(m) - 1
      /\ Len(FlattenSeq([i \in Divisions |-> CorePool(m, ends, i)])) = PhysicalCores(m)

(* assert(sum == num_thread), and no division is left without a thread.    *)
SumOf(s) == FoldLeft(LAMBDA a, b : a + b, 0, s)
DivisionSums(n) == n >= NUM_THREAD_DIVISION => SumOf(NumThreads(n)) = n /\ \A i \in Divisions : NumThreads(n)[i] > 0

(* Threads run on distinct cores, every expert has a thread of its         *)
(* division, and every thread can take over the work of every other one.   *)
TableCovers(m, n, table) ==
  \E cores \in {thread_to_core_map(table)} :
    /\ Len(cores) = n /\ IsInjective(cores)
    /\ \A i \in Divisions : \A id \in ToSet(table[i]) : ToSet(cores) \ {id} \subseteq ToSet(StealList(table, i, id))
    /\ \A type \in {"HAS", "ORDER", "INIT", "CAP", "BRANCH", "ADDV"} : \A at \in 0 .. n :
         get_core_id_by_expert(table, type, at) \in ToSet(cores)
StealReachesAll(m, n) == n >= NUM_THREAD_DIVISION /\ Fits(m, n) => TableCovers(m, n, core_pool_table(m, n))

=============================================================================
