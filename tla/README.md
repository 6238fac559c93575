# TLA+ verification of G-Tran

G-Tran (`src/`) is a distributed in-memory graph database with multi-version
optimistic concurrency control, at the SERIALIZABLE and the SNAPSHOT level,
over RDMA or TCP. This directory holds TLA+ models of its parts, translated from
the source, the TLC runs that check them on small instances, and proofs that
TLAPS checks for every value of the constants. `PROJECT.json` maps every
modelling definition to the lines it stands for and lists runs, mutants,
findings, hazards and theorems.

    cd tla
    tlc -workers 2 -config RunningTrxListTwo.cfg RunningTrxList
    tlapm MVCCListProofs.tla

## 1. The system and its parts

| part | state | operations | what is hard |
|---|---|---|---|
| Coordinator (`core/coordinator.cpp`) | clock, request and answer queues | allocate timestamps, answer RCT queries, apply status updates, calibrate clocks | each queue has its own thread; an answer is used long after it was given |
| Worker (`driver/worker.hpp`) | transaction plans, pending RCT results | register queries, process timestamps, collect RCT lists, reply | begin, commit and reply of one transaction are done by four threads |
| Running list (`core/running_trx_list.cpp`) | linked list, min_bt_, copies on all workers | insert, erase, publish, scan | scan without a lock while minima move |
| Status table (`core/transaction_status_table.cpp`, stubs) | buckets of status and times | insert, modify, erase, remote read | asynchronous updates, lock-free remote reads, slot reuse |
| RCT, primitive RCT | commit time to transaction, action sets | insert, query, erase | queried by other workers while it grows |
| MVCC list (`layout/mvcc_list.tpp`) | items, head, tail, pre_tail, tmp_pre_tail | append, commit, abort, read | readers, a writer and the collector meet on one list |
| Row lists (`layout/*row_list*`) | cells in rows, maps | read, insert, modify, defragment | compaction under traffic; reads without the lock of the writers |
| Garbage collector (`layout/gc_*`) | task DAG, job queues | scan, spawn, block, execute, free | dependencies between erasing a vertex, its edges and its lists |
| Index store (`layout/index_store.cpp`) | sorted index, update buffers and regions | insert, move, read, merge | counts and elements follow different paths |
| Pools (`concurrent_mem_pool.tpp`, `mvcc_value_store.cpp`) | free lists per thread and shared | get, free | two linked lists cut and joined |
| Parser, plan (`core/parser.cpp`, `exec_plan.cpp`) | query DAG, experts, placeholders | parse, reorder, fill, next, abort | abort while other queries are under way |
| Experts and adapter (`expert/`, `core/experts_adapter.hpp`) | message tables, barrier counters | execute, barrier, validate, terminate | queries of a transaction run in parallel on all workers |
| Messages (`core/message.cpp`) | paths, history, branch infos | dispatch, branch, route | a barrier must know that nothing is missing |
| Mailboxes (`core/*_mailbox.cpp`) | ring buffers, pending queues | send, fetch, publish head | overwriting unread data |
| Clock (`utils/distributed_clock.cpp`) | offset, last value | get, measure, apply | monotone per worker only |
| Master, client, loading, base | | console, sockets, HDFS, MPI | not protocol |

A client sends a transaction to a worker, which parses it and asks its
coordinator for a begin time; the running list and the status table learn of it;
its queries travel through the experts of all workers, reading and appending
versions; a commit time is requested; the RCTs of all workers are asked for the
transactions that committed in between; every worker validates; a barrier
decides; every worker terminates and the client is answered. The collector
follows behind its watermark, the maximum over the workers of the smallest begin
time each of them runs (`UpdateGlobalMinBT`). With one worker that is below
everything that runs; with more it may be ahead of a running transaction
(finding 1), and the modules of what is collected take it as it is.

## 2. Modules

| module | models | proofs |
|---|---|---|
| `RunningTrxList` | `core/running_trx_list.cpp` and the begin-time queue | `RunningTrxListProofs` |
| `VersionChain` | abstract: what one version list promises | `AbstractSpecProofs` |
| `MVCCList` | `layout/mvcc_list.tpp`, `mvcc_definition.hpp`, `scan_mvcc_list`; refines `VersionChain` | `MVCCListInvariant`, `MVCCListProofs`, `MVCCListRefinement` |
| `TrxProtocol` | the life of a transaction at the SERIALIZABLE level on all workers | `TrxProtocolInvariant`, `TrxProtocolProofs`, `TrxProtocolSerializable` |
| `QueryParser`, `Experts`, `Barriers`, `MessageRoute`, `QueryExec` | from the steps of a query to its result: parser, experts, barriers, messages, the transaction plan on all workers | |
| `QueryReference` | what a transaction means, line by line on one graph: the reference for `QueryExec` | |
| `ValidationSteps` | which read of a step is validated against which recent action | |
| `GCTaskDAG` | producer, task DAG, queues and consumers of the garbage collector | |
| `FreeLists` | abstract: what a memory container promises | `AbstractSpecProofs` |
| `MemPool` | the two containers on their next offsets; refines `FreeLists` | |
| `PropertyRows`, `TopologyRows`, `RowCells` | the row lists and their compaction | |
| `TopoIndex`, `PropIndex` | the two kinds of index | |
| `RdmaMailbox`, `Datagrams` | the ring buffer with one-sided writes; notifications over datagrams | |
| `StatusTable` | the status table in its memory, with remote reads and erasure | |
| `Calibration`, `CoreAffinity`, `Ids` | clock calibration; thread and core tables; packing and placement of ids, division of memory | |
| `MC...` | instances for TLC | |

Each module names the code it translates in front of every definition. The
definitions marked "Fault" or "Wrong variant" are plausible bugs; `PROJECT.json`
uses them as mutants, to show that the properties depend on the code. No action
uses them.

**RunningTrxList.** `list`, `min_bt`, `max_bt` and `global_min_bt` are the members
of the same names. `pending` is the part of `pending_allocated_timestamp_` with
begin times, because a begin time that is queued and not inserted must be
protected as well. An RDMA write travels on `wire[i][w]`, in order (one queue
pair); over TCP the same slot is filled by the answer. `UpdateGlobalMinBT` reads
one slot per step, without the lock, as the code does, and keeps the maximum. The
test of the seven equal copies in a cache line (`Uint64CLine`) is abstracted to an
atomic slot.

**VersionChain and MVCCList.** `MVCCList` keeps the fields of the items and the
four pointers; `chain` is a history variable with the items in order, against
which the pointers are checked (`ListShape`). An action is one region under the
list's spinlock. Timestamps and transaction identifiers share one number space, as
with `TRX_ID_MASK`. Items come from a finite pool and return to it. `Sees` is the
walk of `SnapshotLevelGetVisibleVersion`. Transactions are reduced to their times
and status, each at home on a worker; `UpdateGlobalMinBT` raises the watermark to
the minimum of some worker, so it may pass a transaction that runs on another.
`ScanKeepsReads` and the refinement are about the transactions that it has not
passed. In `ScanMVCCList` the order of the code is kept: `gc_checkpoint->next` is
set to null before it is compared, so one branch is dead. `VersionChain` has no
pointers: a sorted sequence of committed versions, one writer, and a floor from
which on a collection changes nothing that is found. The refinement mapping takes
the committed prefix of `chain`, the owner of the tail and `global_min_bt_`.

**TrxProtocol.** A key is a version list with a loaded version, reduced to its
committed versions and the owner of its uncommitted tail, which `MVCCList`
justifies. The steps are those of the threads: `ProcessTimestampRequest`
(coordinator), `BeginTime` and `CommitTime` (timestamp consumer),
`ProcessQueryRCTRequest` and `RecvRCTTids` (RCT threads),
`ProcessTrxTableWriteReqs` (asynchronous status updates), `Execute`, `Read`,
`Write` (expert threads, queries in parallel), `StartValidation`,
`StepValidation`, `ValidOptimisticValidation` and `ValidOptimisticRead`
(validation), `PostValidation`, `TerminateVersion` (one list at a time), `Exit`,
`ReplyClient`. A timeout (`OPT_VALID_TIMEOUT_`) may strike whenever a waited-for
transaction is still validating. `Locks` says whether `WritePriorRWLock` locks at
all: it calls pthread inside `assert`, so a build with `NDEBUG` has no such lock.
Simplifications, all in the data: clocks are perfectly calibrated (one clock);
the action set of a transaction on a worker is the set of its keys there, the
input set likewise (`ValidationSteps` has the table of step and primitive
types); no garbage collection (keys always have a version); the failing
operation, its reply and `TrxPlan::Abort` are one step; the statuses of several
conflicting transactions are read in one step of `StepValidation`, which gives
nothing away because those found validating are asked again later; index updates
at commit are in `TopoIndex` and `PropIndex`.

**QueryExec and below.** A transaction is a sequence of lines, a line a sequence
of steps. `QueryParser` turns the steps into experts with the parameter layout of
the source and reorders them as `ReOrderSteps` does. `Experts` is what each expert
computes on the data of one message, `Barriers` what a barrier gathers and emits,
`MessageRoute` how a result is cut (`MaxData`), sent, branched and counted. The
searches for the label of an `addE()` do not advance their iterator
(`message.cpp:217-228` and two like it), so they see the first entry of the
history only. When that is not the label, the thread stays in the loop, with all
that it had to do (`Lost`); with two labels the end that has the other one is
never assigned, and the edge gets whatever vertex id is there, the constant
`Uninit`. `QueryExec` runs the transaction: the network is a bag, because with
work stealing and several threads two messages of a node may be taken in any
order; taking a message with all it sends is one step, since the table entry is
locked; a message that is not due is thrown back by the code and waits here. A
fault makes an update ("process"), the validation ("validate") or the addition of
an edge that another transaction is adding ("sameEdge") fail, on either worker and
at any time. `QueryReference` gives the same transaction its meaning without
messages, and `ResultCorrect` compares the two, for an `addE()` where the labels
it names are the first of their query. `Experts` keeps the quirk of `as()`:
`value_pos` counts from the first value of the current pair but indexes all pairs
built so far (`as_expert.hpp:77-110`), so a value repeated in a later pair lands
in the history of an earlier one. Of `where(within(k1, k2))` the parser makes one
condition with both keys, whose values the expert takes together.

**GCTaskDAG.** The transactions that add, drop and touch, the scanning producer
with its open jobs and its DAG of tasks, the queues and the consumers. A row list
is "none", "full", "gcable", "cut" or "freed"; its versions are `MVCCList`'s
subject. A task is named by its type and id. A job leaves for the consumers when its
tasks have come to the cost threshold of its kind; `VertexReclaimed` says that
nothing of a cut vertex is left for ever but in a job that stays below it. Here the
watermark passes a dropped vertex only when no transaction is at work on it.

**Storage and services.** `MCStorage` and `MCServices` put modules side by side
that share no state: a behaviour is one of one of them, chosen by `mode` in the
initial state. `TopoIndex`, `PropIndex` and `StatusTable` place transactions on two
workers and collect by the minimum of either. `TopoIndex` keeps in `passed` the
running transactions that a collection had below its watermark, and claims nothing
of their reads; `StatusTable` claims that a slot answers for its transaction as
long as no watermark has passed it (`Protected`). `PropIndex` reads by every kind of
predicate. `Datagrams` has the failures of polling and of posting a receive again,
and the receiving thread that stops after `MAX_FAILED` of them in a row;
`held` has the nodes whose finished message stayed behind in such a failure.
`ValidationSteps` says exactly which pairs of a step and a change are not found
(`LeftOut`). The pure algorithms (compaction, id packing, core tables,
validation tables) are checked there on samples against their definitions.

## 3. Runs

| run | instance | shows |
|---|---|---|
| `rtl` | 2 workers, begin times to 2 | minima safe and rising, copies never ahead, watermark never going back; every begin time is in the end below every watermark |
| `rtl_global` | 2 workers | violation: the watermark is a maximum, not a minimum |
| `mvcc_property` | 3 items, 3 transactions on 2 workers, times to 5 | pointers, items, lifetimes, the walk; the collector changes no read at or above its watermark; refinement of `VersionChain` |
| `mvcc_edge_gc` | the same as an edge list | violation: the collector removes a version in use |
| `trx_one` | 1 worker, write skew with a write-write conflict, a reader of both keys; optimistic options on, and off for the first two | serializable in commit order; nothing left behind, CHECKs of the status, waits only for older transactions |
| `trx_two` | 2 workers, both transactions write on both | versions in commit order, nothing left behind, CHECKs of the status, waits only for older transactions; every transaction is answered |
| `trx_two_skew` | 2 workers, write skew | violation: both commit |
| `query` | 35 transactions on 2 workers, messages of size 3, faults in 12 of them | what commits returned and left what its steps mean; all workers end alike; no table entry or plan is left; every transaction is answered or meets one of three dead ends, each of which `EndsAlike` confines to its cause |
| `query_same_edge` | an `addE()` while another transaction adds the same edge | violation: the abort statement waits for a status that nobody sets |
| `gc` | 2 vertices, 3 edges, 2 consumers, 4 operations | a list is freed alone; jobs, tasks and edge maps agree; no CHECK fails; every cut vertex is given back, but for tasks in jobs below their threshold |
| `storage` | 10 cells and 2 threads; 2 threads with 3 operations on rows; 2 elements with 2 or 3 updates on the indexes | the pool implements `FreeLists`; one cell per property or edge; indexes return what was committed, with the exceptions of section 4; compaction and range reads agree with their definitions |
| `services` | a ring of 16 bytes with words of 2; tables of small loads; 2 clocks | every message once and whole; the status table answers for the right transaction; bounded skew; id, memory and thread tables agree with their definitions; the validation finds every change but the pairs it leaves out |

**Bounds.** Two workers already have a remote slot, a remote RCT and a remote
vote; a third adds no new kind of step. Three items and three transactions let a
list hold a cut version, a committed one and a tail, with a fourth role played by
a reader; the items are interchangeable, so the run takes them up to symmetry,
which is sound because its properties are invariants and action properties. Two
keys and three transactions give the two-edge dependency cycles, a write-write
conflict inside one, and a reader of both keys. The times of `TrxProtocol` are as
many as the transactions can use (`MaxTS`), so the clock is never the reason a
case is missing; in the other modules it bounds the run. In `query` a size of
three makes the results of most steps split, so that paths, branches and barriers
have something to count; `Uninit = 3` lets the end of an edge that was never
assigned be a vertex that exists, so that the edge is added. In `gc` four
operations suffice to drop a vertex with edges whose deletion is already under
way; the thresholds are 1 for some kinds of job and 2 or 3 for others, so that
jobs both leave at once and wait. Two workers let the watermark of
`mvcc_property`, `storage` and `services` be ahead of a running transaction. The
loads of the status table take one bucket of two slots and one indirect bucket
over their end, by local, RDMA and TCP reads. Two receives and two failures in a
row (`MaxWR`, `MAX_FAILED`) let the datagrams lose a receive and stop. The ring is
small enough to wrap with every message and large enough for two.

**Deadlock** is checked wherever the model does not end by its bounds. It is off
in the `MVCCList` runs, where all transactions finish and the clock has a bound;
in `trx_two`, `query` and `gc`, where a stuck state shows as a violation of the
liveness property itself; and in `storage` and `services`, whose threads stop
after a number of operations (`RingSound` says that the ring itself never wedges).

**Fairness.** `RunningTrxList`: the timestamp consumer, the NIC and the collector
loop forever, and a running transaction finishes (that is what `trx_two` shows);
clients owe nothing. `TrxProtocol`: weak fairness of the whole next-state
relation: every behaviour is finite apart from idling, because every step uses up
a timestamp, a message, an operation or a vote, so this says only that some
thread runs as long as one can. `QueryExec`: the same, the threads poll.
`GCTaskDAG`: the producer's loop and the consumers' loops keep running; the
transactions owe nothing.

## 4. Findings and observations

Four runs disagree with what the repository says of itself; `PROJECT.json`
quotes the lines.

1. `UpdateGlobalMinBT` takes the maximum of the workers' minima (`rtl_global`).
2. For edges the collector does not stop at the first version in use
   (`mvcc_edge_gc`).
3. SERIALIZABLE on two workers: a commit time exists before its transaction is
   in the RCT; a query in between misses it, and write skew commits
   (`trx_two_skew`).
4. An edge that another transaction is adding: the failing return of `ProcessAddE`
   does not ask for the status ABORT, and the abort statement waits for it without
   end (`query_same_edge`).

The modules state further properties that do not hold of the code, for a reader
who wants to see the behaviour. Each is an invariant or a property of its module;
put it in the cfg of the run that extends the module, with the change named.

| property | where the code departs | change |
|---|---|---|
| `MVCCList!SnapshotReadsRepeat` | `mvcc_list.tpp:193`: a tail whose owner has an earlier commit time is passed by | none |
| `TrxProtocol!OutcomeInStatusTable` | `validation_expert.cpp:396`: an abort by an optimistic wait does not reach the status table | none |
| `TrxProtocol!NoOrphanVersion` | `write_prior_rwlock.cpp:29`: the locks live inside `assert`; `CMakeLists.txt:26` asks for a Release build | `Locks = FALSE` |
| `QueryExec!Answered` | `message.cpp:413-477`: a union inside a branch | `Transactions <- NestedUnion` |
| `QueryExec!ResultCorrect` | `as_expert.hpp:77-110`: a value repeated in a later pair | `Transactions <- RepeatedAs`, `Faults <- NoFault` |
| `QueryExec!AbortReplacesCommit` | `exec_plan.cpp:60`: a FEED message with an uninitialised `parent_nid` comes after the abort | `CapOnly`, `ValidateFault` |
| `GCTaskDAG!UpstreamCountHolds` | `gc_producer.cpp:426-427` | `MCThresholdHigh`, `MaxOps = 3` |
| `PropertyRows!OneCellPerPid` | `property_row_list.tpp:22` | one thread, `PRowOps = 6` |
| `TopoIndex!NoElementLost` | `index_store.hpp:123-130` | none |
| `PropIndex!EqReadsRewritten` | `index_store.hpp:146` | none |
| `StatusTable!ReadOnlyListed` | `transaction_status_table.cpp:115-116, 140-141` | none |
| `ValidationSteps!EveryChangeCaught` | the pairs of `LeftOut`, below | none |

Smaller departures met while modelling, kept as they are in the models:

- parser: `ParseHas` moves triples by `1 + 3*i` (`parser.cpp:841`); `ReOrderSteps`
  may move `and()` or `where(query)` in front of the `as()` it uses;
- messages: the label of an `addE()` is found only when it is the first of its
  history, and otherwise the thread is lost or an end is not assigned
  (`message.cpp:217-228`; `LabelsFirst` in `ResultCorrect`, `ThreadsLost` in
  `EndsAlike` and `Answered`);
- experts: `limit(0)` is unlimited; `order()` keeps one history; a `where` on an
  aggregate that stays empty is thrown back forever, and so is a late second
  abort message, which `NothingLeft` does not count, nor the data of aggregates
  (`DeleteAggData` knows the keys of the first query only) and the input sets;
  `GetNodeId` is -1 for the value of a property;
- validation (`LeftOut`): an inserted or deleted vertex or edge is asked only of a
  `g.V()` or `g.E()` without index, not of traversals, `hasLabel` or the reads of a
  deleted element; a `g.V()` with an index (`init_expert.hpp:92, 110-131`) is asked
  about no property at all (`validation_expert.cpp:196-213`); a property set for the
  first time counts as a modification, which `hasKey`, `hasNot` and `key` are not
  asked about; `values()` and `properties()` of all keys and `hasValue` pass
  everything. `ConflictCaught` says that a change passes if and only if it is one of
  these;
- row lists: a deleted property of a reader lacks a `return`
  (`property_row_list.tpp:200-201`); an optimistic pre-read may look at a cell
  that has been given back;
- vertex and edge index: what is appended while the collector walks the list may be
  lost (`lost`); with a watermark ahead of a running transaction, the collector merges
  what that one must not see, and merges a deletion before the addition it undoes
  (`passed`, `mixed`);
- property index: `count_map` is never decremented (`index_store.cpp:949-958`);
  range predicates ignore the update region; ANY, NEQ and WITHIN read the updates
  value by value, so that an element which moved from one value of the predicate to
  another may be taken out again (`Crossed`), and ANY finds elements without the
  property once they stand under the empty value (`UnderEmpty`); buffers of aborted
  transactions stay;
- collector: the operator precedence of the row count (`gc_producer.tpp:44-50`);
  line 120 of `gc_producer.tpp` cannot be reached;
- status table: over TCP the commit time is read before the status
  (`coordinator.cpp:306-307`), so a VALIDATING or COMMITTED may come without it
  (`CtWithStatus`); a transaction that the watermark has passed may find the slot of
  another erased; the slot of a read-write transaction without queries is not
  given back (`worker.hpp:924-932`); the TCP server sends an uninitialised
  status for an unknown transaction;
- mailboxes: a message larger than the ring less its threshold waits forever;
  `ZMQ_DONTWAIT` drops; a notification that is sent again after a failed poll
  arrives twice; when a receive cannot be posted again after the last packet of a
  message, that message stays in the map, the next packet of its node pushes it out
  and is itself thrown away (`rdma.hpp:216-219`), so that the message after that one is
  incomplete or mixed (`held`);
- clock: `assert(last_ts_ < ret)` compares a value with its own maximum; the
  fastest clock of the calibration is only so up to the delay
  (`coordinator.cpp:172`). The edges of `GetTimestamp` itself, whose high bits and
  progress are asserted only (`distributed_clock.cpp:36-42`), are not modelled.

## 5. Proofs

The theorems hold for every value of the constants under the named assumptions of
the modules that declare them (`MaxBTAssumption`, `TrxAssumption`, ...), which TLC
evaluates in the runs; the theorems about the abstract specifications, which the
runs reach through INSTANCE, name their hypotheses (`ConstantsOK`). Each proof
shows that an inductive invariant holds initially and is preserved by every
action, one lemma per action.

`RunningTrxListProofs`, for any non-empty set of workers and any `MaxBT`:
`TypeCorrect`, `ListAlwaysOrdered`, `LocalMinBTIsSafe`, `MinBTMonotone`,
`PublishedIsSafe`, `WatermarkMonotone`, and, for one worker,
`OneWorkerWatermarkSafe`. `LocalMinBTSafe` is not inductive: that the minimum is
below what is still queued when the list runs empty needs the queue to be sorted
and behind `max_bt_`. `ListOrdered` says so for list, queue, `max_bt_` and clock,
is inductive with `TypeOK`, and gives both `LocalMinBTSafe` and the monotony of
the minimum. `PublishedNotAhead` follows from monotony: what was sent can only be
behind. That the watermark never goes back is not obvious from the code, which
assigns the result of a scan without comparing it with the last one: a scan must find
again what an earlier one found. `SlotsInOrder` says that the writes to a slot land in
the order of their values, so that no slot falls; `ScanBehind` that the watermark is
in some slot still, and that a scan under way has reached it or has that slot before
it. With one worker the largest minimum is
its own, and the watermark is safe; with two workers `rtl_global` shows that it is
not.

`AbstractSpecProofs` about `VersionChain`, for any transactions, values and times:
`TypeCorrect`, `VersionsAlwaysSorted` and `AlwaysOneAnswer`. The order of the
versions is inductive with `TypeOK` and gives that no begin time finds two values.
That it finds one is shown by a second invariant, `SomeAnswer`, inductive given
the order: a commit is found from its time on and changes nothing before it
(`CommitFinds`); what the collector leaves either starts too late, so that nothing
is found, or still holds the version that was found. The largest index of a
version not younger than the begin time never has to be constructed, which would
need an induction over the list.

`MVCCListInvariant` and `MVCCListProofs`, for any pool of items, transactions,
values and times: `TypeCorrect`, `PointersDescribeList`, `ItemsHeldOnce`,
`LifetimesAlwaysAdjacent`, `WalkAlwaysStops` and, for lists of properties,
`ScanAlwaysKeepsReads` (for edges `mvcc_edge_gc` refutes it). These hold for any number
of workers, the last one for the transactions that the watermark has not passed;
`OneWorkerKeepsAllReads` adds that with one worker it passes none that runs
(`Watermark`). The invariant is `TypeOK`, the four statements about the list together
(`Shape`) and `Times` (every time is behind the clock, and the writer of the tail is
running). The four are
inductive only together: committing sets `end_time` through `pre_tail_`, so the
lifetimes depend on the pointers, and an abort returns the item that the
partition is about. `Times` is what makes a new version younger than the last one.
`MVCCListRefinement` proves `PropertyListImplements`: the initial states map to
initial states of `VersionChain` and every step to a step or a stutter, with a
watermark that may be ahead of what runs.

`AbstractSpecProofs` about `FreeLists` (its instance `Lists`), for any cells and
threads: `CellsHeldOnce` and `CellsNotLost` of the abstract container, which rest
on lemmas about joining and cutting sequences without repetition. `MemPool`
inherits them through the refinement that `storage` checks.

`TrxProtocolInvariant` and `TrxProtocolProofs`, for any workers, transactions,
keys and placement, with or without the two optimistic options and for any
transactions' reads and writes: `VersionsAlwaysInCommitOrder`,
`StatusChecksAlwaysHold`, `WaitsAlwaysForOlder` and, where the locks lock
(`Locks`), `NoVersionOrphaned`. None of the four is inductive; `IInv` relates what
the threads of several workers know of one transaction:

| conjunct | says | needed for |
|---|---|---|
| `Phases` | which operations run and have run in which part of the plan | no operation writes once the commit time is asked for |
| `Statuses`, `Updating` | what the status table says in each part of the plan, and which updates are still under way | the CHECKs: an abort under way and a commit exclude each other, because the abort has a vote of its own |
| `Voting`, `Terminating`, `Left` | votes, outcome and termination agree; a worker that has left saw ABORT and waited for the operations there | no version appears after the terminate expert has passed |
| `Pending` | a timestamp is queued once, at the home of a transaction that asked for it | a commit time that is handed out and not yet in the table |
| `Asked`, `Recent`, `ReadAhead` | every worker answers once; what an RCT and its answers hold, and what was read ahead of its commit, has a fixed, earlier commit time | both waits |
| `Handed`, `Owned` | all times come from the clock; the owner of a tail has its commit time, queued or in the table, above the last committed version | the order of the versions |

`Owned` carries the argument of the first theorem: between the moment a commit time
is handed out and the moment each list is committed, other transactions commit on
other lists, and on the list itself nobody can, because its tail is taken. `IInv`
has no bound on the timestamps, so it does not use `MaxTS`.

`TrxProtocolSerializable` proves `OneWorkerSerializable`: with one worker, for any
transactions and keys and for every setting of the options and of `Locks`, the
committed transactions are serializable in the order of their commit times
(`SerializableInCommitOrder`). With two workers it is false (`trx_two_skew`). The
invariant `SInv` is inductive given `IInv`:

| conjunct | says | needed for |
|---|---|---|
| `NoWait`, `Ordered` | nobody waits for another worker's RCT; the queue of the only worker rises, and lies above every time already processed | a commit time enters the RCT before any later one looks there |
| `Apart`, `Complete` | commit times are no begin times; who has a commit time is in the RCT, and in the list of every later one whose range holds it | the validation sees all that it must see |
| `Versioned`, `Standing` | committed versions are those of committed transactions, in order; what was written is the tail until it is committed | a reader's walk ends at the last writer before its begin time |
| `Reading` | what was read is the last write before the begin time among all that may still commit; its writer has committed or is waited for | nothing older than the begin time was missed |
| `Passed` | a validation that has passed its step found its conflicts aborted, or waits for them | nothing between begin and commit time was missed |

`SerialOrder` combines them: a write that committed before the point of `t` has its
commit time either below the begin time of `t`, and `Reading` says that `t` read it or
a later one, or above, and then it is in the list of `t` by `Complete`, hence a
conflict, hence aborted by `Passed`. `Complete` is the conjunct that two workers
break: there a commit time can be handed out and not yet be in the RCT that a later
transaction queries.

## 6. Only model-checked

- All liveness, and `ENABLED`: outside what the installed provers do.
- Serializability with more than one worker (`trx_two_skew` refutes it). `trx_one`
  checks both settings of the options together (`SerializableWithOptions`), the
  theorem says `SerializableInCommitOrder` of each.
- The bound `MaxTS` on timestamps in the type invariant of `TrxProtocol`, which
  counts the transactions.
- `MemPool`'s refinement of `FreeLists`, `PropertyRows`, `TopologyRows`,
  `StatusTable`, `QueryExec` and the modules below it: walks over chains of
  offsets or buckets, compaction, and results of queries are defined by recursion
  or by folds over data, and what a recursive definition computes for every input
  needs an induction that the installed provers cannot be given.
- `GCTaskDAG`: its graph of tasks is updated by folds over the tasks that a scan
  finds, with the same consequence.
- `RdmaMailbox`, `Datagrams`, `Calibration`, `TopoIndex`, `PropIndex`,
  `CoreAffinity`, `Ids`, `ValidationSteps`: checked on the instances of `services`
  and `storage`. The last three are pure functions, compared with their definitions
  on samples.

## 7. Not modelled

Tokenising and formatting of queries, the console, HDFS and MPI loading, socket
and RDMA set-up, the emulation mode, monitoring and the vendored libraries: input
and output with no protocol of their own. The lists of vertices and edges in
`data_storage.cpp` are covered only where another module uses them (`GCTaskDAG`,
`QueryExec`); `PROJECT.json` lists what is left out of each part. Process failure
is not modelled because the code does not handle it: nothing is persisted and no
worker is restarted.
