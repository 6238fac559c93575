----------------------------- MODULE GCTaskDAG -----------------------------
(***************************************************************************)
(* The garbage collector of one worker: the scanning thread GCProducer     *)
(* with its open jobs and its DAG of dependent tasks                       *)
(* (layout/gc_producer.cpp, gc_producer.tpp, gc_task.hpp), the queues      *)
(* between the threads (layout/garbage_collector.cpp), the GCConsumer      *)
(* threads (layout/gc_consumer.cpp) and the transactions that change the   *)
(* vertices, edges and row lists under them (layout/data_storage.cpp).     *)
(*                                                                         *)
(* A row list is one of: "none" (no row), "full" (some cell has a          *)
(* version), "gcable" (every cell's versions may be cut), "cut" (every     *)
(* cell's MVCCList is empty), "freed".  The versions themselves are the    *)
(* subject of MVCCList.                                                    *)
(*                                                                         *)
(* A task is named by its type and id, which is its key in one of the six  *)
(* maps of the DAG.  An INVALID task is out of its map, without            *)
(* connections and without cost, and is skipped by PushJobToPendingQueue,  *)
(* by the consumers and by Delete...Task; the model drops it.              *)
(***************************************************************************)
EXTENDS Integers, Sequences, FiniteSets, SequencesExt

CONSTANTS
  Vertex,       \* the vertices of the worker
  Fresh,        \* those among them that a transaction adds
  OutE, InE,    \* the edges of the worker: keys of the out- and in-edge maps
  Home,         \* the vertex whose row list holds an edge's cell
  Loaded,       \* the edges the loader put in place, with their property lists
  Ptr,          \* the addresses of edge-property row lists
  NoPtr,        \* the null pointer
  Threshold,    \* COST_THRESHOLD of each job type
  MaxCost,      \* bound on the number of cells of a property row list
  NumConsumer,  \* number of GCConsumer threads
  MaxOps        \* bound on the number of steps of transactions

Edge == OutE \cup InE

ASSUME EdgeAssumption ==
  OutE \cap InE = {} /\ Home \in [Edge -> Vertex] /\ Fresh \subseteq Vertex

ASSUME LoadedAssumption ==
  \A e \in DOMAIN Loaded : /\ e \in Edge /\ Home[e] \notin Fresh
                           /\ IF e \in InE THEN Loaded[e] = NoPtr ELSE Loaded[e] \in Ptr

ASSUME NumAssumption == MaxCost \in Nat \ {0} /\ NumConsumer \in Nat \ {0} /\ MaxOps \in Nat

IndependentJob == {"EraseV", "EraseOutE", "EraseInE",
                   "VMVCCGC", "VPMVCCGC", "EPMVCCGC", "EMVCCGC"}
DependentJob == {"TopoRowGC", "TopoRowDefrag", "VPRowGC", "VPRowDefrag",
                 "EPRowGC", "EPRowDefrag"}
JobType == IndependentJob \cup DependentJob

ASSUME ThresholdAssumption == Threshold \in [JobType -> Nat \ {0}]

(* A CompoundEPRowListID is the edge and the address of the row list. *)
EPId == OutE \X Ptr
Key == {"TopoRowGC", "TopoRowDefrag", "VPRowGC", "VPRowDefrag"} \X Vertex
       \cup {"EPRowGC", "EPRowDefrag"} \X EPId

VARIABLES
  db,        \* what DataStorage holds
  gc,        \* tasks of the DAG, open jobs, pending queue
  finished,  \* finished_job_queue
  erasable,  \* gcable_vid_queue and gcable_eid_queue
  pc,        \* where the scanning thread is
  todo,      \* vertices it has still to visit in this round
  ops        \* steps of transactions so far

vars == <<db, gc, finished, erasable, pc, todo, ops>>

RowState == {"none", "full", "gcable", "cut", "freed"}

(* A version of an edge is known by the address of its property list; an   *)
(* in-edge's is NoPtr, and a deleted version's.  ended holds the versions   *)
(* that a later one ended; only the first version may be uncommitted       *)
(* ("new"), later ones are added and committed in one step.                *)
EdgeState == [st : {"none", "new", "live", "dropped", "cut"},
              cur : Ptr \cup {NoPtr}, ended : Seq(Ptr \cup {NoPtr})]

NoEdge == [st |-> "none", cur |-> NoPtr, ended |-> <<>>]

EmptyJob == [tasks |-> {}, cost |-> 0, blocked |-> 0]

(* The vertices and edges that are loaded have properties. *)
Init ==
  /\ db = [vtx |-> [v \in Vertex |-> IF v \in Fresh THEN "absent" ELSE "live"],
           vp |-> [v \in Vertex |-> IF v \in Fresh THEN "freed" ELSE "full"],
           topo |-> [v \in Vertex |-> v \notin Fresh],
           edge |-> [e \in Edge |-> IF e \in DOMAIN Loaded
                                    THEN [st |-> "live", cur |-> Loaded[e], ended |-> <<>>]
                                    ELSE NoEdge],
           emap |-> DOMAIN Loaded,
           ep |-> [p \in Ptr |-> IF \E e \in DOMAIN Loaded : Loaded[e] = p THEN "full"
                                 ELSE "freed"]]
  /\ gc = [tasks |-> <<>>, jobs |-> [t \in JobType |-> EmptyJob],
           pending |-> <<>>, fault |-> {}]
  /\ finished = <<>>
  /\ erasable = [vid |-> <<>>, eid |-> <<>>]
  /\ pc = "update" /\ todo = {} /\ ops = 0

Cells(d, v) == {e \in Edge : Home[e] = v /\ d.edge[e].st # "none"}

EPLists(d, e) == {p \in Ptr : d.edge[e].cur = p \/ \E i \in DOMAIN d.edge[e].ended :
                                                     d.edge[e].ended[i] = p}

-----------------------------------------------------------------------------
(* Jobs and tasks (gc_task.hpp).                                           *)

Task(status, cost, up, down) ==
  [status |-> status, cost |-> cost, blocked |-> 0, up |-> up, down |-> down]

(* A CHECK of the code: the process dies where it fails. *)
Check(s, name, holds) == IF holds THEN s ELSE [s EXCEPT !.fault = @ \cup {name}]

Status(s, k) == s.tasks[k].status
SetTaskStatus(s, k, x) == [s EXCEPT !.tasks[k].status = x]
Put(s, k, t) == [s EXCEPT !.tasks = (k :> t) @@ @]
Erase(s, k) == [s EXCEPT !.tasks = [j \in DOMAIN s.tasks \ {k} |-> s.tasks[j]]]
EraseDown(s, u, k) == [s EXCEPT !.tasks[u].down = @ \ {k}]
IncreaseBlockedCount(s, k) == [s EXCEPT !.tasks[k].blocked = @ + 1]

(* AddTask of the two kinds of job: a dependent task brings its cost and   *)
(* its blocked count along.                                                *)
AddIndependentTask(s, t, target, cost) ==
  [s EXCEPT !.jobs[t].tasks = @ \cup {target}, !.jobs[t].cost = @ + cost]

AddDependentTask(s, k) ==
  [s EXCEPT !.jobs[k[1]].tasks = @ \cup {k},
            !.jobs[k[1]].cost = @ + s.tasks[k].cost,
            !.jobs[k[1]].blocked = @ + s.tasks[k].blocked]

isReady(s, t) == s.jobs[t].cost >= Threshold[t] /\ s.jobs[t].blocked = 0

(* SetTaskInvalid takes the cost of the task out of its job. *)
SetTaskInvalid(s, k) ==
  [s EXCEPT !.jobs[k[1]].tasks = @ \ {k}, !.jobs[k[1]].cost = @ - s.tasks[k].cost]

ReduceTaskBlockCount(s, k) ==
  [s EXCEPT !.tasks[k].blocked = @ - 1,
            !.tasks[k].status = IF s.tasks[k].blocked = 1 THEN "ACTIVE" ELSE @,
            !.jobs[k[1]].blocked = @ - 1]

(* PushJobToPendingQueue: the ACTIVE tasks become PUSHED, and no other     *)
(* kind of task may be among them; the open job is cleared.                *)
SetPushed(s, keys) ==
  [s EXCEPT !.tasks = [k \in DOMAIN s.tasks |->
                        IF k \in keys THEN [s.tasks[k] EXCEPT !.status = "PUSHED"]
                        ELSE s.tasks[k]]]

Enqueue(s, t) ==
  [s EXCEPT !.pending = Append(@, [type |-> t, tasks |-> s.jobs[t].tasks]),
            !.jobs[t] = EmptyJob]

PushJobToPendingQueue(s, t) ==
  IF t \in IndependentJob THEN Enqueue(s, t)
  ELSE Check(Enqueue(SetPushed(s, s.jobs[t].tasks), t), "job",
             \A k \in s.jobs[t].tasks : s.tasks[k].status = "ACTIVE")

PushIfReady(s, t) == IF isReady(s, t) THEN PushJobToPendingQueue(s, t) ELSE s

(* AddTask, then PushJobToPendingQueue and Clear when the job is ready;    *)
(* nothing when Insert...Task returned nullptr, here the empty sequence.   *)
SpawnIndependent(s, t, target, cost) == PushIfReady(AddIndependentTask(s, t, target, cost), t)
SpawnDependent(s, k, inserted) ==
  IF inserted = <<>> THEN s ELSE PushIfReady(AddDependentTask(inserted[1], k), k[1])

(* Wrong variant: the job that became ready waits for another task. *)
ReduceJobBlockCountOnly(s, k) == ReduceTaskBlockCount(s, k)

(* Reduce...JobBlockCount of the producer. *)
ReduceJobBlockCount(s, k) == PushIfReady(ReduceTaskBlockCount(s, k), k[1])

-----------------------------------------------------------------------------
(* The DAG of vertex properties:  VPRowGC --> VPRowDefrag.                 *)

DisconnectInvalidVPRowListDefragTask(s, u, k) ==
  Check(EraseDown(Erase(s, k), u, k), "vp_disconnect",
        s.tasks[u].down = {k} /\ Status(s, u) = "ACTIVE")

SubstantiateVP(s, u, k) ==
  IF Status(s, k) = "PUSHED" THEN SetTaskStatus(IncreaseBlockedCount(s, u), u, "BLOCKED")
  ELSE DisconnectInvalidVPRowListDefragTask(
         SetTaskInvalid(SetTaskStatus(s, u, "ACTIVE"), k), u, k)

InsertVPRowListGCTask(s, u, k) ==
  CASE u \notin DOMAIN s.tasks -> <<Put(s, u, Task("ACTIVE", 1, {}, {}))>>
    [] u \in DOMAIN s.tasks /\ Status(s, u) # "EMPTY" -> <<>>
    [] OTHER -> <<Check(SubstantiateVP(s, u, k), "vp_substantiate", s.tasks[u].down = {k})>>

InsertVPRowListDefragTask(s, u, k, cost) ==
  IF k \in DOMAIN s.tasks \/ u \in DOMAIN s.tasks THEN <<>>
  ELSE <<Put(Put(s, k, Task("ACTIVE", cost, {u}, {})), u, Task("EMPTY", 1, {}, {k}))>>

DeleteVPRowListGCTask(s, u) == Check(Erase(s, u), "vp_gc_map", u \in DOMAIN s.tasks)

DeleteVPRowListDefragTask(s, k, u) ==
  IF Status(s, u) = "EMPTY" THEN Erase(Erase(s, u), k)
  ELSE Check(Erase(ReduceJobBlockCount(EraseDown(s, u, k), u), k), "vp_blocked",
             Status(s, u) = "BLOCKED")

-----------------------------------------------------------------------------
(* The DAG of topology and edge properties:                                *)
(*   TopoRowGC --> TopoRowDefrag,  TopoRowGC --> EPRowDefrag <-- EPRowGC.  *)

EraseIfUnconnected(s, u) ==
  IF Status(s, u) = "EMPTY" /\ s.tasks[u].down = {} THEN Erase(s, u) ELSE s

DisconnectInvalidTopoRowListDefragTask(s, u, k) ==
  Check(EraseIfUnconnected(EraseDown(Erase(s, k), u, k), u), "topo_disconnect",
        s.tasks[u].down = {k} => Status(s, u) \in {"EMPTY", "ACTIVE"})

(* An upstream task counts as active only when no downstream task is left. *)
ActiveUpstream(s, k) ==
  {u \in s.tasks[k].up : s.tasks[u].down = {k} /\ Status(s, u) # "EMPTY"}

DisconnectInvalidEPRowListDefragTask(s, ut, ue, k) ==
  Check(EraseIfUnconnected(EraseIfUnconnected(
          EraseDown(EraseDown(Erase(s, k), ut, k), ue, k), ut), ue),
        "active_upstream_count", Cardinality(ActiveUpstream(s, k)) = 1)

TopoKey(e) == <<"TopoRowGC", Home[e]>>
EPKey(id) == <<"EPRowGC", id>>

(* Wrong variant: a defragmentation under way is not waited for. *)
SubstantiateTopoAtOnce(s, u, k) ==
  CASE Status(s, k) = "PUSHED" -> s
    [] Status(s, k) # "PUSHED" /\ k[1] = "TopoRowDefrag" ->
         DisconnectInvalidTopoRowListDefragTask(SetTaskInvalid(s, k), u, k)
    [] OTHER -> DisconnectInvalidEPRowListDefragTask(SetTaskInvalid(s, k), u, EPKey(k[2]), k)

(* The loop of InsertTopoRowListGCTask over one downstream task. *)
SubstantiateTopo(s, u, k) ==
  CASE Status(s, k) = "PUSHED" -> IncreaseBlockedCount(s, u)
    [] Status(s, k) # "PUSHED" /\ k[1] = "TopoRowDefrag" ->
         DisconnectInvalidTopoRowListDefragTask(SetTaskInvalid(s, k), u, k)
    [] OTHER -> DisconnectInvalidEPRowListDefragTask(SetTaskInvalid(s, k), u, EPKey(k[2]), k)

BlockedIfCounted(s, u) ==
  IF s.tasks[u].blocked > 0 THEN SetTaskStatus(s, u, "BLOCKED") ELSE s

(* order is the order in which the unordered set of downstream tasks is    *)
(* walked.                                                                 *)
InsertTopoRowListGCTask(s, u, order) ==
  CASE u \notin DOMAIN s.tasks -> <<Put(s, u, Task("ACTIVE", 1, {}, {}))>>
    [] u \in DOMAIN s.tasks /\ Status(s, u) # "EMPTY" -> <<>>
    [] OTHER -> <<BlockedIfCounted(FoldLeft(LAMBDA acc, k : SubstantiateTopo(acc, u, k),
                                            SetTaskStatus(s, u, "ACTIVE"), order), u)>>

Downstream(s, u) == IF u \in DOMAIN s.tasks THEN s.tasks[u].down ELSE {}

(* The orders in which a set can be walked. *)
Orders(S) == {f \in [1 .. Cardinality(S) -> S] : IsInjective(f)}

Connect(s, u, k) ==
  IF u \in DOMAIN s.tasks THEN [s EXCEPT !.tasks[u].down = @ \cup {k}]
  ELSE Put(s, u, Task("EMPTY", 1, {}, {k}))

InsertTopoRowListDefragTask(s, u, k, cost) ==
  IF \/ k \in DOMAIN s.tasks
     \/ u \in DOMAIN s.tasks /\ Status(s, u) # "EMPTY"
  THEN <<>>
  ELSE <<Connect(Put(s, k, Task("ACTIVE", cost, {u}, {})), u, k)>>

SubstantiateEP(s, u, k) ==
  IF Status(s, k) = "PUSHED" THEN SetTaskStatus(IncreaseBlockedCount(s, u), u, "BLOCKED")
  ELSE DisconnectInvalidEPRowListDefragTask(
         SetTaskInvalid(SetTaskStatus(s, u, "ACTIVE"), k), TopoKey(k[2][1]), u, k)

InsertEPRowListGCTask(s, u) ==
  CASE u \notin DOMAIN s.tasks -> <<Put(s, u, Task("ACTIVE", 1, {}, {}))>>
    [] u \in DOMAIN s.tasks /\ Status(s, u) # "EMPTY" -> <<>>
    [] OTHER -> <<SubstantiateEP(s, u, <<"EPRowDefrag", u[2]>>)>>

InsertEPRowListDefragTask(s, ut, ue, k, cost) ==
  IF \/ k \in DOMAIN s.tasks
     \/ ue \in DOMAIN s.tasks
     \/ ut \in DOMAIN s.tasks /\ Status(s, ut) # "EMPTY"
  THEN <<>>
  ELSE <<Connect(Connect(Put(s, k, Task("ACTIVE", cost, {ut, ue}, {})), ut, k), ue, k)>>

DeleteTopoRowListGCTask(s, u) == Check(Erase(s, u), "topo_gc_map", u \in DOMAIN s.tasks)

(* What a finished defragmentation does to an upstream task. *)
Release(s, u) ==
  IF Status(s, u) = "EMPTY" THEN EraseIfUnconnected(s, u)
  ELSE Check(ReduceJobBlockCount(s, u), "blocked", Status(s, u) = "BLOCKED")

DeleteTopoRowListDefragTask(s, k, u) == Erase(Release(EraseDown(s, u, k), u), k)

DeleteEPRowListGCTask(s, u) == Check(Erase(s, u), "ep_gc_map", u \in DOMAIN s.tasks)

DeleteEPRowListDefragTask(s, k, ut, ue) ==
  Erase(Release(EraseDown(Release(EraseDown(s, ut, k), ut), ue, k), ue), k)

-----------------------------------------------------------------------------
(* The spawn functions of the producer.                                    *)

spawn_erase_vertex_gctask(s, v) == SpawnIndependent(s, "EraseV", v, 1)
spawn_erase_out_edge_gctask(s, e) == SpawnIndependent(s, "EraseOutE", e, 1)
spawn_erase_in_edge_gctask(s, e) == SpawnIndependent(s, "EraseInE", e, 1)
spawn_v_mvcc_gctask(s, v) == SpawnIndependent(s, "VMVCCGC", v, 2)
spawn_vp_mvcc_list_gctask(s, v, n) == SpawnIndependent(s, "VPMVCCGC", v, n)
spawn_ep_mvcc_list_gctask(s, id, n) == SpawnIndependent(s, "EPMVCCGC", id, n)

spawn_vp_row_list_gctask(s, v) ==
  SpawnDependent(s, <<"VPRowGC", v>>,
                 InsertVPRowListGCTask(s, <<"VPRowGC", v>>, <<"VPRowDefrag", v>>))

spawn_vp_row_defrag_gctask(s, v, cost) ==
  SpawnDependent(s, <<"VPRowDefrag", v>>,
                 InsertVPRowListDefragTask(s, <<"VPRowGC", v>>, <<"VPRowDefrag", v>>, cost))

spawn_topo_row_list_gctask(s, v, order) ==
  SpawnDependent(s, <<"TopoRowGC", v>>, InsertTopoRowListGCTask(s, <<"TopoRowGC", v>>, order))

spawn_topo_row_list_defrag_gctask(s, v, cost) ==
  SpawnDependent(s, <<"TopoRowDefrag", v>>,
                 InsertTopoRowListDefragTask(s, <<"TopoRowGC", v>>, <<"TopoRowDefrag", v>>, cost))

spawn_ep_row_list_gctask(s, id) ==
  SpawnDependent(s, EPKey(id), InsertEPRowListGCTask(s, EPKey(id)))

spawn_ep_row_defrag_gctask(s, id, cost) ==
  SpawnDependent(s, <<"EPRowDefrag", id>>,
                 InsertEPRowListDefragTask(s, TopoKey(id[1]), EPKey(id), <<"EPRowDefrag", id>>, cost))

(* The cut versions of an edge give one task, and each of their property   *)
(* lists, unhooked by CutEPRowList, a task of its own.                     *)
spawn_edge_mvcc_list_gctask(s, e, lists) ==
  PushIfReady(FoldLeft(LAMBDA acc, p : IF p = NoPtr THEN acc
                                       ELSE spawn_ep_row_list_gctask(acc, <<e, p>>),
                       AddIndependentTask(s, "EMVCCGC", e, Len(lists)), lists), "EMVCCGC")

-----------------------------------------------------------------------------
(* Scanning.  A row list is worth a defragmentation when it has rows and   *)
(* would have none: a / n + (a % n > 0) ? 1 : 0 is 1 for every list that   *)
(* keeps a cell.                                                           *)

scan_vp_row_list(s, d, v, cost) ==
  CASE d.vp[v] = "gcable" ->
         spawn_vp_row_defrag_gctask(spawn_vp_mvcc_list_gctask(s, v, cost), v, cost)
    [] d.vp[v] = "cut" -> spawn_vp_row_defrag_gctask(s, v, cost)
    [] OTHER -> s

scan_ep_row_list(s, d, e, p, cost) ==
  CASE p # NoPtr /\ d.ep[p] = "gcable" ->
         spawn_ep_row_defrag_gctask(spawn_ep_mvcc_list_gctask(s, <<e, p>>, cost), <<e, p>>, cost)
    [] p # NoPtr /\ d.ep[p] = "cut" -> spawn_ep_row_defrag_gctask(s, <<e, p>>, cost)
    [] OTHER -> s

ScanLists(s, d, e, lists, cost) ==
  FoldLeft(LAMBDA acc, p : scan_ep_row_list(acc, d, e, p, cost), s, lists)

(* Versions that ended before the watermark are cut; the others are        *)
(* looked into, and cut too when the last version is a deleted one.        *)
CutVersions(d, e, passed) ==
  CASE d.edge[e].st = "dropped" -> Append(d.edge[e].ended, NoPtr)
    [] d.edge[e].st # "dropped" /\ e \in passed -> d.edge[e].ended
    [] OTHER -> <<>>

ScannedVersions(d, e, passed) ==
  (IF e \in passed THEN <<>> ELSE d.edge[e].ended)
    \o (IF d.edge[e].st = "live" THEN <<d.edge[e].cur>> ELSE <<>>)

SpawnIfCut(s, e, lists) ==
  IF lists = <<>> THEN s ELSE spawn_edge_mvcc_list_gctask(s, e, lists)

scan_mvcc_list(s, d, e, passed, cost) ==
  SpawnIfCut(ScanLists(s, d, e, ScannedVersions(d, e, passed), cost), e, CutVersions(d, e, passed))

(* The cell of an edge is gcable when nothing is left of its versions. *)
GCable(d, e) == d.edge[e].st \in {"dropped", "cut"}

SpawnTopoDefrag(s, d, v) ==
  IF Cells(d, v) # {} /\ \A e \in Cells(d, v) : GCable(d, e)
  THEN spawn_topo_row_list_defrag_gctask(s, v, Cardinality(Cells(d, v)))
  ELSE s

scan_topo_row_list(s, d, v, passed, cost) ==
  SpawnTopoDefrag(FoldLeft(LAMBDA acc, e : scan_mvcc_list(acc, d, e, passed, cost),
                           s, SetToSeq(Cells(d, v))), d, v)

(* What the scan itself changes in the lists: it cuts. *)
CutRow(x) == IF x = "gcable" THEN "cut" ELSE x

CutEdge(x, p) ==
  CASE x.st = "dropped" -> [x EXCEPT !.st = "cut", !.ended = <<>>]
    [] x.st = "live" /\ p -> [x EXCEPT !.ended = <<>>]
    [] OTHER -> x

CutLists(d, v, passed) ==
  [d EXCEPT !.vp[v] = CutRow(@),
            !.edge = [e \in Edge |-> IF Home[e] = v THEN CutEdge(d.edge[e], e \in passed)
                                     ELSE d.edge[e]],
            !.ep = [p \in Ptr |->
                     IF \E e \in Cells(d, v) :
                          p \in ToSet(ScannedVersions(d, e, passed)) THEN CutRow(d.ep[p])
                     ELSE d.ep[p]]]

(* UpdateGlobalMinBT: the watermark passes the drop of some vertices, on    *)
(* which no transaction is at work any more.                               *)
UpdateGlobalMinBT ==
  /\ pc = "update"
  /\ \E dead \in SUBSET {v \in Vertex : /\ db.vtx[v] = "dropped"
                                        /\ \A e \in Cells(db, v) : db.edge[e].st # "new"} :
       db' = [db EXCEPT !.vtx = [v \in Vertex |-> IF v \in dead THEN "dead" ELSE db.vtx[v]]]
  /\ todo' = {v \in Vertex : db.vtx[v] \notin {"absent", "gone"}}
  /\ pc' = IF todo' = {} THEN "check" ELSE "scan"
  /\ UNCHANGED <<gc, finished, erasable, ops>>

Visited(v) ==
  /\ pc = "scan" /\ v \in todo
  /\ todo' = todo \ {v}
  /\ pc' = IF todo' = {} THEN "check" ELSE "scan"
  /\ UNCHANGED <<finished, erasable, ops>>

(* One turn of the loop of scan_vertex_map: a vertex whose insertion is    *)
(* not committed, or that is cut already, is passed over; a dead one is    *)
(* cut and its four tasks are spawned; the lists of any other are scanned. *)
scan_skip_vertex(v) ==
  /\ Visited(v)
  /\ db.vtx[v] \in {"new", "cut"}
  /\ UNCHANGED <<db, gc>>

scan_dead_vertex(v) ==
  /\ Visited(v)
  /\ db.vtx[v] = "dead"
  /\ db' = [db EXCEPT !.vtx[v] = "cut"]
  /\ \E order \in Orders(Downstream(gc, <<"TopoRowGC", v>>)) :
       gc' = spawn_topo_row_list_gctask(spawn_vp_row_list_gctask(
               spawn_v_mvcc_gctask(spawn_erase_vertex_gctask(gc, v), v), v), v, order)

scan_vertex(v) ==
  /\ Visited(v)
  /\ db.vtx[v] \in {"live", "dropped"}
  /\ \E passed \in SUBSET {e \in Cells(db, v) : db.edge[e].ended # <<>>}, cost \in 1 .. MaxCost :
       /\ db' = CutLists(db, v, passed)
       /\ gc' = scan_topo_row_list(scan_vp_row_list(gc, db, v, cost), db, v, passed, cost)

-----------------------------------------------------------------------------
(* The end of a round: finished jobs leave the DAG, and the vertices and   *)
(* edges whose lists are gone are to be erased from the maps.              *)

DeleteTask(s, k) ==
  CASE k[1] = "TopoRowGC" -> DeleteTopoRowListGCTask(s, k)
    [] k[1] = "TopoRowDefrag" -> DeleteTopoRowListDefragTask(s, k, <<"TopoRowGC", k[2]>>)
    [] k[1] = "VPRowGC" -> DeleteVPRowListGCTask(s, k)
    [] k[1] = "VPRowDefrag" -> DeleteVPRowListDefragTask(s, k, <<"VPRowGC", k[2]>>)
    [] k[1] = "EPRowGC" -> DeleteEPRowListGCTask(s, k)
    [] k[1] = "EPRowDefrag" -> DeleteEPRowListDefragTask(s, k, TopoKey(k[2][1]), EPKey(k[2]))

check_finished_job ==
  /\ pc = "check"
  /\ gc' = FoldLeft(LAMBDA s, job : FoldLeft(DeleteTask, s, SetToSeq(job.tasks)), gc, finished)
  /\ finished' = <<>>
  /\ pc' = "vid"
  /\ UNCHANGED <<db, erasable, todo, ops>>

check_erasable_vid ==
  /\ pc = "vid"
  /\ gc' = FoldLeft(spawn_erase_vertex_gctask, gc, erasable.vid)
  /\ erasable' = [erasable EXCEPT !.vid = <<>>]
  /\ pc' = "eid"
  /\ UNCHANGED <<db, finished, todo, ops>>

SpawnEraseEdge(s, e) ==
  IF e \in OutE THEN spawn_erase_out_edge_gctask(s, e) ELSE spawn_erase_in_edge_gctask(s, e)

check_erasable_eid ==
  /\ pc = "eid"
  /\ gc' = FoldLeft(LAMBDA s, eids : FoldLeft(SpawnEraseEdge, s, SetToSeq(eids)), gc, erasable.eid)
  /\ erasable' = [erasable EXCEPT !.eid = <<>>]
  /\ pc' = "update"
  /\ UNCHANGED <<db, finished, todo, ops>>

-----------------------------------------------------------------------------
(* The consumers.  Jobs are popped in order, so the NumConsumer threads    *)
(* are at any time at some of the first NumConsumer jobs not yet done.     *)
(* Nothing is done with a finished independent job: it is dropped here.    *)

Finish(i, faults) ==
  /\ gc' = [gc EXCEPT !.pending = RemoveAt(@, i), !.fault = @ \cup faults]
  /\ finished' = IF gc.pending[i].type \in DependentJob THEN Append(finished, gc.pending[i])
                 ELSE finished
  /\ UNCHANGED <<pc, todo, ops>>

Popped(i, types) ==
  /\ i <= Len(gc.pending)
  /\ gc.pending[i].type \in types

Failed(name, holds) == IF holds THEN {} ELSE {name}
Targets(i) == {k[2] : k \in gc.pending[i].tasks}

(* The writer lock on the vertex map waits for the end of a scan. *)
ExecuteEraseVJob(i) ==
  /\ Popped(i, {"EraseV"}) /\ pc # "scan"
  /\ db' = [db EXCEPT !.vtx = [v \in Vertex |-> IF v \in gc.pending[i].tasks THEN "gone"
                                                ELSE db.vtx[v]]]
  /\ Finish(i, Failed("erase_vertex", \A v \in gc.pending[i].tasks :
                                        db.vtx[v] \notin {"absent", "gone"}))
  /\ UNCHANGED erasable

(* An edge that was added back after its deletion stays in the map. *)
ExecuteEraseEJob(i) ==
  /\ Popped(i, {"EraseOutE", "EraseInE"})
  /\ db' = [db EXCEPT !.emap = @ \ {e \in gc.pending[i].tasks : db.edge[e].st \in {"none", "cut"}}]
  /\ Finish(i, {}) /\ UNCHANGED erasable

(* The versions were cut off when the task was spawned. *)
ExecuteMVCCGCJob(i) ==
  /\ Popped(i, {"VMVCCGC", "VPMVCCGC", "EPMVCCGC", "EMVCCGC"})
  /\ Finish(i, {}) /\ UNCHANGED <<db, erasable>>

(* SelfGarbageCollect of a topology row list frees the version list of     *)
(* every cell and with it the edge-property lists that hang on it.         *)
FreeTopo(d, V) ==
  [d EXCEPT !.topo = [v \in Vertex |-> IF v \in V THEN FALSE ELSE d.topo[v]],
            !.edge = [e \in Edge |-> IF Home[e] \in V THEN NoEdge ELSE d.edge[e]],
            !.ep = [p \in Ptr |-> IF \E e \in Edge : Home[e] \in V /\ p \in EPLists(d, e)
                                  THEN "freed" ELSE d.ep[p]]]

ExecuteTopoRowListGCJob(i) ==
  /\ Popped(i, {"TopoRowGC"})
  /\ db' = FreeTopo(db, Targets(i))
  /\ erasable' = [erasable EXCEPT !.eid = Append(@, UNION {Cells(db, v) : v \in Targets(i)})]
  /\ Finish(i, Failed("freed_list", \A v \in Targets(i) : db.topo[v]))

(* The empty cells leave the row list and, under both writer locks, their  *)
(* edges leave the edge maps.                                              *)
EmptyCells(d, V) == {e \in Edge : Home[e] \in V /\ d.edge[e].st = "cut"}

(* Wrong variant: the edge maps are left to a later task. *)
ExecuteTopoRowListDefragJobAlone(i) ==
  /\ Popped(i, {"TopoRowDefrag"})
  /\ db' = [db EXCEPT !.edge = [e \in Edge |-> IF e \in EmptyCells(db, Targets(i)) THEN NoEdge
                                               ELSE db.edge[e]]]
  /\ erasable' = [erasable EXCEPT !.eid = Append(@, EmptyCells(db, Targets(i)))]
  /\ Finish(i, {})


ExecuteTopoRowListDefragJob(i) ==
  /\ Popped(i, {"TopoRowDefrag"})
  /\ \E cells \in {EmptyCells(db, Targets(i))} :
       db' = [db EXCEPT !.edge = [e \in Edge |-> IF e \in cells THEN NoEdge ELSE db.edge[e]],
                        !.emap = @ \ cells]
  /\ Finish(i, Failed("freed_list", \A v \in Targets(i) : db.topo[v]))
  /\ UNCHANGED erasable

ExecuteVPRowListGCJob(i) ==
  /\ Popped(i, {"VPRowGC"})
  /\ db' = [db EXCEPT !.vp = [v \in Vertex |-> IF v \in Targets(i) THEN "freed" ELSE db.vp[v]]]
  /\ Finish(i, Failed("freed_list", \A v \in Targets(i) : db.vp[v] # "freed"))
  /\ UNCHANGED erasable

DefragRow(x) == IF x = "cut" THEN "none" ELSE x

ExecuteVPRowListDefragJob(i) ==
  /\ Popped(i, {"VPRowDefrag"})
  /\ db' = [db EXCEPT !.vp = [v \in Vertex |-> IF v \in Targets(i) THEN DefragRow(db.vp[v])
                                               ELSE db.vp[v]]]
  /\ Finish(i, Failed("freed_list", \A v \in Targets(i) : db.vp[v] # "freed"))
  /\ UNCHANGED erasable

Addresses(i) == {id[2] : id \in Targets(i)}

ExecuteEPRowListGCJob(i) ==
  /\ Popped(i, {"EPRowGC"})
  /\ db' = [db EXCEPT !.ep = [p \in Ptr |-> IF p \in Addresses(i) THEN "freed" ELSE db.ep[p]]]
  /\ Finish(i, Failed("freed_list", \A p \in Addresses(i) : db.ep[p] # "freed"))
  /\ UNCHANGED erasable

ExecuteEPRowListDefragJob(i) ==
  /\ Popped(i, {"EPRowDefrag"})
  /\ db' = [db EXCEPT !.ep = [p \in Ptr |-> IF p \in Addresses(i) THEN DefragRow(db.ep[p])
                                            ELSE db.ep[p]]]
  /\ Finish(i, Failed("freed_list", \A p \in Addresses(i) : db.ep[p] # "freed"))
  /\ UNCHANGED erasable

Execute(i) ==
  \/ ExecuteEraseVJob(i) \/ ExecuteEraseEJob(i) \/ ExecuteMVCCGCJob(i)
  \/ ExecuteTopoRowListGCJob(i) \/ ExecuteTopoRowListDefragJob(i)
  \/ ExecuteVPRowListGCJob(i) \/ ExecuteVPRowListDefragJob(i)
  \/ ExecuteEPRowListGCJob(i) \/ ExecuteEPRowListDefragJob(i)

-----------------------------------------------------------------------------
(* The transactions, as far as the row lists and maps see them.            *)

Trx ==
  /\ ops < MaxOps /\ ops' = ops + 1
  /\ UNCHANGED <<gc, finished, pc, todo>>

ProcessAddV(v) ==
  /\ Trx /\ db.vtx[v] = "absent"
  /\ db' = [db EXCEPT !.vtx[v] = "new", !.vp[v] = "none", !.topo[v] = TRUE]
  /\ UNCHANGED erasable

CommitEdge(x) == IF x.st = "new" THEN [x EXCEPT !.st = "live"] ELSE x

DropEdge(x) == [st |-> "dropped", cur |-> NoPtr, ended |-> Append(x.ended, x.cur)]

(* AppendVersion: the last version, a deleted one, ends. *)
NewVersion(x, p) ==
  IF x.st = "dropped" THEN [st |-> "live", cur |-> p, ended |-> Append(x.ended, NoPtr)]
  ELSE [st |-> "new", cur |-> p, ended |-> <<>>]

CommitAddV(v) ==
  /\ Trx /\ db.vtx[v] = "new"
  /\ db' = [db EXCEPT !.vtx[v] = "live",
                      !.edge = [e \in Edge |-> IF Home[e] = v THEN CommitEdge(db.edge[e])
                                               ELSE db.edge[e]]]
  /\ UNCHANGED erasable

(* Abort of an added vertex frees its lists on the spot; the entries of    *)
(* the maps are left to the collector.                                     *)
AbortAddV(v) ==
  /\ Trx /\ db.vtx[v] = "new"
  /\ db' = [FreeTopo(db, {v}) EXCEPT !.vtx[v] = "cut", !.vp[v] = "freed"]
  /\ erasable' = [vid |-> Append(erasable.vid, v), eid |-> Append(erasable.eid, Cells(db, v))]

ProcessDropV(v) ==
  /\ Trx /\ db.vtx[v] = "live"
  /\ \A e \in Cells(db, v) : db.edge[e].st # "new"
  /\ db' = [db EXCEPT !.vtx[v] = "dropped",
                      !.edge = [e \in Edge |-> IF Home[e] = v /\ db.edge[e].st = "live"
                                               THEN DropEdge(db.edge[e]) ELSE db.edge[e]]]
  /\ UNCHANGED erasable

NewList(e) == IF e \in InE THEN {NoPtr} ELSE {p \in Ptr : db.ep[p] = "freed"}

(* An edge that is in neither map nor row list gets an entry and a cell;   *)
(* one that is in both gets a version more; in one alone, something else   *)
(* happens.  A transaction that began before a vertex was dropped may      *)
(* still add an edge to it.                                                *)
ProcessAddE(e) ==
  /\ Trx /\ db.vtx[Home[e]] \in {"new", "live", "dropped"}
  /\ db.edge[e].st \in {"none", "cut", "dropped"}
  /\ \E p \in NewList(e) :
       db' = [db EXCEPT !.emap = @ \cup {e},
                        !.edge[e] = NewVersion(db.edge[e], p),
                        !.ep = IF p = NoPtr THEN @ ELSE [@ EXCEPT ![p] = "none"]]
  /\ UNCHANGED erasable

CommitAddE(e) ==
  /\ Trx /\ db.edge[e].st = "new" /\ db.vtx[Home[e]] # "new"
  /\ db' = [db EXCEPT !.edge[e] = CommitEdge(@)]
  /\ UNCHANGED erasable

(* AbortVersion frees the version with its property list; the cell and     *)
(* the entry of the map stay, with an empty version list.                  *)
AbortAddE(e) ==
  /\ Trx /\ db.edge[e].st = "new" /\ db.vtx[Home[e]] # "new"
  /\ db' = [db EXCEPT !.edge[e] = [NoEdge EXCEPT !.st = "cut"],
                      !.ep = IF db.edge[e].cur = NoPtr THEN @
                             ELSE [@ EXCEPT ![db.edge[e].cur] = "freed"]]
  /\ UNCHANGED erasable

ProcessDropE(e) ==
  /\ Trx /\ db.edge[e].st = "live"
  /\ db' = [db EXCEPT !.edge[e] = DropEdge(@)]
  /\ UNCHANGED erasable

ProcessDropVP(v) ==
  /\ Trx /\ db.vtx[v] = "live" /\ db.vp[v] = "full"
  /\ db' = [db EXCEPT !.vp[v] = "gcable"]
  /\ UNCHANGED erasable

ProcessModifyVP(v) ==
  /\ Trx /\ db.vtx[v] \in {"new", "live"} /\ db.vp[v] # "full"
  /\ db' = [db EXCEPT !.vp[v] = "full"]
  /\ UNCHANGED erasable

ProcessDropEP(e) ==
  /\ Trx /\ e \in OutE /\ db.edge[e].st = "live" /\ db.ep[db.edge[e].cur] = "full"
  /\ db' = [db EXCEPT !.ep[db.edge[e].cur] = "gcable"]
  /\ UNCHANGED erasable

ProcessModifyEP(e) ==
  /\ Trx /\ e \in OutE /\ db.edge[e].st \in {"new", "live"} /\ db.ep[db.edge[e].cur] # "full"
  /\ db' = [db EXCEPT !.ep[db.edge[e].cur] = "full"]
  /\ UNCHANGED erasable

-----------------------------------------------------------------------------
Alive == gc.fault = {}

Producer ==
  \/ UpdateGlobalMinBT
  \/ \E v \in todo : scan_skip_vertex(v) \/ scan_dead_vertex(v) \/ scan_vertex(v)
  \/ check_finished_job \/ check_erasable_vid \/ check_erasable_eid

Consumers == \E i \in 1 .. NumConsumer : Execute(i)

Transactions ==
  \/ \E v \in Vertex : \/ ProcessAddV(v) \/ CommitAddV(v) \/ AbortAddV(v) \/ ProcessDropV(v)
                       \/ ProcessDropVP(v) \/ ProcessModifyVP(v)
  \/ \E e \in Edge : \/ ProcessAddE(e) \/ CommitAddE(e) \/ AbortAddE(e) \/ ProcessDropE(e)
                     \/ ProcessDropEP(e) \/ ProcessModifyEP(e)

(* A process in which a CHECK failed does nothing more. *)
Next == Alive /\ (Producer \/ Consumers \/ Transactions)

(* The scanning thread loops for ever and every one of its steps moves pc  *)
(* or todo.  A consumer gets to the oldest job: the only wait is EraseV's  *)
(* for the lock of the scan, and the lock prefers writers.                 *)
ProducerRuns == []<>~Alive \/ []<><<pc' # pc \/ todo' # todo>>_vars

ConsumersRun ==
  \/ []<>(~Alive \/ gc.pending = <<>>)
  \/ []<><<gc.pending # <<>> /\ gc'.pending = Tail(gc.pending)>>_vars

Spec == Init /\ [][Next]_vars /\ ProducerRuns /\ ConsumersRun

-----------------------------------------------------------------------------
Sum(f, S) == FoldSet(LAMBDA x, acc : f[x] + acc, 0, S)

(* db, the queues and the tasks keep their types. *)
TypeOK ==
  /\ db.vtx \in [Vertex -> {"absent", "new", "live", "dropped", "dead", "cut", "gone"}]
  /\ db.vp \in [Vertex -> RowState] /\ db.topo \in [Vertex -> BOOLEAN]
  /\ db.ep \in [Ptr -> RowState] /\ db.emap \subseteq Edge
  /\ \A e \in Edge : db.edge[e] \in EdgeState
  /\ DOMAIN gc.tasks \subseteq Key
  /\ \A k \in DOMAIN gc.tasks : gc.tasks[k].status \in {"EMPTY", "ACTIVE", "BLOCKED", "PUSHED"}
  /\ pc \in {"update", "scan", "check", "vid", "eid"} /\ todo \subseteq Vertex

(* No consumer frees a list that another may be working on: when a job     *)
(* that frees row lists is in the queue, none of its tasks has a           *)
(* defragmentation left below it, so none of the same list, or of an       *)
(* edge-property list under the same vertex, is waiting or running.  This  *)
(* is what the DAG is for ("the dependency of tasks", gc_producer.hpp).    *)
FreeRunsAlone ==
  \A i \in DOMAIN gc.pending : \A k \in gc.pending[i].tasks :
    /\ gc.pending[i].type \in {"VPRowGC", "EPRowGC"} =>
         <<IF k[1] = "VPRowGC" THEN "VPRowDefrag" ELSE "EPRowDefrag", k[2]>> \notin DOMAIN gc.tasks
    /\ gc.pending[i].type = "TopoRowGC" =>
         /\ <<"TopoRowDefrag", k[2]>> \notin DOMAIN gc.tasks
         /\ \A e \in OutE : Home[e] = k[2] =>
              \A p \in EPLists(db, e) : <<"EPRowDefrag", <<e, p>>>> \notin DOMAIN gc.tasks

(* The DAG and the open jobs are two views of the same tasks: the edges of *)
(* the DAG go both ways, the tasks of an open job are the ACTIVE and       *)
(* BLOCKED ones of its type, an EMPTY task is kept only by what is below   *)
(* it, a BLOCKED one counts exactly the PUSHED ones below it, and the sums *)
(* a job keeps, on which isReady decides, are the sums over its tasks.     *)
JobsMatchTasks ==
  Alive =>
    /\ \A k \in DOMAIN gc.tasks :
         /\ \A u \in gc.tasks[k].up : u \in DOMAIN gc.tasks /\ k \in gc.tasks[u].down
         /\ \A j \in gc.tasks[k].down : j \in DOMAIN gc.tasks /\ k \in gc.tasks[j].up
         /\ gc.tasks[k].status = "EMPTY" => gc.tasks[k].down # {}
         /\ gc.tasks[k].status # "EMPTY" =>
              /\ gc.tasks[k].blocked = Cardinality(gc.tasks[k].down)
              /\ \A j \in gc.tasks[k].down : gc.tasks[j].status = "PUSHED"
              /\ gc.tasks[k].status = "BLOCKED" <=> gc.tasks[k].blocked > 0
         /\ k \in gc.jobs[k[1]].tasks <=> gc.tasks[k].status \in {"ACTIVE", "BLOCKED"}
    /\ \A t \in DependentJob :
         /\ gc.jobs[t].tasks \subseteq DOMAIN gc.tasks
         /\ gc.jobs[t].cost = Sum([k \in gc.jobs[t].tasks |-> gc.tasks[k].cost], gc.jobs[t].tasks)
         /\ gc.jobs[t].blocked =
              Sum([k \in gc.jobs[t].tasks |-> gc.tasks[k].blocked], gc.jobs[t].tasks)

(* "Need to guarantee that the existance of an edge in edge maps should be *)
(* consistent with TopologyRowList" (data_storage.cpp, ProcessAddE): while *)
(* transactions can reach the row list of a vertex, the edges with a cell  *)
(* in it are those with an entry in the map.                               *)
EdgeMapsAgree ==
  \A e \in Edge : db.vtx[Home[e]] \in {"new", "live", "dropped"} =>
                    (e \in db.emap <=> db.edge[e].st # "none")

(* No CHECK of the collector fails, a vertex is erased once, no list is    *)
(* freed twice or defragmented after it was freed; the one CHECK left to   *)
(* UpstreamCountHolds excepted.                                            *)
OtherChecksHold == gc.fault \subseteq {"active_upstream_count"}

(* The collector keeps its books: types, the DAG and the open jobs, the    *)
(* edge maps and the row lists, and every CHECK but the one below.         *)
CollectorSound == TypeOK /\ JobsMatchTasks /\ EdgeMapsAgree /\ OtherChecksHold

(* "Must be one ACTIVE EPRowListGCTask or TopoRowListGCTask": the CHECK at *)
(* the end of DisconnectInvalidEPRowListDefragTask.                        *)
UpstreamCountHolds == "active_upstream_count" \notin gc.fault

(* What the collector has to do for the vertices that it has cut: a job    *)
(* type and the task of it that does it.                                   *)
Duty == {"EraseV"} \X Vertex \cup {<<t, <<t, v>>>> : t \in {"VPRowGC", "TopoRowGC"}, v \in Vertex}
        \cup {"EraseOutE"} \X OutE \cup {"EraseInE"} \X InE

(* Of a vertex that was cut, by the scan or by an abort, the entry in the  *)
(* vertex map, its lists, and, once these are freed, its edges' entries.   *)
Left(v) ==
  (IF db.vtx[v] = "cut" THEN {<<"EraseV", v>>} ELSE {})
    \cup (IF db.vp[v] # "freed" THEN {<<"VPRowGC", <<"VPRowGC", v>>>>} ELSE {})
    \cup (IF db.topo[v] THEN {<<"TopoRowGC", <<"TopoRowGC", v>>>>}
          ELSE {<<IF e \in OutE THEN "EraseOutE" ELSE "EraseInE", e>> : e \in {x \in db.emap : Home[x] = v}})

LeftOver == UNION {Left(v) : v \in {x \in Vertex : db.vtx[x] \in {"cut", "gone"}}}

(* The task is in an open job that has not got enough of its kind. *)
BelowThreshold(d) == d[2] \in gc.jobs[d[1]].tasks /\ gc.jobs[d[1]].cost < Threshold[d[1]]

(* A vertex that was cut is given back in full: its lists are freed, its   *)
(* edges leave the maps and it leaves the vertex map, whatever             *)
(* defragmentations were under way when it died; only a task whose job     *)
(* never comes to its COST_THRESHOLD is left.                              *)
VertexReclaimed ==
  \A d \in Duty : []<>(~Alive \/ d \notin LeftOver) \/ <>[]BelowThreshold(d)

(* A property list that no version of an edge holds any more has a task    *)
(* that will free it ("free memory allocated", gc_producer.hpp).           *)
CutListsHaveTask ==
  Alive => \A p \in Ptr : db.ep[p] # "freed" =>
    \/ \E e \in OutE : p \in EPLists(db, e)
    \/ \E e \in OutE : /\ EPKey(<<e, p>>) \in DOMAIN gc.tasks
                       /\ Status(gc, EPKey(<<e, p>>)) # "EMPTY"
                       /\ \A i \in DOMAIN finished : EPKey(<<e, p>>) \notin finished[i].tasks

=============================================================================
