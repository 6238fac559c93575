---------------------------- MODULE TrxProtocol -----------------------------
(***************************************************************************)
(* The life of a transaction at the SERIALIZABLE level, across the workers:*)
(* begin time, queries, commit time and recent-transaction table (RCT),    *)
(* validation on every worker, the post-validation barrier, termination.   *)
(*                                                                         *)
(* driver/worker.hpp and core/coordinator.cpp allocate the timestamps and  *)
(* answer RCT queries, layout/mvcc_list.tpp reads and writes the versions, *)
(* expert/validation_expert.cpp validates, expert/barrier_expert.cpp and   *)
(* expert/terminate_expert.cpp decide and terminate.  A key stands for one *)
(* version list; a list is here its committed versions and the owner of an *)
(* uncommitted tail, as MVCCList shows it to be.                           *)
(*                                                                         *)
(* One clock serves all workers: the distributed clock is taken to be      *)
(* perfectly calibrated.                                                   *)
(***************************************************************************)
EXTENDS Integers, Sequences, FiniteSets

CONSTANTS
  Worker, Trx, Key,
  Home,          \* Home[t]: the worker that coordinates t
  Place,         \* Place[k]: the worker that stores k
  Reads, Writes, \* Reads[t], Writes[t]: the keys the queries of t touch
  NoTrx,         \* no transaction; also the writer of the loaded versions
  EnableOptPreread,     \* config: global_enable_opt_preread
  EnableOptValidation,  \* config: global_enable_opt_validation
  Locks          \* FALSE in a build that defines NDEBUG: WritePriorRWLock
                 \* locks and unlocks inside assert()

ASSUME TrxAssumption ==
  /\ NoTrx \notin Trx
  /\ IsFiniteSet(Trx)
  /\ EnableOptPreread \in BOOLEAN
  /\ EnableOptValidation \in BOOLEAN
  /\ Locks \in BOOLEAN

ASSUME PlacementAssumption ==
  /\ Home \in [Trx -> Worker]
  /\ Place \in [Key -> Worker]
  /\ Reads \in [Trx -> SUBSET Key]
  /\ Writes \in [Trx -> SUBSET Key]

ReadOnly(t) == Writes[t] = {}

(* At most a begin time and a commit time for every transaction. *)
MaxTS == 2 * Cardinality(Trx)

VARIABLES
  clock,      \* last timestamp handed out, by any worker
  pending_ts, \* pending_allocated_timestamp_ of a worker: [trx, type, ts]
  plan,       \* where the TrxPlan of a transaction stands
  bt,         \* st_ of the plan
  tst,        \* status table: [st, ct] of a transaction
  updates,    \* status updates queued or on their way: <<trx, status>>
  rct,        \* RCTable of a worker: <<ct, trx>>
  queries,    \* QUERY_RCT notifications under way: <<worker, trx>>
  answers,    \* RCT_TIDS notifications under way: <<worker, trx, trx ids>>
  rct_list,   \* rct_trx_id_list collected for a transaction
  collected,  \* workers whose RCT result has been collected
  executing,  \* operations inside ExpertAdapter::execute
  done,       \* operations that have ended: <<"read" | "write", key>>
  versions,   \* committed versions of a key: [by, ct], oldest first
  tail,       \* owner of the uncommitted tail of a key, or NoTrx
  from,       \* from[t][k]: whose version of k the transaction read
  homo, hetero, \* dep_trx_map of a worker
  vote,       \* validation of a transaction on a worker
  opt,        \* optimistic_validation_trx of that validation
  term,       \* termination of a transaction on a worker
  outcome     \* what the post-validation barrier decided

tsVars == <<clock, pending_ts>>
rctVars == <<rct, queries, answers, rct_list, collected>>
dataVars == <<executing, done, versions, tail, from, homo, hetero>>
endVars == <<vote, opt, term, outcome>>
vars == <<clock, pending_ts, plan, bt, tst, updates, rct, queries, answers,
          rct_list, collected, executing, done, versions, tail, from, homo,
          hetero, vote, opt, term, outcome>>

Ops(t) == ({"read"} \X Reads[t]) \cup ({"write"} \X Writes[t])

(* TypeOK: every variable has its type; every timestamp is one the clock   *)
(* has handed out, at most two for each transaction.                       *)
TypeOK ==
  /\ clock \in 0 .. MaxTS
  /\ \A w \in Worker : \A i \in 1 .. Len(pending_ts[w]) :
       pending_ts[w][i] \in [trx : Trx, type : {"begin", "commit"}, ts : 1 .. MaxTS]
  /\ plan \in [Trx -> {"parsed", "begin", "run", "request", "commit", "validate", "abort", "end"}]
  /\ bt \in [Trx -> 0 .. MaxTS]
  /\ tst \in [Trx -> [st : {"none", "P", "V", "C", "A"}, ct : 0 .. MaxTS]]
  /\ updates \subseteq Trx \X {"C", "A"}
  /\ rct \in [Worker -> SUBSET ((1 .. MaxTS) \X Trx)]
  /\ queries \subseteq Worker \X Trx
  /\ \A a \in answers : a[1] \in Worker /\ a[2] \in Trx /\ a[3] \subseteq Trx
  /\ rct_list \in [Trx -> SUBSET Trx]
  /\ collected \in [Trx -> SUBSET Worker]
  /\ \A t \in Trx : executing[t] \subseteq Ops(t) /\ done[t] \subseteq Ops(t)
  /\ \A k \in Key : \A i \in 1 .. Len(versions[k]) :
       versions[k][i] \in [by : Trx \cup {NoTrx}, ct : 0 .. MaxTS]
  /\ tail \in [Key -> Trx \cup {NoTrx}]
  /\ from \in [Trx -> [Key -> Trx \cup {NoTrx}]]
  /\ homo \in [Worker -> [Trx -> SUBSET Trx]]
  /\ hetero \in [Worker -> [Trx -> SUBSET Trx]]
  /\ vote \in [Worker -> [Trx -> {"none", "start", "step", "opt", "homo", "commit", "abort"}]]
  /\ opt \in [Worker -> [Trx -> SUBSET Trx]]
  /\ term \in [Worker -> [Trx -> {"none", "init", "abort", "commit", "exit"}]]
  /\ outcome \in [Trx -> {"none", "commit", "abort"}]

Init ==
  /\ clock = 0
  /\ pending_ts = [w \in Worker |-> <<>>]
  /\ plan = [t \in Trx |-> "parsed"]
  /\ bt = [t \in Trx |-> 0]
  /\ tst = [t \in Trx |-> [st |-> "none", ct |-> 0]]
  /\ updates = {}
  /\ rct = [w \in Worker |-> {}]
  /\ queries = {}
  /\ answers = {}
  /\ rct_list = [t \in Trx |-> {}]
  /\ collected = [t \in Trx |-> {}]
  /\ executing = [t \in Trx |-> {}]
  /\ done = [t \in Trx |-> {}]
  /\ versions = [k \in Key |-> <<[by |-> NoTrx, ct |-> 0]>>]
  /\ tail = [k \in Key |-> NoTrx]
  /\ from = [t \in Trx |-> [k \in Key |-> NoTrx]]
  /\ homo = [w \in Worker |-> [t \in Trx |-> {}]]
  /\ hetero = [w \in Worker |-> [t \in Trx |-> {}]]
  /\ vote = [w \in Worker |-> [t \in Trx |-> "none"]]
  /\ opt = [w \in Worker |-> [t \in Trx |-> {}]]
  /\ term = [w \in Worker |-> [t \in Trx |-> "none"]]
  /\ outcome = [t \in Trx |-> "none"]

-----------------------------------------------------------------------------
(* Coordinator::ProcessTimestampRequest: one thread per worker answers the *)
(* requests for begin and commit times, in a queue.                        *)
Allocate(t, type, next) ==
  /\ clock' = clock + 1
  /\ pending_ts' = [pending_ts EXCEPT ![Home[t]] =
                      Append(@, [trx |-> t, type |-> type, ts |-> clock + 1])]
  /\ plan' = [plan EXCEPT ![t] = next]
  /\ UNCHANGED <<bt, tst, updates, rctVars, dataVars, endVars>>

ProcessTimestampRequest(t) ==
  \/ plan[t] = "parsed" /\ Allocate(t, "begin", "begin")
  \/ plan[t] = "request" /\ Allocate(t, "commit", "commit")

(* Fault of query_trx: c is not looked at. *)
query_trxOpen(table, b, c) ==
  {x[2] : x \in {y \in table : b <= y[1]}}

(* RCTable::query_trx *)
query_trx(table, b, c) ==
  IF c <= b THEN {} ELSE {x[2] : x \in {y \in table : b <= y[1] /\ y[1] <= c}}

(* SendInitMsgForQuery of the validation query, to every worker. *)
SendValidation(t) ==
  /\ plan' = [plan EXCEPT ![t] = "validate"]
  /\ vote' = [w \in Worker |-> [vote[w] EXCEPT ![t] = "start"]]
  /\ UNCHANGED <<opt, term, outcome>>

(* Worker::InsertQueryRCTResult: the result of the last worker releases    *)
(* the validation query.                                                   *)
InsertQueryRCTResult(t, w, ids) ==
  /\ rct_list' = [rct_list EXCEPT ![t] = @ \cup ids]
  /\ collected' = [collected EXCEPT ![t] = @ \cup {w}]
  /\ IF collected[t] \cup {w} = Worker THEN SendValidation(t)
                                       ELSE UNCHANGED <<plan, endVars>>

(* Worker::ProcessAllocatedTimestamp, BEGIN_TIME: the transaction enters   *)
(* the status table and its queries are sent out.                          *)
BeginTime(w) ==
  LET a == Head(pending_ts[w]) IN
  /\ pending_ts[w] # <<>>
  /\ a.type = "begin"
  /\ bt' = [bt EXCEPT ![a.trx] = a.ts]
  /\ tst' = [tst EXCEPT ![a.trx] = [st |-> "P", ct |-> 0]]
  /\ plan' = [plan EXCEPT ![a.trx] = "run"]
  /\ pending_ts' = [pending_ts EXCEPT ![w] = Tail(@)]
  /\ UNCHANGED <<clock, updates, rctVars, dataVars, endVars>>

(* Worker::ProcessAllocatedTimestamp, COMMIT_TIME: into the RCT, status    *)
(* VALIDATING, the local RCT is queried and the other workers are asked.   *)
CommitTime(w) ==
  LET a == Head(pending_ts[w]) IN
  /\ pending_ts[w] # <<>>
  /\ a.type = "commit"
  /\ rct' = [rct EXCEPT ![w] = @ \cup {<<a.ts, a.trx>>}]
  /\ tst' = [tst EXCEPT ![a.trx] = [st |-> "V", ct |-> a.ts]]
  /\ InsertQueryRCTResult(a.trx, w, query_trx(rct'[w], bt[a.trx], a.ts - 1))
  /\ queries' = queries \cup ((Worker \ {w}) \X {a.trx})
  /\ pending_ts' = [pending_ts EXCEPT ![w] = Tail(@)]
  /\ UNCHANGED <<clock, bt, updates, answers, dataVars>>

(* Coordinator::ProcessQueryRCTRequest on another worker. *)
ProcessQueryRCTRequest(w, t) ==
  /\ <<w, t>> \in queries
  /\ queries' = queries \ {<<w, t>>}
  /\ answers' = answers \cup {<<w, t, query_trx(rct[w], bt[t], tst[t].ct - 1)>>}
  /\ UNCHANGED <<tsVars, plan, bt, tst, updates, rct, rct_list, collected,
                 dataVars, endVars>>

(* Worker::RecvNotification, RCT_TIDS. *)
RecvRCTTids(a) ==
  /\ a \in answers
  /\ answers' = answers \ {a}
  /\ InsertQueryRCTResult(a[2], a[1], a[3])
  /\ UNCHANGED <<tsVars, bt, tst, updates, rct, queries, dataVars>>

(* Coordinator::ProcessTrxTableWriteReqs: a queued update reaches the      *)
(* status table.                                                           *)
ProcessTrxTableWriteReqs(u) ==
  /\ u \in updates
  /\ updates' = updates \ {u}
  /\ tst' = [tst EXCEPT ![u[1]].st = u[2]]
  /\ UNCHANGED <<tsVars, plan, bt, rctVars, dataVars, endVars>>

-----------------------------------------------------------------------------
(* ExpertAdapter::execute takes the read lock of the transaction and runs  *)
(* an operation of it unless the status table says ABORT.  Queries of a    *)
(* transaction run in parallel, so one may start after another has failed. *)
Execute(t, op) ==
  /\ plan[t] \in {"run", "abort"}
  /\ op \in Ops(t) \ (executing[t] \cup done[t])
  /\ tst[t].st # "A"
  /\ executing' = [executing EXCEPT ![t] = @ \cup {op}]
  /\ UNCHANGED <<tsVars, plan, bt, tst, updates, rctVars, done, versions, tail,
                 from, homo, hetero, endVars>>

(* The operation ends, well or not, and the lock is released. *)
EndsOp(t, op) ==
  /\ op \in executing[t]
  /\ executing' = [executing EXCEPT ![t] = @ \ {op}]
  /\ done' = [done EXCEPT ![t] = @ \cup {op}]

(* Fault: the failure is not recorded in the status table. *)
AbortProcessingSilent(t) ==
  /\ plan' = IF plan[t] = "run" THEN [plan EXCEPT ![t] = "abort"] ELSE plan
  /\ term' = IF plan[t] = "run"
             THEN [w \in Worker |-> [term[w] EXCEPT ![t] = "init"]] ELSE term
  /\ UNCHANGED <<updates, versions, tail, from, homo, hetero, vote, opt, outcome>>

(* A failed operation: update_status(ABORT), and the plan is told, which   *)
(* sends the abort statement to every worker once (TrxPlan::Abort).  The   *)
(* main loop ignores a reply for a plan that is gone.                      *)
AbortProcessing(t) ==
  /\ updates' = updates \cup {<<t, "A">>}
  /\ plan' = IF plan[t] = "run" THEN [plan EXCEPT ![t] = "abort"] ELSE plan
  /\ term' = IF plan[t] = "run"
             THEN [w \in Worker |-> [term[w] EXCEPT ![t] = "init"]] ELSE term
  /\ UNCHANGED <<versions, tail, from, homo, hetero, vote, opt, outcome>>

(* The operation returns what transaction u has written, and records at    *)
(* most one dependency.                                                    *)
Returns(t, k, u, newHomo, newHetero) ==
  /\ from' = [from EXCEPT ![t][k] = u]
  /\ homo' = [homo EXCEPT ![Place[k]][t] = @ \cup newHomo]
  /\ hetero' = [hetero EXCEPT ![Place[k]][t] = @ \cup newHetero]
  /\ UNCHANGED <<versions, tail, updates, plan, endVars>>

(* Fault: the commit time of the owner is not compared. *)
TryPreReadAnyTail(t, k, v, u) ==
  \/ tst[u].st = "V" /\ Returns(t, k, u, {u}, {})
  \/ tst[u].st = "C" /\ Returns(t, k, u, {}, {})
  \/ tst[u].st \in {"P", "A"} /\ Returns(t, k, v.by, {}, {})

(* TryPreReadUncommittedTail: cases 1 to 6 of its comment.  v is the last  *)
(* committed version, u the owner of the uncommitted tail.                 *)
TryPreReadUncommittedTail(t, k, v, u) ==
  LET younger == bt[t] > tst[u].ct IN
  IF ~ EnableOptPreread THEN AbortProcessing(t)
  ELSE \/ tst[u].st = "V" /\ younger /\ Returns(t, k, u, {u}, {})
       \/ /\ tst[u].st = "V" /\ ~ younger
          /\ Returns(t, k, v.by, {}, IF ReadOnly(t) THEN {} ELSE {u})
       \/ tst[u].st = "C" /\ younger /\ Returns(t, k, u, {}, {})
       \/ tst[u].st = "C" /\ ~ younger /\ ~ ReadOnly(t) /\ AbortProcessing(t)
       \/ tst[u].st = "C" /\ ~ younger /\ ReadOnly(t) /\ Returns(t, k, v.by, {}, {})
       \/ tst[u].st \in {"P", "A"} /\ Returns(t, k, v.by, {}, {})

(* SerializableLevelGetVisibleVersion *)
Read(t, k) ==
  LET vs == versions[k]
      i == CHOOSE j \in 1 .. Len(vs) :
             /\ vs[j].ct <= bt[t]
             /\ j = Len(vs) \/ bt[t] < vs[j + 1].ct
  IN
  /\ EndsOp(t, <<"read", k>>)
  /\ IF tail[k] = t THEN Returns(t, k, t, {}, {})
     ELSE IF i = Len(vs) /\ tail[k] # NoTrx
          THEN TryPreReadUncommittedTail(t, k, vs[i], tail[k])
     ELSE IF ~ ReadOnly(t) /\ i < Len(vs) THEN AbortProcessing(t)
     ELSE Returns(t, k, vs[i].by, {}, {})
  /\ UNCHANGED <<tsVars, bt, tst, rctVars>>

(* AppendVersion: a tail of another transaction is a conflict. *)
Write(t, k) ==
  /\ EndsOp(t, <<"write", k>>)
  /\ IF tail[k] \in {NoTrx, t}
     THEN /\ tail' = [tail EXCEPT ![k] = t]
          /\ UNCHANGED <<versions, from, homo, hetero, updates, plan, endVars>>
     ELSE AbortProcessing(t)
  /\ UNCHANGED <<tsVars, bt, tst, rctVars>>

(* Worker::RegisterQuery when all queries have returned: a read-only       *)
(* transaction validates at once, any other one requests a commit time.    *)
RegisterValidation(t) ==
  /\ plan[t] = "run"
  /\ done[t] = Ops(t)
  /\ IF ReadOnly(t)
     THEN /\ tst' = [tst EXCEPT ![t] = [st |-> "V", ct |-> bt[t]]]
          /\ SendValidation(t)
     ELSE /\ plan' = [plan EXCEPT ![t] = "request"]
          /\ UNCHANGED <<tst, endVars>>
  /\ UNCHANGED <<tsVars, bt, updates, rctVars, dataVars>>

-----------------------------------------------------------------------------
Vote(w, t, v) == vote' = [vote EXCEPT ![w][t] = v]

update_status(t, st) == updates' = updates \cup {<<t, st>>}

Here(w, keys) == {k \in keys : Place[k] = w}

(* Fault: the action sets are compared with each other. *)
ConflictsOfActions(w, t) ==
  {r \in rct_list[t] : Here(w, Writes[t]) \cap Here(w, Writes[r]) # {}}

(* Transactions of the RCT list whose action sets on this worker meet the  *)
(* input sets the experts have recorded here.                              *)
Conflicts(w, t) ==
  {r \in rct_list[t] : Here(w, Reads[t]) \cap Here(w, Writes[r]) # {}}

(* valid_dependency_read: FALSE is an abort. *)
valid_dependency_read(w, t) ==
  /\ \A u \in homo[w][t] : tst[u].st # "A"
  /\ \A u \in hetero[w][t] : tst[u].st # "C"

(* do_step_validation finds the transaction aborted by another worker. *)
AbortedElsewhere(w, t) ==
  /\ tst[t].st = "A"
  /\ Here(w, Reads[t]) # {}
  /\ \E r \in rct_list[t] : Here(w, Writes[r]) # {}

(* Fault: a committed transaction is let pass like an aborted one. *)
ConflictingUnfinished(w, t) ==
  \E r \in Conflicts(w, t) :
    ~ EnableOptValidation \/ tst[r].st \notin {"V", "A", "C"}

(* A conflict with a transaction that is neither validating nor aborted. *)
Conflicting(w, t) ==
  \E r \in Conflicts(w, t) :
    ~ EnableOptValidation \/ tst[r].st \notin {"V", "A"}

(* ValidationExpert::process, step 0. *)
StartValidation(w, t) ==
  /\ vote[w][t] = "start"
  /\ IF ReadOnly(t)
     THEN Vote(w, t, "homo") /\ UNCHANGED updates
     ELSE IF valid_dependency_read(w, t)
     THEN Vote(w, t, "step") /\ UNCHANGED updates
     ELSE Vote(w, t, "abort") /\ update_status(t, "A")
  /\ UNCHANGED <<tsVars, plan, bt, tst, rctVars, dataVars, opt, term, outcome>>

(* ValidationExpert::validate, steps 1.0 to 1.5. *)
StepValidation(w, t) ==
  /\ vote[w][t] = "step"
  /\ IF AbortedElsewhere(w, t)
     THEN Vote(w, t, "abort") /\ UNCHANGED <<updates, opt>>
     ELSE IF Conflicting(w, t)
     THEN Vote(w, t, "abort") /\ update_status(t, "A") /\ UNCHANGED opt
     ELSE /\ Vote(w, t, "opt")
          /\ opt' = [opt EXCEPT ![w][t] = {r \in Conflicts(w, t) : tst[r].st = "V"}]
          /\ UNCHANGED updates
  /\ UNCHANGED <<tsVars, plan, bt, tst, rctVars, dataVars, term, outcome>>

(* valid_optimistic_validation, step 1.6: waits for the transactions that  *)
(* were validating.  An abort here, for a commit or for the timeout, does  *)
(* not update the status.                                                  *)
ValidOptimisticValidation(w, t) ==
  LET st == {tst[r].st : r \in opt[w][t]} IN
  /\ vote[w][t] = "opt"
  /\ \/ "C" \in st /\ Vote(w, t, "abort")
     \/ st \subseteq {"A"} /\ Vote(w, t, "homo")
     \/ "C" \notin st /\ "V" \in st /\ Vote(w, t, "abort")   \* OPT_VALID_TIMEOUT_
  /\ UNCHANGED <<tsVars, plan, bt, tst, updates, rctVars, dataVars, opt, term,
                 outcome>>

(* valid_optimistic_read: waits for the owners of the versions read ahead  *)
(* of their commit.  Only for a read-only transaction an abort here        *)
(* updates the status.                                                     *)
ValidOptimisticRead(w, t) ==
  LET st == {tst[r].st : r \in homo[w][t]}
      Fail == Vote(w, t, "abort") /\ IF ReadOnly(t) THEN update_status(t, "A")
                                                    ELSE UNCHANGED updates
  IN
  /\ vote[w][t] = "homo"
  /\ \/ "A" \in st /\ Fail
     \/ st \subseteq {"C"} /\ Vote(w, t, "commit") /\ UNCHANGED updates
     \/ "A" \notin st /\ "V" \in st /\ Fail   \* OPT_VALID_TIMEOUT_
  /\ UNCHANGED <<tsVars, plan, bt, tst, rctVars, dataVars, opt, term, outcome>>

(* Fault: the barrier trusts the status table, which lags behind. *)
PostValidationByStatus(t) ==
  /\ plan[t] = "validate"
  /\ outcome[t] = "none"
  /\ \A w \in Worker : vote[w][t] \in {"commit", "abort"}
  /\ LET o == IF tst[t].st = "A" THEN "abort" ELSE "commit" IN
       /\ outcome' = [outcome EXCEPT ![t] = o]
       /\ term' = [w \in Worker |-> [term[w] EXCEPT ![t] = o]]
       /\ IF o = "commit" THEN update_status(t, "C") ELSE UNCHANGED updates
  /\ UNCHANGED <<tsVars, plan, bt, tst, rctVars, dataVars, vote, opt>>

(* PostValidationExpert::do_work, when the messages of all workers are in. *)
PostValidation(t) ==
  /\ plan[t] = "validate"
  /\ outcome[t] = "none"
  /\ \A w \in Worker : vote[w][t] \in {"commit", "abort"}
  /\ LET o == IF \E w \in Worker : vote[w][t] = "abort" THEN "abort" ELSE "commit" IN
       /\ outcome' = [outcome EXCEPT ![t] = o]
       /\ term' = [w \in Worker |-> [term[w] EXCEPT ![t] = o]]
       /\ IF o = "commit" THEN update_status(t, "C") ELSE UNCHANGED updates
  /\ UNCHANGED <<tsVars, plan, bt, tst, rctVars, dataVars, vote, opt>>

-----------------------------------------------------------------------------
(* Fault: the abort statement does not wait for the status. *)
MayTerminateAtOnce(w, t) ==
  /\ term[w][t] \in {"commit", "abort", "init"}
  /\ Locks => \A op \in executing[t] : Place[op[2]] # w

(* ExpertAdapter::execute of the terminate expert.  The abort statement of *)
(* a transaction that failed while processing takes the write lock and     *)
(* waits until its status is ABORT.                                        *)
MayTerminate(w, t) ==
  \/ term[w][t] \in {"commit", "abort"}
  \/ /\ term[w][t] = "init"
     /\ tst[t].st = "A"
     /\ Locks => \A op \in executing[t] : Place[op[2]] # w

(* Fault: a version is stamped with the begin time of its writer. *)
TerminateVersionAtBegin(t, k) ==
  LET w == Place[k] IN
  /\ MayTerminate(w, t)
  /\ tail[k] = t
  /\ tail' = [tail EXCEPT ![k] = NoTrx]
  /\ versions' = IF term[w][t] = "commit"
                 THEN [versions EXCEPT ![k] = Append(@, [by |-> t, ct |-> bt[t]])]
                 ELSE versions
  /\ UNCHANGED <<tsVars, plan, bt, tst, updates, rctVars, executing, done, from,
                 homo, hetero, endVars>>

(* DataStorage::Commit and DataStorage::Abort, one list at a time. *)
TerminateVersion(t, k) ==
  LET w == Place[k] IN
  /\ MayTerminate(w, t)
  /\ tail[k] = t
  /\ tail' = [tail EXCEPT ![k] = NoTrx]
  /\ versions' = IF term[w][t] = "commit"
                 THEN [versions EXCEPT ![k] = Append(@, [by |-> t, ct |-> tst[t].ct])]
                 ELSE versions
  /\ UNCHANGED <<tsVars, plan, bt, tst, updates, rctVars, executing, done, from,
                 homo, hetero, endVars>>

(* Then the dependencies are cleaned and the exit message is sent. *)
Exit(w, t) ==
  /\ MayTerminate(w, t)
  /\ \A k \in Key : Place[k] = w => tail[k] # t
  /\ term' = [term EXCEPT ![w][t] = "exit"]
  /\ homo' = [homo EXCEPT ![w][t] = {}]
  /\ hetero' = [hetero EXCEPT ![w][t] = {}]
  /\ UNCHANGED <<tsVars, plan, bt, tst, updates, rctVars, executing, done,
                 versions, tail, from, vote, opt, outcome>>

(* All exit messages are in: the main loop answers the client. *)
ReplyClient(t) ==
  /\ plan[t] \in {"validate", "abort"}
  /\ \A w \in Worker : term[w][t] = "exit"
  /\ plan' = [plan EXCEPT ![t] = "end"]
  /\ UNCHANGED <<tsVars, bt, tst, updates, rctVars, dataVars, endVars>>

Idle ==
  /\ \A t \in Trx : plan[t] = "end"
  /\ updates = {}
  /\ UNCHANGED vars

Next ==
  \/ \E t \in Trx : \/ ProcessTimestampRequest(t) \/ RegisterValidation(t)
                    \/ PostValidation(t) \/ ReplyClient(t)
  \/ \E w \in Worker : BeginTime(w) \/ CommitTime(w)
  \/ \E w \in Worker, t \in Trx :
       \/ ProcessQueryRCTRequest(w, t)
       \/ StartValidation(w, t) \/ StepValidation(w, t)
       \/ ValidOptimisticValidation(w, t) \/ ValidOptimisticRead(w, t)
       \/ Exit(w, t)
  \/ \E t \in Trx : \E op \in Ops(t) : Execute(t, op)
  \/ \E t \in Trx, k \in Key : Read(t, k) \/ Write(t, k) \/ TerminateVersion(t, k)
  \/ \E a \in answers : RecvRCTTids(a)
  \/ \E u \in updates : ProcessTrxTableWriteReqs(u)
  \/ Idle

Spec == Init /\ [][Next]_vars

(* Every thread keeps running. *)
FairSpec == Spec /\ WF_vars(Next)

-----------------------------------------------------------------------------
CommittedTrx == {t \in Trx : outcome[t] = "commit"}

(* The point in time at which a transaction takes effect. *)
Point(t) == IF ReadOnly(t) THEN bt[t] ELSE tst[t].ct

(* The version of k that t read is the one that was current at time p. *)
ReadsCurrent(t, k, p) ==
  LET older == {u \in CommittedTrx \ {t} : k \in Writes[u] /\ Point(u) < p} IN
  \/ from[t][k] = t
  \/ from[t][k] = NoTrx /\ older = {}
  \/ from[t][k] \in older /\ \A u \in older : Point(u) <= Point(from[t][k])

(* The committed transactions are serializable in the order of their       *)
(* commit times: every one of them, read-only ones at their begin time,    *)
(* has read what the last committed writer before it has written.          *)
SerializableInCommitOrder ==
  \A t \in CommittedTrx : \A k \in Reads[t] : ReadsCurrent(t, k, Point(t))

(* The committed transactions are serializable at all: some order of them  *)
(* gives every transaction the versions it has read.                       *)
LastBefore(pos, t, k) ==
  LET older == {u \in CommittedTrx \ {t} : k \in Writes[u] /\ pos[u] < pos[t]} IN
  \/ from[t][k] = t
  \/ from[t][k] = NoTrx /\ older = {}
  \/ from[t][k] \in older /\ \A u \in older : pos[u] <= pos[from[t][k]]

Serializable ==
  \E pos \in [CommittedTrx -> 1 .. Cardinality(CommittedTrx)] :
    /\ \A t, u \in CommittedTrx : pos[t] = pos[u] => t = u
    /\ \A t \in CommittedTrx : \A k \in Reads[t] : LastBefore(pos, t, k)

(* Versions are committed in the order of their commit times, so the walk  *)
(* of a reader and the lifetimes of the versions make sense.               *)
VersionsInCommitOrder ==
  \A k \in Key : \A i \in 1 .. Len(versions[k]) - 1 :
    versions[k][i].ct < versions[k][i + 1].ct

(* A terminated transaction has left no uncommitted version behind: no     *)
(* query of it ran after the abort statement, although the queries run in  *)
(* parallel and the status is updated asynchronously.                      *)
NoOrphanVersion ==
  \A k \in Key : tail[k] # NoTrx => term[Place[k]][tail[k]] # "exit"

(* No CHECK of TidStatus can fail: COMMITTED only follows VALIDATING, and  *)
(* no ABORT is under way for a transaction that commits.                   *)
StatusChecksHold ==
  \A u \in updates :
    /\ u[2] = "C" => tst[u[1]].st = "V" /\ <<u[1], "A">> \notin updates
    /\ u[2] = "A" => tst[u[1]].st \in {"P", "V", "A"}

(* A validation only waits for transactions with a smaller commit time, so *)
(* validations never wait for each other in a circle.                      *)
WaitsForOlder ==
  \A w \in Worker, t \in Trx :
    /\ vote[w][t] = "opt" => \A r \in opt[w][t] : tst[r].ct < tst[t].ct
    /\ vote[w][t] = "homo" => \A r \in homo[w][t] : tst[r].ct < bt[t]

(* Every transaction is answered. *)
EveryTrxEnds == <>(\A t \in Trx : plan[t] = "end")

(* The status table has the outcome of an ended transaction. *)
OutcomeInStatusTable ==
  \A t \in Trx : plan[t] = "end" /\ updates = {}
    => tst[t].st = IF outcome[t] = "commit" THEN "C" ELSE "A"
=============================================================================
