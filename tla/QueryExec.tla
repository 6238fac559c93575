------------------------------ MODULE QueryExec ------------------------------
(***************************************************************************)
(* The life of one transaction on all workers: the parent worker sends the *)
(* queries whose dependencies are met (driver/worker.hpp, core/exec_plan), *)
(* every node runs the experts on the messages it gets                     *)
(* (core/experts_adapter.hpp), the results are collected, and in the end   *)
(* the commit statement validates, broadcasts the decision and cleans up.  *)
(*                                                                         *)
(* With work stealing and several threads per node two messages of a node  *)
(* may be taken in any order, so the network is a bag.  Taking a message,  *)
(* with all it sends, is one step: a table entry is locked meanwhile.  A   *)
(* message that is not due (its query's plan has not arrived, the values   *)
(* it tests against have not) is thrown back by the code and waits here.   *)
(***************************************************************************)
EXTENDS MessageRoute, Bags

CONSTANTS
  Transactions,   \* a sequence of transactions, each a sequence of lines
  Graph0,         \* the graph they start from
  Faults(_)       \* what may go wrong: subset of {"none", "process", "sameEdge", "validate"}

VARIABLES
  tx,        \* which transaction, and what may go wrong with it
  plans,     \* TrxPlan::query_plans_
  trx,       \* the rest of TrxPlan: deps, results, aborted, end
  net,       \* the messages on their way
  logic,     \* msg_logic_table_ of every node: the pairs <<node, query>>
  tab,       \* data_table_ of the barrier and branch filter experts
  agg,       \* DataStorage's aggregate data, by node, query and key
  nextId,    \* msg_id_alloc of every node
  graph,     \* the transaction's view of the graph
  fate,      \* per node: "open", "committed" or "aborted"
  status,    \* [cur: TransactionStatusTable's entry, req: updates on their way to it]
  replies,   \* ResultCollector
  exits      \* exit_msg_count_table_, and whether the client has its reply

vars == <<tx, plans, trx, net, logic, tab, agg, nextId, graph, fate, status, replies, exits>>

LastQuery == Len(plans)

(* Queries without open dependencies are sent and leave deps_count_. *)
Ready(t) == {q \in DOMAIN t.deps : t.deps[q] = 0}

SentOut(t) == [t EXCEPT !.deps = Restrict(@, DOMAIN @ \ Ready(t))]

SendInitMsgs(t, ps) ==
  LET qs == Ascending(Ready(t), <)
  IN ToBag(FlattenSeq([i \in DOMAIN qs |-> CreateInitMsg(qs[i], ps[qs[i]])]))

Init ==
  \E i \in DOMAIN Transactions : \E f \in Faults(i) :
    /\ tx = [i |-> i, fault |-> f]
    /\ \E env \in {Parse(Transactions[i])} :
         LET t == [deps |-> [q \in 1 .. Len(env.plans) |-> Cardinality({d \in env.topo : d[2] = q})],
                   topo |-> env.topo, regs |-> env.regs, results |-> <<>>,
                   aborted |-> FALSE, late |-> FALSE, end |-> FALSE]
         IN /\ ~env.err
            /\ plans = env.plans
            /\ trx = SentOut(t)
            /\ net = SendInitMsgs(t, env.plans)
    /\ logic = {} /\ tab = <<>> /\ agg = <<>>
    /\ nextId = [n \in Nodes |-> 0]
    /\ graph = Graph0
    /\ fate = [n \in Nodes |-> "open"]
    /\ status = [cur |-> "PROCESSING", req |-> {}]
    /\ replies = <<>>
    /\ exits = [n |-> 0, replied |-> FALSE]

-----------------------------------------------------------------------------
(* Barriers.  w is what one thread changes while it works on one message:  *)
(* [tab, agg, out, rep, req], messages, replies and status updates.        *)

EmptyAcc(e) == CASE e.t = "END" -> [res |-> <<>>, abort |-> FALSE]
                 [] e.t = "POSTVALIDATION" -> [abort |-> FALSE]
                 [] OTHER -> <<>>

(* do_work, the part that gathers the message's data *)
Gather(e, acc, m, keep) ==
  LET key == IF m.br = <<>> THEN -1 ELSE Info(m).key
      add(a, pr) == CASE e.t = "COUNT" -> CountCollect(a, key, pr)
                      [] e.t = "DEDUP" -> DedupCollect(e, a, key, pr)
                      [] e.t = "GROUP" -> GroupCollect(e, a, key, pr)
                      [] e.t = "ORDER" -> OrderCollect(e, a, key, pr)
                      [] e.t = "RANGE" -> RangeCollect(e, a, key, pr)
                      [] e.t = "COIN" -> CoinCollect(keep, a, key, pr)
                      [] e.t = "MATH" -> MathCollect(e, a, key, pr)
                      [] e.t = "AGGREGATE" -> AggregateCollect(a, pr)
                      [] e.t = "CAP" -> a
                      [] e.t = "END" -> IF a.abort THEN a ELSE [a EXCEPT !.res = @ \o pr[2]]
                      [] e.t = "POSTVALIDATION" -> a
  IN CASE e.t = "END" /\ m.ty = "ABORT" -> [res |-> m.data[1][2], abort |-> TRUE]
       [] e.t = "POSTVALIDATION" /\ m.ty = "ABORT" -> [abort |-> TRUE]
       [] OTHER -> FoldLeft(add, acc, m.data)

(* CapExpert: one value per side-effect key. *)
CapEmit(e, ag, n, q) ==
  <<<<<<>>, [i \in DOMAIN e.p |-> <<9, e.p[i][2], At(ag, <<n, q, e.p[i][1]>>, <<>>)>>]>>>>

(* do_work, the part that sends on what was gathered *)
Emit(e, acc, w, n, q) ==
  CASE e.t = "COUNT" -> CountEmit(acc)
    [] e.t = "DEDUP" -> DedupEmit(acc)
    [] e.t = "GROUP" -> GroupEmit(e, acc)
    [] e.t = "ORDER" -> OrderEmit(e, acc)
    [] e.t = "RANGE" -> RangeEmit(acc)
    [] e.t = "COIN" -> CoinEmit(acc)
    [] e.t = "MATH" -> MathEmit(e, acc)
    [] e.t = "AGGREGATE" -> acc
    [] e.t = "CAP" -> CapEmit(e, w.agg, n, q)

(* AggregateExpert: the values for this node, and to the others. *)
Publish(w, n, m, e, acc) ==
  LET vals == FlattenSeq([i \in DOMAIN acc |-> acc[i][2]])
      key == <<n, m.q, e.p>>
  IN [w EXCEPT !.agg = (key :> (At(@, key, <<>>) \o vals)) @@ @,
               !.out = @ \o CreateFeedMsg(m, e.p, vals)]

(* mkey_t of the collection a message belongs to *)
MsgKey(n, e, m) == IF m.br = <<>> THEN <<n, e.t, m.q, 0, 0>>
                   ELSE <<n, e.t, m.q, Info(m).mid, Info(m).idx>>

EndPath(m) == IF m.br = <<>> THEN <<>> ELSE Info(m).path

(* BarrierExpertBase::process; if the next expert is a barrier as well the *)
(* same thread goes on with it.                                            *)
RECURSIVE Barrier(_, _, _, _, _)

SendOn(w, n, m, ex, keep, d) ==
  LET next == ex[ex[m.step].next] IN
  IF IsBarrier(next)
    THEN Barrier(w, n, [m EXCEPT !.step = ex[@].next,
                                 !.data = [i \in DOMAIN d |->
                                    <<d[i][1], IF next.t = "COUNT" THEN <<<<1, Len(d[i][2])>>>> ELSE d[i][2]>>]],
                 ex, keep)
    ELSE [w EXCEPT !.out = @ \o CreateNextMsg(m, ex, d)]

Complete(w, n, m, ex, keep, acc) ==
  LET e == ex[m.step] IN
  CASE e.t = "END" -> IF acc.abort THEN w
                      ELSE [w EXCEPT !.rep = Append(@, [q |-> m.q, abort |-> FALSE, res |-> acc.res])]
    [] e.t = "POSTVALIDATION" ->
         IF acc.abort THEN [w EXCEPT !.out = @ \o CreateBroadcastMsg(m, "ABORT", <<>>)]
         ELSE [w EXCEPT !.out = @ \o CreateBroadcastMsg(m, "COMMIT", <<<<<<>>, <<<<1, 1>>>>>>>>),
                        !.req = @ \cup {"COMMITTED"}]
    [] OTHER -> SendOn(IF e.t = "AGGREGATE" THEN Publish(w, n, m, e, acc) ELSE w,
                       n, m, ex, keep, Emit(e, acc, w, n, m.q))

(* The first abort is reported at once. *)
Collect(w, n, m, ex, keep, old, r, acc) ==
  LET e == ex[m.step]
      key == MsgKey(n, e, m)
      told == IF e.t = "END" /\ acc.abort /\ ~old.acc.abort
                THEN [w EXCEPT !.rep = Append(@, [q |-> m.q, abort |-> TRUE, res |-> acc.res])] ELSE w
  IN IF r.ready
       THEN Complete([told EXCEPT !.tab = Restrict(@, DOMAIN @ \ {key})], n,
                     [m EXCEPT !.path = EndPath(m)], ex, keep, acc)
       ELSE [told EXCEPT !.tab = (key :> [cnt |-> r.cnt, acc |-> acc]) @@ @]

Barrier(w, n, m, ex, keep) ==
  LET e == ex[m.step]
      old == At(w.tab, MsgKey(n, e, m), [cnt |-> <<>>, acc |-> EmptyAcc(e)])
  IN Collect(w, n, m, ex, keep, old, IsReady(old.cnt, m.path, EndPath(m)), Gather(e, old.acc, m, keep))

-----------------------------------------------------------------------------
(* Branch filters *)

(* SPAWN: remember the data and send it, labelled, into every branch. *)
FilterKey(n, q, mid, outer) == <<n, "BRANCHFILTER", q, mid, IF outer = <<>> THEN 0 ELSE Last(outer).idx>>

Spawn(w, n, m, ex) ==
  LET e == ex[m.step]
      mid == nextId[n] + 1
  IN [w EXCEPT !.tab = (FilterKey(n, m.q, mid, m.br) :>
                          [cnt |-> <<>>, left |-> Len(e.p.steps), data |-> m.data, hit |-> {}]) @@ @,
               !.out = @ \o CreateBranchedMsgWithHisLabel(m, ex, e.p.steps, mid)]

(* all_success, any_success, none_success of the branches that value i passed *)
Pass(e, hit, i) ==
  LET ok == {h[2] : h \in {x \in hit : x[1] = i}} IN
  CASE e.p.filter = "AND" -> ok = 1 .. Len(e.p.steps)
    [] e.p.filter = "OR" -> ok # {}
    [] e.p.filter = "NOT" -> ok = {}

(* The values of d are numbered through all its pairs, from 0. *)
FilterByIndex(d, e, hit) ==
  LET before(i) == FoldLeft(LAMBDA s, pr : s + Len(pr[2]), 0, SubSeq(d, 1, i - 1))
      kept(i) == SelectSeq([j \in DOMAIN d[i][2] |-> j], LAMBDA j : Pass(e, hit, before(i) + j - 1))
  IN [i \in DOMAIN d |-> <<d[i][1], [k \in DOMAIN kept(i) |-> d[i][2][kept(i)[k]]]>>]

(* BRANCH: note which values came through; when every branch has reported  *)
(* everything, send on those that pass.                                    *)
ProcessBranch(w, n, m, ex) ==
  LET info == Info(m)
      key == FilterKey(n, m.q, info.mid, Front(m.br))
      old == w.tab[key]
      new == {<<BranchValue(m.data[i][1], info.key), info.idx>> :
                 i \in {j \in DOMAIN m.data : m.data[j][2] # <<>>}}
      counted(r) == [old EXCEPT !.cnt = r.cnt, !.hit = @ \cup {x \in new : x[1] >= 0},
                                !.left = IF r.ready THEN @ - 1 ELSE @]
      out(hit) == CreateNextMsg([m EXCEPT !.br = Front(@), !.path = info.path], ex,
                                FilterByIndex(old.data, ex[m.step], hit))
      update(ent) == IF ent.left > 0 THEN [w EXCEPT !.tab = (key :> ent) @@ @]
                     ELSE [w EXCEPT !.tab = Restrict(@, DOMAIN @ \ {key}), !.out = @ \o out(ent.hit)]
  IN update(counted(IsReady(old.cnt, m.path, info.path)))

-----------------------------------------------------------------------------
(* Sequential experts *)

Local(n, S) == {x \in S : GetNodeId(x) = n}

InitData(n, elem) == AsSeq(Local(n, IF elem = "V" THEN DOMAIN graph.vl ELSE graph.outs))

(* The index on key 0 holds labels. *)
InitWithIndex(n, e) ==
  LET cs == HasConds(Tail(e.p))
      holds(x, c) == IF c[1] = 0 THEN Evaluate(c[2], Str(LabelOf(graph, x))) ELSE HasHolds(graph, x, c)
  IN SelectSeq(InitData(n, e.p[1]), LAMBDA x : \A i \in DOMAIN cs : holds(x, cs[i]))

(* InitExpert: the elements named by a variable (those of this node are in *)
(* the message), those the index gives, or all of this node; only their    *)
(* number if count() comes next.                                           *)
InitExpert(n, m, e, ex) ==
  LET counted(vs) == IF ex[m.step + 1].t = "COUNT" THEN <<<<1, Len(vs)>>>> ELSE vs
      vals == IF e.p[2] THEN m.data[1][2]
              ELSE IF Len(e.p) > 2 THEN InitWithIndex(n, e) ELSE InitData(n, e.p[1])
  IN <<<<<<>>, counted(vals)>>>>

AggConds(e) == SelectSeq(e.p, LAMBDA c : c.op \in {"WITHIN", "WITHOUT"})

(* HasAggregateData: nothing under the key means "not yet". *)
HasAggregateData(n, q, e) ==
  \A i \in DOMAIN AggConds(e) :
    \A k \in ToSet(Tail(AggConds(e)[i].ks)) : At(agg, <<n, q, k>>, <<>>) # <<>>

Where(n, q, e, d) ==
  LET collected(c) == FlattenSeq([i \in 1 .. Len(c.ks) - 1 |-> agg[<<n, q, c.ks[i + 1]>>]])
      one(x, c) == EvaluateForAggregate(c, collected(c), x)
      rest == SelectSeq(e.p, LAMBDA c : c.op \notin {"WITHIN", "WITHOUT"})
  IN WhereExpert([e EXCEPT !.p = rest], FoldLeft(one, d, AggConds(e)))

(* BuildIndex, SetConfig, DisplayStatus: a line of text, from every node   *)
(* or only from the parent.                                                *)
TextExpert(n, e) == <<<<<<>>, IF e.t = "CONFIG" /\ n # Parent THEN <<>> ELSE <<Str(n)>>>>>>

ReadTypes == {"TRAVERSAL", "HAS", "HASLABEL", "KEY", "LABEL", "VALUES", "PROPERTIES", "PROJECT"}

TextTypes == {"INDEX", "CONFIG", "STATUS"}

SequentialTypes == ReadTypes \cup TextTypes \cup {"INIT", "IS", "AS", "SELECT", "WHERE"}

Sequential(n, m, e, ex) ==
  CASE e.t = "INIT" -> InitExpert(n, m, e, ex)
    [] e.t = "TRAVERSAL" -> TraversalExpert(graph, e, m.data)
    [] e.t = "HAS" -> HasExpert(graph, e, m.data)
    [] e.t = "HASLABEL" -> HasLabelExpert(graph, e, m.data)
    [] e.t = "IS" -> IsExpert(e, m.data)
    [] e.t = "KEY" -> KeyExpert(graph, m.data)
    [] e.t = "LABEL" -> LabelExpert(graph, m.data)
    [] e.t = "VALUES" -> ValuesExpert(graph, e, m.data)
    [] e.t = "PROPERTIES" -> PropertiesExpert(graph, e, m.data)
    [] e.t = "PROJECT" -> ProjectExpert(graph, e, m.step, m.data)
    [] e.t = "AS" -> AsExpert(e, m.data)
    [] e.t = "SELECT" -> SelectExpert(e, m.data)
    [] e.t = "WHERE" -> Where(n, m.q, e, m.data)
    [] e.t \in TextTypes -> TextExpert(n, e)

(* Updates: what they do to the graph and what they send on. *)

WriteTypes == {"ADDV", "ADDE", "DROP", "PROPERTY"}

Values(d) == FlattenSeq([i \in DOMAIN d |-> d[i][2]])

(* The vertex ids that the model can hand out. *)
MaxVid == 20

(* AssignVID: this node's next free id. *)
NewVertex(n, g, k) ==
  LET free == {i \in 1 .. MaxVid : i % NumNodes = n /\ Vtx(i) \notin DOMAIN g.p}
  IN Vtx(Ascending(free, <)[k])

AddVertex(n, g, e, d) ==
  LET before(i) == FoldLeft(LAMBDA s, pr : s + Len(pr[2]), 0, SubSeq(d, 1, i - 1))
      new == [i \in DOMAIN d |-> <<d[i][1], [j \in DOMAIN d[i][2] |-> NewVertex(n, g, before(i) + j)]>>]
      vs == ToSet(Values(new))
  IN [g |-> [g EXCEPT !.vl = [v \in vs |-> e.p] @@ @, !.p = [v \in vs |-> <<>>] @@ @], d |-> new]

(* Each node adds the halves it holds; only the source passes the edge on. *)
AddEdge(n, g, e, d) ==
  LET es == ToSet(Values(d))
      outs == Local(n, es)
      ins == {x \in es : DstNodeId(x) = n}
  IN [g |-> [g EXCEPT !.el = [x \in es |-> e.p.lid] @@ @, !.p = [x \in outs |-> <<>>] @@ @,
                      !.outs = @ \cup outs, !.ins = @ \cup ins],
      d |-> FilterData(d, LAMBDA x : x \in outs)]

(* A dropped vertex sends on its edges; an edge loses the halves held here. *)
Drop(n, g, e, d) ==
  LET xs == Values(d)
      s == ToSet(xs)
      without(f, gone) == Restrict(f, DOMAIN f \ gone)
      edges == FlattenSeq([i \in DOMAIN xs |-> ConnectedEdges(g, xs[i], "BOTH", 0)])
  IN IF e.p.prop
       THEN [g |-> [g EXCEPT !.p = [x \in DOMAIN @ |-> without(@[x], {v[3] : v \in {y \in s : y[2] = x}})]],
             d |-> <<<<<<>>, <<>>>>>>]
       ELSE IF e.p.elem = "V"
         THEN [g |-> [g EXCEPT !.vl = without(@, s)], d |-> <<<<<<>>, edges>>>>]
         ELSE [g |-> [g EXCEPT !.outs = @ \ Local(n, s), !.ins = @ \ {x \in s : DstNodeId(x) = n}],
               d |-> <<<<<<>>, <<>>>>>>]

SetProperty(g, e, d) ==
  LET s == ToSet(Values(d)) IN
  [g |-> [g EXCEPT !.p = [x \in s |-> (e.p[2] :> e.p[3]) @@ @[x]] @@ @], d |-> d]

Write(n, m, e) ==
  CASE e.t = "ADDV" -> AddVertex(n, graph, e, m.data)
    [] e.t = "ADDE" -> AddEdge(n, graph, e, m.data)
    [] e.t = "DROP" -> Drop(n, graph, e, m.data)
    [] e.t = "PROPERTY" -> SetProperty(graph, e, m.data)

-----------------------------------------------------------------------------
(* ExpertAdapter::execute *)

ExpertOf(m) == plans[m.q][m.step]

(* "Do not need to check if: 1. The last query 2. Not an abort / terminate msg" *)
ChecksStatus(m) == m.q # LastQuery /\ m.ty \notin {"ABORT", "TERMINATE"}

Refused(m) == ChecksStatus(m) /\ status.cur = "ABORT" /\ m.ty # "LOST"

(* The plan is here, and what the expert waits for. *)
Due(m) ==
  /\ ~Refused(m)
  /\ m.ty \notin {"FEED", "EXIT", "TERMINATE", "LOST"}
  /\ m.ty = "INIT" \/ <<m.to, m.q>> \in logic
  /\ ExpertOf(m).t = "WHERE" => HasAggregateData(m.to, m.q, ExpertOf(m))

(* A lost thread sends nothing of what it has prepared. *)
Lost(msgs) == SelectSeq(msgs, LAMBDA x : x.ty = "LOST")

Took(m, msgs) ==
  net' = (net (-) SetToBag({m})) (+) ToBag(IF Lost(msgs) = <<>> THEN msgs ELSE <<Lost(msgs)[1]>>)

(* msg_logic_table_.insert *)
Registered(m) == logic' = IF m.ty = "INIT" THEN logic \cup {<<m.to, m.q>>} ELSE logic

(* The transaction is aborted: the parent is told.  A FEED message has no  *)
(* parent (CreateFeedMsg never sets parent_nid), it goes anywhere.         *)
RefuseMsg(m) ==
  /\ Refused(m)
  /\ \E n \in IF m.ty = "FEED" THEN Nodes ELSE {Parent} :
       Took(m, <<[m EXCEPT !.ty = "TERMINATE", !.to = n, !.data = <<<<<<>>, <<Str(0)>>>>>>]>>)
  /\ UNCHANGED <<tx, plans, trx, logic, tab, agg, nextId, graph, fate, status, replies, exits>>

FeedMsg(m) ==
  /\ m.ty = "FEED" /\ ~Refused(m)
  /\ LET key == <<m.to, m.q, m.step>>
     IN agg' = (key :> (At(agg, key, <<>>) \o m.data[1][2])) @@ agg
  /\ Took(m, <<>>)
  /\ UNCHANGED <<tx, plans, trx, logic, tab, nextId, graph, fate, status, replies, exits>>

(* The last of the nodes' EXIT messages ends the transaction. *)
ExitMsg(m) ==
  /\ m.ty = "EXIT"
  /\ exits' = [exits EXCEPT !.n = @ + 1]
  /\ replies' = IF exits'.n = NumNodes
                  THEN Append(replies, [q |-> m.q, abort |-> FALSE, res |-> m.data[1][2]]) ELSE replies
  /\ Took(m, <<>>)
  /\ UNCHANGED <<tx, plans, trx, logic, tab, agg, nextId, graph, fate, status>>

(* A TERMINATE message that reaches another node finds no plan there. *)
TerminateMsg(m) ==
  /\ m.ty = "TERMINATE"
  /\ replies' = IF m.to = Parent
                  THEN Append(replies, [q |-> m.q, abort |-> TRUE, res |-> m.data[1][2]]) ELSE replies
  /\ Took(m, <<>>)
  /\ UNCHANGED <<tx, plans, trx, logic, tab, agg, nextId, graph, fate, status, exits>>

SequentialExpert(m) ==
  LET e == ExpertOf(m)
      ex == plans[m.q]
  IN /\ Due(m) /\ e.t \in SequentialTypes
     /\ Took(m, CreateNextMsg(m, ex, Sequential(m.to, m, e, ex)))
     /\ Registered(m)
     /\ UNCHANGED <<tx, plans, trx, tab, agg, nextId, graph, fate, status, replies, exits>>

UpdateExpert(m) ==
  LET e == ExpertOf(m)
      r == Write(m.to, m, e)
  IN /\ Due(m) /\ e.t \in WriteTypes
     /\ graph' = r.g
     /\ Took(m, CreateNextMsg(m, plans[m.q], r.d))
     /\ Registered(m)
     /\ UNCHANGED <<tx, plans, trx, tab, agg, nextId, fate, status, replies, exits>>

(* A read or a write that the storage refuses: the query is aborted at its *)
(* END expert, and the status update is on its way.  A write may have done *)
(* its first part.  ProcessAddE of an edge that another transaction is     *)
(* adding (mvcc_list == nullptr) returns its error without the update.     *)
FailedExpert(m) ==
  LET e == ExpertOf(m) IN
  /\ Due(m) /\ Values(m.data) # <<>>
  /\ \/ tx.fault = "process" /\ e.t \in ReadTypes \cup (WriteTypes \ {"ADDV"})
     \/ tx.fault = "sameEdge" /\ e.t = "ADDE"
  /\ status' = IF tx.fault = "sameEdge" THEN status ELSE [status EXCEPT !.req = @ \cup {"ABORT"}]
  /\ graph' \in {graph} \cup (IF e.t \in WriteTypes THEN {Write(m.to, m, e).g} ELSE {})
  /\ Took(m, <<CreateAbortMsg(m, plans[m.q])>>)
  /\ Registered(m)
  /\ UNCHANGED <<tx, plans, trx, tab, agg, nextId, fate, replies, exits>>

UnionExpert(m) ==
  LET e == ExpertOf(m) IN
  /\ Due(m) /\ e.t \in UnionType
  /\ Took(m, CreateBranchedMsg(m, plans[m.q], e.p.steps))
  /\ UNCHANGED <<tx, plans, trx, logic, tab, agg, nextId, graph, fate, status, replies, exits>>

Work == [tab |-> tab, agg |-> agg, out |-> <<>>, rep |-> replies, req |-> status.req]

Worked(m, w) == /\ tab' = w.tab /\ agg' = w.agg /\ replies' = w.rep
                /\ status' = [status EXCEPT !.req = w.req]
                /\ Took(m, w.out)

BranchFilterExpert(m) ==
  /\ Due(m) /\ ExpertOf(m).t = "BRANCHFILTER"
  /\ \/ /\ m.ty = "SPAWN"
        /\ \E w \in {Spawn(Work, m.to, m, plans[m.q])} : Worked(m, w)
        /\ nextId' = [nextId EXCEPT ![m.to] = @ + 1]
     \/ /\ m.ty = "BRANCH"
        /\ \E w \in {ProcessBranch(Work, m.to, m, plans[m.q])} : Worked(m, w)
        /\ UNCHANGED nextId
  /\ UNCHANGED <<tx, plans, trx, logic, graph, fate, exits>>

(* coin() keeps any of the values. *)
BarrierExpert(m) ==
  /\ Due(m) /\ IsBarrier(ExpertOf(m))
  /\ \E keep \in SUBSET (IF ExpertOf(m).t = "COIN" THEN ToSet(Values(m.data)) ELSE {}) :
       \E w \in {Barrier(Work, m.to, m, plans[m.q], keep)} : Worked(m, w)
  /\ UNCHANGED <<tx, plans, trx, logic, nextId, graph, fate, exits>>

(* Every node answers the post validation on its own; all but the last     *)
(* check of a node (valid_optimistic_read) also update the status.         *)
ValidationExpert(m) ==
  /\ Due(m) /\ ExpertOf(m).t = "VALIDATION"
  /\ \E abort \in IF tx.fault = "validate" THEN BOOLEAN ELSE {FALSE} :
       LET next == CreateNextMsg(m, plans[m.q], m.data) IN
       /\ Took(m, [i \in DOMAIN next |-> [next[i] EXCEPT !.ty = IF abort THEN "ABORT" ELSE "COMMIT"]])
       /\ \/ UNCHANGED status
          \/ abort /\ status' = [status EXCEPT !.req = @ \cup {"ABORT"}]
  /\ Registered(m)
  /\ UNCHANGED <<tx, plans, trx, tab, agg, nextId, graph, fate, replies, exits>>

(* DataStorage::Abort: what node n holds becomes what it was. *)
UndoOutHalves(n, g) ==
  LET mine(x) == GetNodeId(x) = n
      back(f, f0) == Restrict(f0, {x \in DOMAIN f0 : mine(x)}) @@
                     Restrict(f, {x \in DOMAIN f : ~mine(x)})
  IN [vl |-> back(g.vl, Graph0.vl), el |-> back(g.el, Graph0.el), p |-> back(g.p, Graph0.p),
      outs |-> (g.outs \ Local(n, g.outs)) \cup Local(n, Graph0.outs), ins |-> g.ins]

Undo(n, g) ==
  LET mine(x) == GetNodeId(x) = n
      back(f, f0) == Restrict(f0, {x \in DOMAIN f0 : mine(x)}) @@
                     Restrict(f, {x \in DOMAIN f : ~mine(x)})
      ins(S) == {x \in S : DstNodeId(x) = n}
  IN [vl |-> back(g.vl, Graph0.vl), el |-> back(g.el, Graph0.el), p |-> back(g.p, Graph0.p),
      outs |-> (g.outs \ Local(n, g.outs)) \cup Local(n, Graph0.outs),
      ins |-> (g.ins \ ins(g.ins)) \cup ins(Graph0.ins)]

(* clean_trx_data of the barriers and branch filters of node n. *)
CleanTrxDataOfBranches(n) == Restrict(tab, {k \in DOMAIN tab : k[1] # n \/ k[2] # "BRANCHFILTER"})

CleanTrxData(n) == Restrict(tab, {k \in DOMAIN tab : k[1] # n})

(* DeleteAggData(trxid): the keys of the first query, one after the other  *)
(* until one is missing.                                                   *)
DeleteAggData(ag, n) ==
  LET gone == {k \in DOMAIN ag : k[1] = n /\ k[2] = 1 /\ \A j \in 1 .. k[3] : <<n, 1, j>> \in DOMAIN ag}
  IN Restrict(ag, DOMAIN ag \ gone)

LostAt(n) == \E x \in DOMAIN net : x.ty = "LOST" /\ x.to = n

(* A query that starts with TERMINATE is the abort of a transaction in its *)
(* processing phase; it takes the write lock, which a lost thread never    *)
(* gives free for it, and waits until the status table says so.            *)
TerminateExpert(m) ==
  LET n == m.to
      abort == m.ty \in {"INIT", "ABORT"}
  IN /\ Due(m) /\ ExpertOf(m).t = "TERMINATE"
     /\ m.ty = "INIT" => status.cur = "ABORT" /\ ~LostAt(n)
     /\ graph' = IF abort THEN Undo(n, graph) ELSE graph
     /\ fate' = [fate EXCEPT ![n] = IF abort THEN "aborted" ELSE "committed"]
     /\ tab' = CleanTrxData(n)
     /\ logic' = {x \in logic : x[1] # n}
     /\ agg' = DeleteAggData(agg, n)
     /\ Took(m, <<[m EXCEPT !.ty = "EXIT", !.to = Parent,
                            !.data = <<<<<<>>, <<Str(IF abort THEN 1 ELSE 2)>>>>>>]>>)
     /\ UNCHANGED <<tx, plans, trx, nextId, status, replies, exits>>

-----------------------------------------------------------------------------
(* The worker *)

(* ProcessUpdateTrxTableReq *)
UpdateStatus ==
  /\ ~trx.late
  /\ \E s \in status.req : status' = [cur |-> s, req |-> status.req \ {s}]
  /\ UNCHANGED <<tx, plans, trx, net, logic, tab, agg, nextId, graph, fate, replies, exits>>

(* TrxPlan::Abort: the commit statement becomes a TERMINATE and is all     *)
(* that is still to be sent.  If it has been sent already (late), its      *)
(* experts have been moved away and erase() runs beyond the end of an      *)
(* empty vector: the worker does not survive that.                         *)
Abort(t, ps) ==
  LET last == Len(ps) IN
  IF t.aborted THEN [t |-> t, ps |-> ps]
  ELSE IF last \notin DOMAIN t.deps THEN [t |-> [t EXCEPT !.aborted = TRUE, !.late = TRUE], ps |-> ps]
  ELSE [t |-> [t EXCEPT !.aborted = TRUE, !.deps = (last :> 0)],
        ps |-> [ps EXCEPT ![last] = <<[@[3] EXCEPT !.next = 2]>>]]

(* The parameters of later queries that wait for the result of query q.    *)
Fill(ps, regs, q, res) ==
  LET put(x, r) ==
        IF r[1] # q THEN x
        ELSE IF x[r[2]][r[3]].t = "INIT"
          THEN [x EXCEPT ![r[2]][r[3]].p = SubSeq(@, 1, r[4] - 1) \o res \o SubSeq(@, r[4], Len(@))]
          ELSE [x EXCEPT ![r[2]][r[3]].p[r[4]] = <<"var", res[1][2]>>]
  IN FoldLeft(put, ps, regs)

(* addE(from(A), to(B)) takes exactly one vertex for each variable.        *)
Fillable(ps, regs, q, res) ==
  \A i \in DOMAIN regs : regs[i][1] = q /\ ps[regs[i][2]][regs[i][3]].t = "ADDE" => Len(res) = 1

(* FillResult *)
FillResult(t, ps, q, res) ==
  LET waits == {x \in DOMAIN t.deps : <<q, x>> \in t.topo} IN
  [t |-> [t EXCEPT !.deps = IF t.aborted THEN @ ELSE [x \in DOMAIN @ |-> IF x \in waits THEN @[x] - 1 ELSE @[x]],
                   !.results = (q :> (At(@, q, <<>>) \o res)) @@ @,
                   !.end = @ \/ q = Len(ps)],
   ps |-> Fill(ps, t.regs, q, res)]

(* One round of the worker's main loop. *)
Pop ==
  /\ replies # <<>> /\ ~trx.late
  /\ LET re == Head(replies)
         ok == Fillable(plans, trx.regs, re.q, re.res)
         filled == IF ok THEN FillResult(trx, plans, re.q, re.res) ELSE Abort(trx, plans)
         r == IF re.abort THEN Abort(filled.t, filled.ps) ELSE filled
     IN IF exits.replied THEN UNCHANGED <<trx, plans, net, status, exits>>
        ELSE /\ status' = IF ~ok /\ ~re.abort THEN [status EXCEPT !.req = @ \cup {"ABORT"}] ELSE status
             /\ plans' = r.ps
             /\ IF r.t.end
                  THEN trx' = r.t /\ exits' = [exits EXCEPT !.replied = TRUE] /\ UNCHANGED net
                  ELSE trx' = SentOut(r.t) /\ net' = net (+) SendInitMsgs(r.t, r.ps) /\ UNCHANGED exits
  /\ replies' = Tail(replies)
  /\ UNCHANGED <<tx, logic, tab, agg, nextId, graph, fate>>

-----------------------------------------------------------------------------
Execute ==
  ~trx.late /\ \E m \in DOMAIN net :
    \/ RefuseMsg(m) \/ FeedMsg(m) \/ ExitMsg(m) \/ TerminateMsg(m)
    \/ SequentialExpert(m) \/ UpdateExpert(m) \/ FailedExpert(m)
    \/ UnionExpert(m) \/ BranchFilterExpert(m) \/ BarrierExpert(m)
    \/ ValidationExpert(m) \/ TerminateExpert(m)

(* A message that is thrown back to the mailbox: the experts have no plan  *)
(* for it (yet, or any more), or it waits for values or for the status     *)
(* table.                                                                  *)
Waits(m) ==
  /\ m.ty \notin {"FEED", "EXIT", "TERMINATE"} /\ ~Refused(m)
  /\ \/ ~Due(m)
     \/ m.ty = "INIT" /\ ExpertOf(m).t = "TERMINATE" /\ (status.cur # "ABORT" \/ LostAt(m.to))

Idle == \/ trx.late
        \/ (\A m \in DOMAIN net : Waits(m)) /\ replies = <<>> /\ status.req = {}

Next == Execute \/ UpdateStatus \/ Pop

(* The threads of a worker poll all the time: while there is work, some of *)
(* it is done.  Idle is the negation of ENABLED Next, so this is           *)
(* WF_vars(Next).                                                          *)
Fairness == []<>Idle \/ []<><<TRUE>>_vars

Spec == Init /\ [][Next]_vars /\ Fairness

-----------------------------------------------------------------------------
FreshVertices(g, n) == [i \in 1 .. n |-> NewVertex(Parent, g, i)]

Meaning == INSTANCE QueryReference

(* What the transaction should return and leave behind. *)
Expected == Meaning!Transaction(Transactions[tx.i], Graph0)

(* Groups and aggregates list their values in any order, so does a result  *)
(* unless order() comes last; coin() drops some of them, limit() without   *)
(* an order keeps any of them.                                             *)
Unordered(v) == IF v[1] = 9 THEN <<9, v[2], ToBag(v[3])>> ELSE v

AsBag(s) == ToBag([i \in DOMAIN s |-> Unordered(s[i])])

Agrees(line, got, want) ==
  LET has(x) == \E i \in DOMAIN line.steps : line.steps[i].s = x
      lastIs(x) == line.steps # <<>> /\ Last(line.steps).s = x
  IN CASE line.head.s \in {"BuildIndex", "SetConfig", "DisplayStatus"} -> got # <<>>
       [] has("coin") -> AsBag(got) \sqsubseteq AsBag(want)
       [] lastIs("order") -> got = want
       [] OTHER -> AsBag(got) = AsBag(want)

Committed == \A n \in Nodes : fate[n] = "committed"

(* Every message is for a node and a query that exist, and its step is one  *)
(* of the plan (CreateBroadcastMsg, AssignParamsByLocality).               *)
TypeOK ==
  /\ \A m \in DOMAIN net : /\ m.to \in Nodes /\ m.q \in 1 .. LastQuery
                           /\ m.ty \in {"INIT", "SPAWN", "BARRIER", "BRANCH", "FEED", "ABORT", "COMMIT",
                                        "TERMINATE", "EXIT", "LOST"}
                           /\ m.step \in 1 .. Len(plans[m.q]) \/ m.ty \in {"FEED", "TERMINATE"}
  /\ logic \subseteq Nodes \X (1 .. LastQuery)
  /\ status.cur \in {"PROCESSING", "ABORT", "COMMITTED"}

(* Steps that write into the history of a value. *)
HistoryTypes == {"AS", "PROJECT", "BRANCHFILTER"}

(* Every addE() of the transaction that names labels names the first one   *)
(* of its query, the only one that GenerateEdgeWith... can find.           *)
LabelsFirst ==
  \A q \in DOMAIN plans : \A i \in DOMAIN plans[q] :
    plans[q][i].t = "ADDE" =>
      \A k \in Labels(plans[q][i]) : \A j \in 1 .. k - 1 : plans[q][j].t \notin HistoryTypes

(* A transaction that commits has returned for every query what the steps  *)
(* of the query mean, however its messages were split, routed and          *)
(* reordered (CreateNextMsg, IsReady, ReOrderSteps), and has left the      *)
(* graph as its updates say, both halves of every edge included; unless an *)
(* addE() names a label that is not the first.                             *)
ResultCorrect ==
  Committed /\ LabelsFirst => \A want \in {Expected} :
    /\ \A q \in 1 .. LastQuery - 1 : Agrees(Transactions[tx.i][q], trx.results[q], want.res[q])
    /\ ~want.bad
    /\ graph = want.g

(* All workers come to the same end: none commits what another one aborts, *)
(* and an aborted transaction leaves the graph as it was.                  *)
AllOrNothing ==
  /\ \A n1, n2 \in Nodes : ~(fate[n1] = "committed" /\ fate[n2] = "aborted")
  /\ (\A n \in Nodes : fate[n] = "aborted") => graph = Graph0

(* A transaction is aborted by its plan (TrxPlan::Abort) only while the    *)
(* commit statement, which that replaces, has not been sent.               *)
AbortReplacesCommit == ~trx.late

(* The abort statement waits in execute() for the status table to say      *)
(* ABORT ("need to wait until the transaction is ABORT in the TrxTable");  *)
(* whoever made the parent send it has also asked the table for it.        *)
AbortIsOnItsWay ==
  \A m \in DOMAIN net :
    m.q = LastQuery /\ m.ty = "INIT" /\ ExpertOf(m).t = "TERMINATE"
      => status.cur = "ABORT" \/ "ABORT" \in status.req

ThreadsLost == \E n \in Nodes : LostAt(n)

HasFeed == \E q \in DOMAIN plans : \E i \in DOMAIN plans[q] : plans[q][i].t = "AGGREGATE"

(* The workers end alike, on their way there too: types are kept, none     *)
(* commits what another one aborts, an abort statement is never sent       *)
(* before the status that it waits for has been asked for unless two       *)
(* transactions add the same edge, the plan is aborted too late only by a  *)
(* FEED message that comes after the abort, and no thread is lost but in   *)
(* the search for a label.                                                 *)
EndsAlike ==
  /\ TypeOK /\ AllOrNothing
  /\ AbortIsOnItsWay \/ tx.fault = "sameEdge"
  /\ AbortReplacesCommit \/ HasFeed
  /\ ThreadsLost => ~LabelsFirst

(* When the client has its reply, no barrier or branch filter still holds  *)
(* data of the transaction and no plan is registered (TerminateExpert).    *)
NothingLeft == exits.replied => tab = <<>> /\ logic = {}

(* Each transaction is answered: no message path waits for a message that  *)
(* never comes.  The three ways out are those that EndsAlike confines.     *)
Answered == <>(exits.replied \/ ~AbortIsOnItsWay \/ ~AbortReplacesCommit \/ ThreadsLost)

=============================================================================
