---------------------------- MODULE MessageRoute -----------------------------
(***************************************************************************)
(* core/message.cpp: which messages an expert's result becomes, where they *)
(* go and which part of a collection each one stands for.  A message is    *)
(* [ty, q, step, to, path, br, data]: its type, query, the expert that     *)
(* takes it, the receiving node, msg_path, the stack of branch infos and   *)
(* the data.  A branch info is [node, key, path, mid, idx].                *)
(***************************************************************************)
EXTENDS QueryParser

CONSTANTS
  NumNodes,     \* number of workers; node ids are 0 .. NumNodes - 1
  Parent,       \* the worker that runs the transaction
  MaxData,      \* values a message can hold (max_data_size)
  Uninit        \* what an uninitialised vertex id happens to be

Nodes == 0 .. NumNodes - 1

(* id_mapper: an edge lives with its source, its in-half with its target.  *)
GetMachineIdForVertex(v) == v[2] % NumNodes

GetNodeId(v) == IF v[1] = 5 THEN v[3] % NumNodes ELSE GetMachineIdForVertex(v)

DstNodeId(e) == e[2] % NumNodes

IsBarrier(e) == e.t \in BarrierType

UnionType == {"BRANCH", "REPEAT"}

Info(m) == Last(m.br)

(* UpdateRoute of a message leaving expert `from`: a barrier collects at   *)
(* the branch's node or the parent; a step back into a union goes on after *)
(* the union; a step back into a labelled branch returns to its node; any  *)
(* other message stays here, so assigned is FALSE.                         *)
RECURSIVE UpdateRoute(_, _, _)
UpdateRoute(m, ex, from) ==
  LET e == ex[m.step] IN
  IF IsBarrier(e)
    THEN [m |-> [m EXCEPT !.to = IF m.br = <<>> THEN Parent ELSE Info(m).node, !.ty = "BARRIER"],
          assigned |-> TRUE]
    ELSE IF m.step > from THEN [m |-> [m EXCEPT !.ty = "SPAWN"], assigned |-> FALSE]
    ELSE IF e.t \in UnionType
      THEN UpdateRoute([m EXCEPT !.step = e.next, !.br = Front(@)], ex, from)
      ELSE [m |-> [m EXCEPT !.to = Info(m).node, !.ty = "BRANCH"], assigned |-> TRUE]

(* Where "nothing" goes: to the next barrier, to a union that has to tell  *)
(* all its branches, or back to the labelled branch.                       *)
RECURSIVE CollectionStep(_, _, _)
CollectionStep(m, ex, from) ==
  LET e == ex[m.step]
      on == [m EXCEPT !.step = e.next]
  IN IF IsBarrier(e) THEN [m |-> m, barrier |-> TRUE]
     ELSE IF e.t \in UnionType
       THEN IF m.step <= from THEN CollectionStep([on EXCEPT !.br = Front(@)], ex, from)
            ELSE [m |-> m, barrier |-> FALSE]
     ELSE IF m.step <= from THEN [m |-> m, barrier |-> FALSE]
     ELSE CollectionStep(on, ex, from)

UpdateCollectionRoute(m, ex, from) ==
  LET c == CollectionStep(m, ex, from)
  IN [m |-> UpdateRoute(c.m, ex, from).m, barrier |-> c.barrier]

(* The three loops of GenerateEdgeWith... that look for a label in a       *)
(* history never advance his_itr: they read the first entry again and      *)
(* again, until it is the label.  With two labels the entry is counted     *)
(* twice, and the end that has the other label is never assigned.  When it *)
(* is neither, the thread stays in the loop; when the history is empty it  *)
(* reads through end().                                                    *)
IsFirst(h, k) == h # <<>> /\ h[1][1] = k

Labels(e) == {w[2] : w \in {x \in {e.p.from, e.p.to} : x[1] = "label"}}

ThreadLost(d, e) ==
  Labels(e) # {} /\ \E i \in DOMAIN d : \A k \in Labels(e) : ~IsFirst(d[i][1], k)

(* The end of an edge under construction: the vertex of a variable, the    *)
(* labelled value of the history, or else the value x at hand.             *)
EndOf(w, h, x) == CASE w[1] = "var" -> w[2]
                    [] w[1] = "label" -> IF IsFirst(h, w[2]) THEN h[1][2][2] ELSE Uninit
                    [] w[1] = "none" -> x[2]

(* GenerateEdgeWith...: addE turns every value (the vertex that from() or  *)
(* to() leaves open), or every pair, into an edge.                         *)
ConstructEdge(d, e) ==
  LET from == e.p.from
      to == e.p.to
      edge(h, x) == Edg(EndOf(from, h, x), EndOf(to, h, x))
      open == "none" \in {from[1], to[1]}
      make(pr) == IF open THEN [i \in DOMAIN pr[2] |-> edge(pr[1], pr[2][i])]
                  ELSE <<edge(pr[1], <<>>)>>
  IN IF from[1] = "var" /\ to[1] = "var" THEN <<<<<<>>, <<edge(<<>>, <<>>)>>>>>>
     ELSE [i \in DOMAIN d |-> <<d[i][1], make(d[i])>>]

Size(d, k) == FoldLeft(LAMBDA n, pr : n + Len(pr[2]), 0, SubSeq(d, 1, k))

(* InsertData: fill one message after another, at most MaxData values in   *)
(* each; the pair that does not fit is cut in two.                         *)
RECURSIVE InsertData(_), InsertPairs(_, _, _)
InsertPairs(d, whole, room) ==
  LET cut == d[whole + 1]
      part == IF room = 0 THEN <<>> ELSE <<<<cut[1], SubSeq(cut[2], 1, room)>>>>
      rest == <<<<cut[1], SubSeq(cut[2], room + 1, Len(cut[2]))>>>> \o SubSeq(d, whole + 2, Len(d))
  IN <<SubSeq(d, 1, whole) \o part>> \o InsertData(rest)

InsertData(d) ==
  LET whole == Max({k \in 0 .. Len(d) : Size(d, k) <= MaxData})
  IN IF Size(d, Len(d)) <= MaxData THEN <<d>> ELSE InsertPairs(d, whole, MaxData - Size(d, whole))

NonEmpty(d) == SelectSeq(d, LAMBDA pr : pr[2] # <<>>)

(* The pairs of d with only the values that node n takes. *)
SplitForSource(n, d, both) ==
  NonEmpty([i \in DOMAIN d |-> <<d[i][1], SelectSeq(d[i][2], LAMBDA v : GetNodeId(v) = n)>>])

SplitFor(n, d, both) ==
  LET mine(v) == GetNodeId(v) = n \/ (both /\ DstNodeId(v) = n)
  IN NonEmpty([i \in DOMAIN d |-> <<d[i][1], SelectSeq(d[i][2], mine)>>])

(* ds[n] is the data for node n - 1, cut into messages like m. *)
Messages(m, ds) ==
  LET copies(n, s) == [i \in DOMAIN s |-> [m EXCEPT !.to = n, !.data = s[i]]]
      to(n) == IF ds[n] = <<>> THEN <<>> ELSE copies(n - 1, InsertData(ds[n]))
  IN FlattenSeq([n \in 1 .. NumNodes |-> to(n)])

(* The pairs without values, on the collection route c. *)
EmptyPairsSilent(c, d, some) ==
  LET empty == IF c.barrier THEN SelectSeq(d, LAMBDA pr : pr[2] = <<>>) ELSE <<>>
  IN IF empty # <<>> THEN <<[c.m EXCEPT !.data = empty]>> ELSE <<>>

EmptyPairs(c, d, some) ==
  LET empty == IF c.barrier THEN SelectSeq(d, LAMBDA pr : pr[2] = <<>>) ELSE <<>>
  IN IF empty # <<>> THEN <<[c.m EXCEPT !.data = empty]>>
     ELSE IF some THEN <<>> ELSE <<[c.m EXCEPT !.data = <<<<<<>>, <<>>>>>>]>>

Parts(r, ex, from, d) ==
  LET e == ex[r.m.step]
      count == e.t = "COUNT" /\ ex[r.m.step - 1].t # "INIT"
      both == (e.t = "DROP" /\ e.p.elem = "E" /\ ~e.p.prop) \/ e.t = "ADDE"
      here == LET x == NonEmpty(d) IN
              [i \in DOMAIN x |-> <<x[i][1], IF count THEN <<<<1, Len(x[i][2])>>>> ELSE x[i][2]>>]
      mapped == (~r.assigned /\ ex[from].rem) \/ both
  IN [n \in 1 .. NumNodes |-> IF mapped THEN SplitFor(n - 1, d, both)
                              ELSE IF n - 1 = r.m.to THEN here ELSE <<>>]

Deliver(r, c, d, parts) ==
  Messages(r.m, parts) \o EmptyPairs(c, d, \E n \in DOMAIN parts : parts[n] # <<>>)

(* A thread that is lost while it constructs edges keeps the message.      *)
Dispatch(r, c, ex, from, d) ==
  LET e == ex[r.m.step]
      edges == IF e.t = "ADDE" THEN ConstructEdge(d, e) ELSE d
  IN IF e.t = "ADDE" /\ ThreadLost(d, e) THEN <<[r.m EXCEPT !.ty = "LOST", !.data = d]>>
     ELSE Deliver(r, c, edges, Parts(r, ex, from, edges))

(* DispatchData: m is the outgoing message (its step already set), from    *)
(* the expert it leaves.  Values are mapped to the nodes of their elements *)
(* if the expert sends remotely, edges to be added or dropped to both of   *)
(* their ends; counts replace values on their way to count().  Pairs       *)
(* without values only travel to a barrier, and if nothing at all is left  *)
(* one empty pair still tells the collection that this part is done.       *)
DispatchData(m, ex, from, d) ==
  Dispatch(UpdateRoute(m, ex, from), UpdateCollectionRoute(m, ex, from), ex, from, d)

(* "set dispatching path": each of k messages stands for a k-th of m.      *)
SetPath(msgs) == [i \in DOMAIN msgs |-> [msgs[i] EXCEPT !.path = Append(@, Len(msgs))]]

CreateNextMsg(m, ex, d) ==
  SetPath(DispatchData([m EXCEPT !.step = ex[m.step].next], ex, m.step, d))

(* union() and repeat(): the number of branches goes into the path right   *)
(* behind the enclosing collection's path, and becomes part of the end     *)
(* path of collections inside the branch.                                  *)
CreateBranchedMsg(m, ex, steps) ==
  LET k == Len(steps)
      outer == IF m.br = <<>> THEN [node |-> Parent, key |-> -1, path |-> <<>>, mid |-> 0, idx |-> 0]
               ELSE Info(m)
      info == [outer EXCEPT !.path = Append(@, k)]
      path == info.path \o SubSeq(m.path, Len(outer.path) + 1, Len(m.path))
      branch(i) == [m EXCEPT !.step = steps[i], !.path = path,
                             !.br = Append(@, [info EXCEPT !.idx = i])]
  IN FlattenSeq([i \in 1 .. k |-> SetPath(DispatchData(branch(i), ex, m.step, m.data))])

(* and(), or(), not(), where(query): every value becomes a pair of its own *)
(* whose history numbers it; the branches report back to this node.        *)
CreateBranchedMsgWithHisLabel(m, ex, steps, mid) ==
  LET info == [node |-> m.to, key |-> m.step, path |-> m.path, mid |-> mid, idx |-> 0]
      label(a, pr) ==
        LET one(b, x) == <<Append(b[1], <<Append(pr[1], <<m.step, <<1, b[2]>>>>), <<x>>>>), b[2] + 1>>
        IN IF pr[2] = <<>> THEN <<Append(a[1], pr), a[2]>> ELSE FoldLeft(one, a, pr[2])
      labelled == FoldLeft(label, <<<<>>, 0>>, m.data)[1]
      branch(i) == [m EXCEPT !.step = steps[i], !.br = Append(@, [info EXCEPT !.idx = i])]
  IN FlattenSeq([i \in DOMAIN steps |-> SetPath(DispatchData(branch(i), ex, m.step, labelled))])

(* To the END expert of the query, whatever the path. *)
CreateAbortMsg(m, ex) ==
  [m EXCEPT !.step = Len(ex), !.ty = "ABORT", !.to = Parent, !.data = <<<<<<>>, <<Str(0)>>>>>>]

(* The same message to every node, one step on. *)
CreateBroadcastMsg(m, ty, d) ==
  [i \in 1 .. NumNodes |->
     [m EXCEPT !.step = @ + 1, !.ty = ty, !.path = <<NumNodes>>, !.to = i - 1, !.data = d]]

(* What aggregate() collected, to every node but the parent. *)
CreateFeedMsg(m, key, vals) ==
  LET others == Ascending(Nodes \ {Parent}, <)
  IN [i \in DOMAIN others |-> [ty |-> "FEED", q |-> m.q, step |-> key, to |-> others[i],
                               path |-> <<>>, br |-> <<>>, data |-> <<<<<<>>, vals>>>>]]

(* Only the parent adds the vertex of a leading addV(), the two ends of an *)
(* edge the one of a leading addE(); the input of g.V(A) goes to where it  *)
(* lives.                                                                  *)
CreateInitMsg(q, ex) ==
  LET e == ex[1]
      made == ConstructEdge(<<>>, e)
      x == made[1][2][1]
      input(n) == SelectSeq(SubSeq(e.p, 3, Len(e.p)), LAMBDA v : GetNodeId(v) = n)
      data(n) == CASE e.t = "ADDV" -> IF n = Parent THEN <<<<<<>>, <<<<1, 0>>>>>>>> ELSE <<>>
                   [] e.t = "ADDE" -> IF n \in {GetNodeId(x), DstNodeId(x)} THEN made ELSE <<>>
                   [] e.t = "INIT" -> IF e.p[2] THEN <<<<<<>>, input(n)>>>> ELSE <<>>
                   [] OTHER -> <<>>
  IN [i \in 1 .. NumNodes |-> [ty |-> "INIT", q |-> q, step |-> 1, to |-> i - 1,
                               path |-> <<NumNodes>>, br |-> <<>>, data |-> data(i - 1)]]

=============================================================================
