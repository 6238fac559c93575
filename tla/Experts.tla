------------------------------- MODULE Experts -------------------------------
(***************************************************************************)
(* What the query experts (src/expert) compute.  A message carries data, a *)
(* sequence of pairs <<history, values>>; a history is a sequence of pairs *)
(* <<key, value>> written by as(), project() and the labelled branches.    *)
(*                                                                         *)
(* A value is a tuple that starts with its type tag, as value_t does:      *)
(* <<1,n>> an integer or a vertex, <<2,n,d>> the double n/d, <<4,c>> a     *)
(* string, <<5,dst,src>> an edge, <<6,x,pid,v>> a property of element x,   *)
(* <<8,k,n>> one entry of groupCount(), <<9,k,s>> one of group() or cap(), *)
(* <<10,s>> what select() of several labels prints.                        *)
(*                                                                         *)
(* A graph is a record: vl and el give the labels of vertices and edges    *)
(* (by value), p the properties of an element, a function from keys to     *)
(* values; outs are the edges in the rows of their sources, ins those in   *)
(* the rows of their destinations, which another node may hold.  Key 0     *)
(* stands for the label, as in the code.                                   *)
(***************************************************************************)
EXTENDS Integers, Sequences, SequencesExt, FiniteSetsExt, TLC

Vtx(n) == <<1, n>>

Edg(src, dst) == <<5, dst, src>>

Str(c) == <<4, c>>

(* The order of two values of one type: integers by value, an edge id by   *)
(* its destination first, its high bits.                                   *)
Below(a, b) == \E i \in 1 .. Len(a) :
                  a[i] < b[i] /\ \A j \in 1 .. i - 1 : a[j] = b[j]

(* Does value v satisfy the predicate [op, args]? *)
Evaluate(pred, v) ==
  LET a == pred.args[1]
      b == pred.args[2]
  IN CASE pred.op = "ANY" -> TRUE
       [] pred.op = "NONE" -> FALSE
       [] pred.op = "EQ" -> v = a
       [] pred.op = "NEQ" -> v # a
       [] pred.op = "LT" -> Below(v, a)
       [] pred.op = "LTE" -> ~Below(a, v)
       [] pred.op = "GT" -> Below(a, v)
       [] pred.op = "GTE" -> ~Below(v, a)
       [] pred.op = "INSIDE" -> Below(a, v) /\ Below(v, b)
       [] pred.op = "OUTSIDE" -> Below(v, a) \/ Below(b, v)
       [] pred.op = "BETWEEN" -> ~Below(v, a) /\ ~Below(b, v)
       [] pred.op = "WITHIN" -> v \in ToSet(pred.args)
       [] pred.op = "WITHOUT" -> v \notin ToSet(pred.args)

(* The elements of S in ascending order. *)
Ascending(S, Lt(_, _)) ==
  LET insert(x, s) == LET lo == SelectSeq(s, LAMBDA y : Lt(y, x))
                      IN lo \o <<x>> \o SubSeq(s, Len(lo) + 1, Len(s))
  IN FoldSet(insert, <<>>, S)

-----------------------------------------------------------------------------
(* The storage's answers.  GetVP and its kin give nothing for an element   *)
(* that is not there.                                                      *)

Has(g, x) == x \in DOMAIN g.vl \cup g.outs

LabelOf(g, x) == IF x[1] = 1 THEN g.vl[x] ELSE g.el[x]

(* The property keys of x in the order of its row, none if x is not there. *)
Keys(g, x) == IF Has(g, x) THEN Ascending(DOMAIN g.p[x], <) ELSE <<>>

AsSeq(S) == Ascending(S, Below)

(* GetConnectedEdgeList: the edges of v in the given direction and with    *)
(* the given label, 0 for every label.                                     *)
ConnectedEdges(g, v, dir, lid) ==
  LET ok(e) == lid = 0 \/ g.el[e] = lid
      ins == {e \in g.ins : e[2] = v[2] /\ ok(e)}
      outs == {e \in g.outs : e[3] = v[2] /\ ok(e)}
  IN (IF dir = "OUT" THEN <<>> ELSE AsSeq(ins)) \o
     (IF dir = "IN" THEN <<>> ELSE AsSeq(outs))

-----------------------------------------------------------------------------
(* Sequential experts: from the data of a message to the data it sends on. *)

(* Replace every value x of every pair by the sequence F(x). *)
MapData(d, F(_)) ==
  [i \in DOMAIN d |-> <<d[i][1], FlattenSeq([j \in DOMAIN d[i][2] |-> F(d[i][2][j])])>>]

FilterData(d, Test(_)) ==
  [i \in DOMAIN d |-> <<d[i][1], SelectSeq(d[i][2], Test)>>]

(* in, out, both, inE, ...: e.p = <<input element, output element,         *)
(* direction, label>>.  inV() of an edge is its destination.               *)
NeighborOfVertex(g, e, v) ==
  LET es == ConnectedEdges(g, v, e.p[3], e.p[4])
  IN [i \in DOMAIN es |-> IF es[i][2] = v[2] THEN Vtx(es[i][3]) ELSE Vtx(es[i][2])]

EdgeOfVertex(g, e, v) == ConnectedEdges(g, v, e.p[3], e.p[4])

VertexOfEdge(e, x) ==
  CASE e.p[3] = "IN" -> <<Vtx(x[2])>>
    [] e.p[3] = "OUT" -> <<Vtx(x[3])>>
    [] OTHER -> <<Vtx(x[2]), Vtx(x[3])>>

TraversalExpert(g, e, d) ==
  CASE e.p[1] = "E" -> MapData(d, LAMBDA x : VertexOfEdge(e, x))
    [] e.p[1] = "V" /\ e.p[2] = "V" -> MapData(d, LAMBDA x : NeighborOfVertex(g, e, x))
    [] e.p[1] = "V" /\ e.p[2] = "E" -> MapData(d, LAMBDA x : EdgeOfVertex(g, e, x))

(* has(): e.p = <<element, key, op, args, key, op, args, ...>>.  Key -1    *)
(* (hasValue) asks for one property that satisfies it; a missing key only  *)
(* satisfies hasNot's NONE, a present key never does.                      *)
HasConds(p) == [i \in 1 .. (Len(p) - 1) \div 3 |-> <<p[3*i - 1], [op |-> p[3*i], args |-> p[3*i + 1]]>>]

HasHolds(g, x, c) ==
  LET ks == ToSet(Keys(g, x)) IN
  IF c[1] = -1 THEN \E k \in ks : Evaluate(c[2], g.p[x][k])
  ELSE IF c[1] \in ks THEN Evaluate(c[2], g.p[x][c[1]]) ELSE c[2].op = "NONE"

HasExpert(g, e, d) ==
  LET cs == HasConds(e.p)
  IN FilterData(d, LAMBDA x : Has(g, x) /\ \A i \in DOMAIN cs : HasHolds(g, x, cs[i]))

HasOneOfLabels(g, x, lids) == Has(g, x) /\ LabelOf(g, x) \in ToSet(lids)

HasLabelExpert(g, e, d) == FilterData(d, LAMBDA x : HasOneOfLabels(g, x, e.p[2]))

(* is(): every predicate of the chain. *)
SatisfiesAll(preds, x) == \A i \in DOMAIN preds : Evaluate(preds[i], x)

IsExpert(e, d) == FilterData(d, LAMBDA x : SatisfiesAll(e.p, x))

KeyNames(g, x) == LET ks == Keys(g, x) IN [i \in DOMAIN ks |-> Str(ks[i])]

KeyExpert(g, d) == MapData(d, LAMBDA x : KeyNames(g, x))

LabelName(g, x) == IF Has(g, x) THEN <<Str(LabelOf(g, x))>> ELSE <<>>

LabelExpert(g, d) == MapData(d, LAMBDA x : LabelName(g, x))

(* values() and properties(): the given keys, or all of them when none is  *)
(* given.                                                                  *)
Wanted(g, e, x) == SelectSeq(Keys(g, x), LAMBDA k : e.p[2] = {} \/ k \in e.p[2])

PropertyValues(g, e, x) == LET ks == Wanted(g, e, x) IN [i \in DOMAIN ks |-> g.p[x][ks[i]]]

ValuesExpert(g, e, d) == MapData(d, LAMBDA x : PropertyValues(g, e, x))

PropertyPairs(g, e, x) ==
  LET ks == Wanted(g, e, x) IN [i \in DOMAIN ks |-> <<6, x, ks[i], g.p[x][ks[i]]>>]

PropertiesExpert(g, e, d) == MapData(d, LAMBDA x : PropertyPairs(g, e, x))

(* project(): the values of a pair are split by the property e.p[2] (0 the *)
(* label), which joins the history; e.p[3] = -1 keeps the element itself.  *)
(* A pair without any such element disappears.                             *)
ProjectValue(g, x, k) == CASE k = -1 -> x
                           [] k = 0 -> Str(LabelOf(g, x))
                           [] OTHER -> g.p[x][k]

ProjectPair(g, e, step, h, vs) ==
  LET ks == AsSeq({ProjectValue(g, vs[i], e.p[2]) : i \in DOMAIN vs})
      of(k) == SelectSeq(vs, LAMBDA x : ProjectValue(g, x, e.p[2]) = k)
  IN [i \in DOMAIN ks |-> <<Append(h, <<step, ks[i]>>),
                            [j \in DOMAIN of(ks[i]) |-> ProjectValue(g, of(ks[i])[j], e.p[3])]>>]

ProjectExpert(g, e, step, d) ==
  LET known(x, k) == Has(g, x) /\ (k <= 0 \/ k \in DOMAIN g.p[x])
      ok(vs) == SelectSeq(vs, LAMBDA x : known(x, e.p[2]) /\ known(x, e.p[3]))
  IN FlattenSeq([i \in DOMAIN d |-> ProjectPair(g, e, step, d[i][1], ok(d[i][2]))])

(* as(): every distinct value of a pair gets a pair of its own.  value_pos *)
(* counts from the first value of the current pair but indexes the pairs   *)
(* built so far, so that a repeated value of a later pair lands in a pair  *)
(* of an earlier one.                                                      *)
RecordHistory(e, new, pr) ==
  LET value(acc, x) ==
        LET at == SelectInSeq(acc.seen, LAMBDA y : y = x) IN
        IF at = 0
          THEN [seen |-> Append(acc.seen, x),
                new |-> Append(acc.new, <<Append(pr[1], <<e.p, x>>), <<x>>>>)]
          ELSE [acc EXCEPT !.new[at][2] = Append(@, x)]
  IN FoldLeft(value, [seen |-> <<>>, new |-> new], pr[2]).new

AsExpert(e, d) == FoldLeft(LAMBDA new, pr : RecordHistory(e, new, pr), <<>>, d)

HisPos(h, k) == SelectInSeq(h, LAMBDA x : x[1] = k)

(* select() of one label: its value, once per value of the pair; of        *)
(* several: one value that lists those found, e.p holding ascending keys.  *)
GrabHistory(e, pr) ==
  LET at == HisPos(pr[1], e.p[1])
  IN IF at = 0 THEN <<>> ELSE [i \in DOMAIN pr[2] |-> pr[1][at][2]]

GrabHistories(e, pr) ==
  LET found == SelectSeq(pr[1], LAMBDA x : x[1] \in ToSet(e.p))
  IN IF found = <<>> THEN <<>>
     ELSE [i \in DOMAIN pr[2] |-> <<10, [j \in DOMAIN found |-> found[j][2]]>>]

SelectExpert(e, d) ==
  [i \in DOMAIN d |-> <<d[i][1], IF Len(e.p) = 1 THEN GrabHistory(e, d[i]) ELSE GrabHistories(e, d[i])>>]

(* where(a, pred(b)): e.p is a sequence of [op, ks]; ks[1] = -1 is the     *)
(* value itself, the others are keys of the history.  A pair that misses   *)
(* one of them loses its values.                                           *)
GetHistoryValue(h, k) == h[HisPos(h, k)][2]

EvaluateData(c, pr) ==
  LET args == [i \in 1 .. Len(c.ks) - 1 |-> GetHistoryValue(pr[1], c.ks[i + 1])]
      test(x) == Evaluate([op |-> c.op, args |-> args],
                          IF c.ks[1] = -1 THEN x ELSE GetHistoryValue(pr[1], c.ks[1]))
  IN IF \A k \in ToSet(c.ks) : k = -1 \/ HisPos(pr[1], k) > 0 THEN SelectSeq(pr[2], test) ELSE <<>>

WhereExpert(e, d) ==
  [i \in DOMAIN d |-> FoldLeft(LAMBDA pr, c : <<pr[1], EvaluateData(c, pr)>>, d[i], e.p)]

(* where([label,] within(key, ...)) against the values that aggregate()    *)
(* collected under the keys.                                               *)
EvaluateForAggregate(c, vals, d) ==
  LET ok(x) == (x \in ToSet(vals)) <=> (c.op = "WITHIN")
      known(pr) == HisPos(pr[1], c.ks[1]) > 0 => ok(pr[1][HisPos(pr[1], c.ks[1])][2])
  IN [i \in DOMAIN d |-> <<d[i][1], IF c.ks[1] = -1 THEN SelectSeq(d[i][2], ok)
                                    ELSE IF known(d[i]) THEN d[i][2] ELSE <<>>>>]

=============================================================================
