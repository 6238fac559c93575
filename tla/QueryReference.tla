--------------------------- MODULE QueryReference ----------------------------
(***************************************************************************)
(* What a transaction means, independent of how it is run: its lines one   *)
(* after the other, the steps of a line as written, on one graph, without  *)
(* messages.  A traverser is [v, h], a value and its labels by name.       *)
(*                                                                         *)
(* The state of a line is [T, g, se, vars, bad]: the traversers, the       *)
(* graph, what aggregate() has collected, the variables of earlier lines,  *)
(* and whether addE() met a variable that is not one vertex.               *)
(***************************************************************************)
EXTENDS Experts, Bags

CONSTANT FreshVertices(_, _)   \* the ids addV() gives to n new vertices of a graph

LOCAL Sorted(T, incr) ==
  LET before(a, b) == Below(a.k, b.k) \/ (a.k = b.k /\ Below(a.v, b.v))
      put(s, x) == LET lo == SelectSeq(s, LAMBDA y : ~before(x, y))
                   IN lo \o <<x>> \o SubSeq(s, Len(lo) + 1, Len(s))
      up == FoldLeft(put, <<>>, T)
  IN IF incr THEN up ELSE Reverse(up)

LOCAL Property(g, x, k) ==
  IF k = 0 THEN <<Str(LabelOf(g, x))>>
  ELSE IF k \in ToSet(Keys(g, x)) THEN <<g.p[x][k]>> ELSE <<>>

LOCAL Move(T, F(_)) ==
  FlattenSeq([i \in DOMAIN T |-> [j \in DOMAIN F(T[i].v) |-> [v |-> F(T[i].v)[j], h |-> T[i].h]]])

LOCAL Only(T, Test(_)) == SelectSeq(T, Test)

LOCAL Anon(vals) == [i \in DOMAIN vals |-> [v |-> vals[i], h |-> <<>>]]

LOCAL Vals(T) == [i \in DOMAIN T |-> T[i].v]

LOCAL Grouped(T, F(_)) ==
  LET ks == AsSeq({F(T[i].v) : i \in DOMAIN T})
  IN [i \in DOMAIN ks |-> <<ks[i], Vals(Only(T, LAMBDA t : F(t.v) = ks[i]))>>]

(* Out-, in- and both-neighbours, edges, and ends of edges. *)
LOCAL Adjacent(g, s, a, x) ==
  LET lid == IF a = <<>> THEN 0 ELSE a[1]
      dir == CASE s \in {"in", "inE"} -> "IN" [] s \in {"out", "outE"} -> "OUT" [] OTHER -> "BOTH"
      es == ConnectedEdges(g, x, dir, lid)
  IN CASE s = "inV" -> <<Vtx(x[2])>>
       [] s = "outV" -> <<Vtx(x[3])>>
       [] s = "bothV" -> <<Vtx(x[2]), Vtx(x[3])>>
       [] s \in {"inE", "outE", "bothE"} -> es
       [] OTHER -> [i \in DOMAIN es |-> IF es[i][2] = x[2] THEN Vtx(es[i][3]) ELSE Vtx(es[i][2])]

LOCAL Total(T, s) ==
  LET vs == [i \in DOMAIN T |-> T[i].v[2]]
      sum == FoldLeft(LAMBDA a, b : a + b, 0, vs)
      v == CASE s \in {"sum", "mean"} -> sum
             [] s = "max" -> Max(ToSet(vs))
             [] s = "min" -> Min(ToSet(vs))
  IN IF T = <<>> THEN <<>> ELSE Anon(<<<<2, v, IF s = "mean" THEN Len(T) ELSE 1>>>>)

LOCAL Distinct(T, ks) ==
  LET same(t, u) == IF ks = {} THEN t.v = u.v ELSE \A k \in ks : t.h[k] = u.h[k]
      add(s, t) == IF \E i \in DOMAIN s : same(s[i], t) THEN s ELSE Append(s, t)
  IN FoldLeft(add, <<>>, T)

(* Removing vertices removes their edges. *)
LOCAL Without(g, xs) ==
  LET dead == {e \in g.outs : e \in xs \/ Vtx(e[2]) \in xs \/ Vtx(e[3]) \in xs}
  IN [g EXCEPT !.vl = Restrict(@, DOMAIN @ \ xs), !.outs = @ \ dead, !.ins = @ \ dead]

LOCAL WithoutProps(g, ps) ==
  [g EXCEPT !.p = [x \in DOMAIN @ |-> Restrict(@[x], {k \in DOMAIN @[x] : \A y \in ps : y[2] # x \/ y[3] # k})]]

LOCAL Keep(s, t, ok) == CASE s \in {"and", "whereq"} -> \A i \in DOMAIN ok : ok[i]
                          [] s = "or" -> \E i \in DOMAIN ok : ok[i]
                          [] s = "not" -> \A i \in DOMAIN ok : ~ok[i]

RECURSIVE Run(_, _), Step(_, _)

Step(st, x) ==
  LET s == x.s
      a == x.a
      T == st.T
      g == st.g
      to(U) == [st EXCEPT !.T = U]
      sub(U, q) == Run([st EXCEPT !.T = U], q).T
      at(t, n) == IF n = "-" THEN t.v ELSE t.h[n]
      props(v, ks) == FlattenSeq([i \in DOMAIN Keys(g, v) |->
                        IF ks = <<>> \/ Keys(g, v)[i] \in ToSet(ks) THEN <<Keys(g, v)[i]>> ELSE <<>>])
      cond(c) == [op |-> IF Len(c) = 1 THEN "ANY" ELSE c[2], args |-> IF Len(c) = 1 THEN <<>> ELSE c[3]]
      has(v) == CASE s = "has" -> HasHolds(g, v, <<a[1], cond(a)>>)
                  [] s = "hasValue" -> \A i \in DOMAIN a : HasHolds(g, v, <<-1, [op |-> "EQ", args |-> <<a[i]>>]>>)
                  [] s = "hasNot" -> a[1] \notin ToSet(Keys(g, v))
                  [] s = "hasKey" -> a[1] \in ToSet(Keys(g, v))
      key(v) == IF a = <<>> THEN v ELSE Property(g, v, a[1])[1]
      keyed == IF a = <<>> THEN T ELSE Only(T, LAMBDA t : Property(g, t.v, a[1]) # <<>>)
  IN CASE s \in {"in", "out", "both", "inE", "outE", "bothE", "inV", "outV", "bothV"} ->
            to(Move(T, LAMBDA v : Adjacent(g, s, a, v)))
       [] s \in {"has", "hasValue", "hasNot", "hasKey"} -> to(Only(T, LAMBDA t : has(t.v)))
       [] s = "hasLabel" -> to(Only(T, LAMBDA t : LabelOf(g, t.v) \in ToSet(a)))
       [] s = "is" -> to(Only(T, LAMBDA t : Evaluate([op |-> a[1], args |-> a[2]], t.v)))
       [] s = "where" ->
            LET names == SubSeq(a, 3, Len(a))
                args(t) == IF a[2] \in {"WITHIN", "WITHOUT"}
                             THEN FlattenSeq([i \in DOMAIN names |-> st.se[names[i]]])
                             ELSE [i \in DOMAIN names |-> t.h[names[i]]]
            IN to(Only(T, LAMBDA t : Evaluate([op |-> a[2], args |-> args(t)], at(t, a[1]))))
       [] s \in {"and", "or", "not", "whereq"} ->
            to(Only(T, LAMBDA t : Keep(s, t, [i \in DOMAIN a |-> sub(<<t>>, a[i]) # <<>>])))
       [] s \in {"union", "repeat"} -> to(FlattenSeq([i \in DOMAIN a |-> sub(T, a[i])]))
       [] s = "as" -> to([i \in DOMAIN T |-> [T[i] EXCEPT !.h = (a[1] :> T[i].v) @@ @]])
       [] s = "select" /\ Len(a) = 1 -> to([i \in DOMAIN T |-> [T[i] EXCEPT !.v = T[i].h[a[1]]]])
       [] s = "select" /\ Len(a) > 1 ->
            to([i \in DOMAIN T |-> [T[i] EXCEPT !.v = <<10, [j \in DOMAIN a |-> T[i].h[a[j]]]>>]])
       [] s = "key" -> to(Move(T, LAMBDA v : [i \in DOMAIN props(v, <<>>) |-> Str(props(v, <<>>)[i])]))
       [] s = "label" -> to(Move(T, LAMBDA v : <<Str(LabelOf(g, v))>>))
       [] s = "values" -> to(Move(T, LAMBDA v : [i \in DOMAIN props(v, a) |-> g.p[v][props(v, a)[i]]]))
       [] s = "properties" ->
            to(Move(T, LAMBDA v : [i \in DOMAIN props(v, a) |-> <<6, v, props(v, a)[i], g.p[v][props(v, a)[i]]>>]))
       [] s = "count" -> to(Anon(<<<<1, Len(T)>>>>))
       [] s \in {"sum", "max", "min", "mean"} -> to(Total(T, s))
       [] s = "dedup" -> to(Distinct(T, ToSet(a)))
       [] s = "groupCount" ->
            LET gr == Grouped(keyed, key) IN to(Anon([i \in DOMAIN gr |-> <<8, gr[i][1], Len(gr[i][2])>>]))
       [] s = "group" ->
            LET gr == Grouped(keyed, key) IN to(Anon([i \in DOMAIN gr |-> <<9, gr[i][1], gr[i][2]>>]))
       [] s = "order" ->
            LET k(v) == IF a[1] = -1 THEN <<1, 0>> ELSE Property(g, v, a[1])[1]
                U == IF a[1] = -1 THEN T ELSE Only(T, LAMBDA t : Property(g, t.v, a[1]) # <<>>)
            IN to(Sorted([i \in DOMAIN U |-> [k |-> k(U[i].v), v |-> U[i].v, h |-> U[i].h]], a[2]))
       [] s \in {"limit", "range", "skip"} ->
            LET lo == CASE s = "range" -> a[1] [] s = "limit" -> 0 [] s = "skip" -> a[1]
                hi == CASE s = "range" -> a[2] [] s = "limit" -> a[1] - 1 [] s = "skip" -> Len(T)
            IN to(SubSeq(T, lo + 1, Min({hi + 1, Len(T)})))
       [] s = "aggregate" -> [st EXCEPT !.se = (a[1] :> Vals(T)) @@ @]
       [] s = "cap" -> to(Anon([i \in DOMAIN a |-> <<9, a[i], st.se[a[i]]>>]))
       [] s = "property" ->
            [st EXCEPT !.g.p = [v \in ToSet(Vals(T)) |-> (a[1] :> a[2]) @@ @[v]] @@ @]
       [] s = "drop" ->
            LET xs == ToSet(Vals(T))
            IN [st EXCEPT !.T = <<>>, !.g = IF \A v \in xs : v[1] = 6 THEN WithoutProps(g, xs) ELSE Without(g, xs)]
       [] s = "coin" -> st
       [] s = "addV" ->
            LET new == FreshVertices(g, Len(T))
            IN [st EXCEPT !.T = Anon(new), !.g.vl = [v \in ToSet(new) |-> a[1]] @@ @,
                          !.g.p = [v \in ToSet(new) |-> <<>>] @@ @]
       [] s = "addE" ->
            LET named == {a[2], a[3]} \cap DOMAIN st.vars
                end(t, n) == IF n = "-" THEN t.v[2] ELSE IF n \in named THEN st.vars[n][1][2] ELSE t.h[n][2]
                es == [i \in DOMAIN T |-> Edg(end(T[i], a[2]), end(T[i], a[3]))]
                new == ToSet(es)
            IN IF \E n \in named : Len(st.vars[n]) # 1 THEN [st EXCEPT !.bad = TRUE]
               ELSE [st EXCEPT !.T = Anon(es), !.g.el = [e \in new |-> a[1]] @@ @,
                               !.g.p = [e \in new |-> <<>>] @@ @,
                               !.g.outs = @ \cup new, !.g.ins = @ \cup new]

(* from() and to() belong to the addE() before them. *)
LOCAL Merged(steps) ==
  LET add(q, x) == CASE x.s = "addE" -> Append(q, [x EXCEPT !.a = <<x.a[1], "-", "-">>])
                     [] x.s = "from" -> [q EXCEPT ![Len(q)].a[2] = x.a[1]]
                     [] x.s = "to" -> [q EXCEPT ![Len(q)].a[3] = x.a[1]]
                     [] OTHER -> Append(q, x)
  IN FoldLeft(add, <<>>, steps)

Run(st, steps) == FoldLeft(LAMBDA x, y : IF x.bad THEN x ELSE Step(x, y), st, Merged(steps))

(* The traversers a line starts with; addV() and addE() start with one.    *)
LOCAL Start(g, head, vs) ==
  CASE head.s \in {"g.addV", "g.addE"} -> Anon(<<<<1, 0>>>>)
    [] head.s \notin {"V", "E", "g.addV", "g.addE"} -> <<>>
    [] head.a # <<>> -> Anon(vs[head.a[1]])
    [] head.s = "V" -> Anon(AsSeq(DOMAIN g.vl))
    [] head.s = "E" -> Anon(AsSeq(g.outs))

(* The result of every line, and the graph in the end. *)
Transaction(lines, g0) ==
  LET line(x, l) ==
        LET r == Run([T |-> Start(x.g, l.head, x.vars), g |-> x.g, se |-> <<>>, vars |-> x.vars, bad |-> x.bad],
                     l.steps)
        IN [g |-> r.g, vars |-> IF l.ret = "" THEN x.vars ELSE (l.ret :> Vals(r.T)) @@ x.vars,
            bad |-> r.bad, res |-> Append(x.res, Vals(r.T))]
  IN FoldLeft(line, [g |-> g0, vars |-> <<>>, bad |-> FALSE, res |-> <<>>], lines)

=============================================================================
