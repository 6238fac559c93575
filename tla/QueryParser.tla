----------------------------- MODULE QueryParser -----------------------------
(***************************************************************************)
(* core/parser.cpp: from the steps of a query to the experts that run it.  *)
(* Steps are records [s, a], s the step's name and a its arguments; a      *)
(* sub-query is a sequence of steps.  Tokenising (GetSteps, SplitParam) is *)
(* left out: "where" is where(predicate) and "whereq" where(sub-query),    *)
(* the two that CheckIfQuery tells apart.                                  *)
(*                                                                         *)
(* An expert is a record [t, p, next, rem]: its type, its parameters, the  *)
(* position of the next expert and send_remote.  Positions count from 1.   *)
(* INIT and HAS keep their parameters as the flat lists of the source,     *)
(* INIT <<element, with_input, key, op, args, ...>>, HAS <<element, key,   *)
(* op, args, ...>>, because ParseHas moves triples between them by offset. *)
(***************************************************************************)
EXTENDS Barriers

CONSTANTS
  EnableReorder,           \* config: global_enable_step_reorder
  IndexCount(_, _, _, _),  \* IsIndexEnabled: the count for (element, key, op, args), -1 if off
  KeyIO(_)                 \* the type of a property key: "INT" or "STRING"

index_ratio == 3

(* min_count_ starts as the largest uint64. *)
MaxCount == 10^6

ClearQuery(env) ==
  [ex |-> <<>>, io |-> "V", ls |-> <<>>, lt |-> <<>>, se |-> <<>>, nse |-> env.nse,
   cnt |-> <<>>, min |-> MaxCount, sub |-> 1, ro |-> TRUE, err |-> FALSE,
   ph |-> env.ph, regs |-> {}]

(* A ParserException. *)
Fail(ps) == [ps EXCEPT !.err = TRUE]

Require(ps, cond, then) == IF cond THEN then ELSE Fail(ps)

IsElement(ps) == ps.io \in {"V", "E"}

(* IsElement without an argument also takes properties. *)
IsElementOrProperty(ps) == ps.io \in {"V", "E", "VP", "EP"}

IsNumber(ps) == ps.io \in {"INT", "DOUBLE"}

IsValue(ps) == ps.io \in {"INT", "DOUBLE", "CHAR", "STRING"}

AppendExpert(ps, t, p, rem) ==
  [ps EXCEPT !.ex = Append(@, [t |-> t, p |-> p, next |-> Len(@) + 2, rem |-> rem])]

RemoveLastExpert(ps) == [ps EXCEPT !.ex = Front(@)]

(* The expert that would continue at the end of the list; none if the      *)
(* current sub-query is still empty.                                       *)
RECURSIVE LastOf(_, _)
LastOf(ex, i) == IF ex[i].next = Len(ex) + 1 THEN i ELSE LastOf(ex, ex[i].next)

CheckLastExpert(ps, t) == /\ Len(ps.ex) >= ps.sub
                          /\ ps.ex[LastOf(ps.ex, Len(ps.ex))].t = t

GetStepPriority(s) ==
  CASE s \in {"is", "where", "whereq"} -> 0
    [] s \in {"has", "hasNot", "hasKey", "hasValue"} -> 1
    [] s = "hasLabel" -> 2
    [] s \in {"and", "or", "not"} -> 3
    [] s = "dedup" -> 4
    [] s = "as" -> 5
    [] s = "order" -> 6
    [] OTHER -> -1

(* Move step i forward while the step before it has a larger priority;     *)
(* where(predicate) and dedup(keys), which read labels, stay behind as().  *)
RECURSIVE MoveForward(_, _, _, _)
MoveForward(tk, i, pri, checkAs) ==
  IF \/ i = 1
     \/ checkAs /\ tk[i - 1].s = "as"
     \/ GetStepPriority(tk[i - 1].s) <= pri
  THEN tk
  ELSE MoveForward([tk EXCEPT ![i] = tk[i - 1], ![i - 1] = tk[i]], i - 1, pri, checkAs)

ReOrderSteps(tokens) ==
  LET move(tk, i) ==
        LET s == tk[i].s
            pri == IF s = "whereq" THEN GetStepPriority("and") ELSE GetStepPriority(s)
            checkAs == s = "where" \/ (s = "dedup" /\ tk[i].a # <<>>)
        IN IF pri = -1 THEN tk ELSE MoveForward(tk, i, pri, checkAs)
  IN IF EnableReorder THEN FoldLeft(move, tokens, [i \in 1 .. Len(tokens) |-> i]) ELSE tokens

RegPlaceHolder(ps, var, step, pos, io) ==
  Require(ps, var \in DOMAIN ps.ph /\ ps.ph[var][2] = io,
          [ps EXCEPT !.regs = @ \cup {<<ps.ph[var][1], step, pos>>}])

-----------------------------------------------------------------------------
(* One operator per step *)

(* "g.V()", "g.E()", with a variable "g.V(A)".  A line that starts with    *)
(* g.addV() or g.addE() has no INIT expert (the tests on find() come out   *)
(* the other way round: addE starts from a vertex, addV from an edge).     *)
ParseInit(ps, head) ==
  LET io == IF head.s \in {"E", "g.addV"} THEN "E" ELSE "V"
      p0 == [ps EXCEPT !.io = io]
      reg == IF head.a = <<>> THEN p0 ELSE RegPlaceHolder(p0, head.a[1], 1, 3, io)
  IN IF head.s \in {"g.addV", "g.addE"} THEN p0
     ELSE AppendExpert(reg, "INIT", <<io, head.a # <<>>>>, FALSE)

ParseAddV(ps, a) ==
  [AppendExpert(ps, "ADDV", a[1], FALSE) EXCEPT !.io = "V", !.ro = FALSE]

(* addE(label): from and to are "none", a label step or a placeholder.     *)
ParseAddE(ps, a) ==
  Require(ps, ps.io = "V",
          [AppendExpert(ps, "ADDE", [lid |-> a[1], from |-> <<"none">>, to |-> <<"none">>], FALSE)
             EXCEPT !.io = "E", !.ro = FALSE])

ParseFromTo(ps, end, a) ==
  LET n == Len(ps.ex)
      set(q, v) == [q EXCEPT !.ex[n].p = [@ EXCEPT ![end] = v]]
  IN IF ~CheckLastExpert(ps, "ADDE") THEN Fail(ps)
     ELSE IF a[1] \in DOMAIN ps.ls THEN set(ps, <<"label", ps.ls[a[1]]>>)
     ELSE LET q == RegPlaceHolder(ps, a[1], n, end, "V")
          IN IF q.err THEN q ELSE set(q, <<"var", 0>>)

ParseAggregate(ps, a) ==
  LET new == a[1] \notin DOMAIN ps.se
      q == IF new THEN [ps EXCEPT !.se = (a[1] :> ps.nse) @@ @, !.nse = @ + 1] ELSE ps
  IN AppendExpert(q, "AGGREGATE", q.se[a[1]], IsElementOrProperty(ps))

ParseAs(ps, a) ==
  LET id == Len(ps.ex) + 1
  IN Require(ps, a[1] \notin DOMAIN ps.ls,
             AppendExpert([ps EXCEPT !.ls = (a[1] :> id) @@ @, !.lt = (id :> ps.io) @@ @],
                          "AS", id, FALSE))

ParseCap(ps, a) ==
  Require(ps, ToSet(a) \subseteq DOMAIN ps.se,
          [AppendExpert(ps, "CAP", [i \in DOMAIN a |-> <<ps.se[a[i]], a[i]>>], FALSE)
             EXCEPT !.io = "COLL"])

ParseCount(ps) == [AppendExpert(ps, "COUNT", <<>>, FALSE) EXCEPT !.io = "INT"]

ParseDedup(ps, a) ==
  Require(ps, ToSet(a) \subseteq DOMAIN ps.ls,
          AppendExpert(ps, "DEDUP", {ps.ls[k] : k \in ToSet(a)}, IsElementOrProperty(ps)))

(* Dropping a vertex needs a second expert for its edges. *)
ParseDrop(ps) ==
  LET elem == IF ps.io \in {"V", "VP"} THEN "V" ELSE "E"
      one == AppendExpert(ps, "DROP", [elem |-> elem, prop |-> ps.io \in {"VP", "EP"}], FALSE)
      two == AppendExpert(one, "DROP", [elem |-> "E", prop |-> FALSE], FALSE)
  IN Require(ps, IsElementOrProperty(ps),
             [(IF ps.io = "V" THEN two ELSE one) EXCEPT !.ro = FALSE])

ParseProject(ps, key, value) == AppendExpert(ps, "PROJECT", <<ps.io, key, value>>, FALSE)

(* group(), group(key), group(key, value) and groupCount(...). *)
ParseGroup(ps, count, a) ==
  LET by == Len(a) > 0
      q == IF by THEN ParseProject(ps, a[1], IF Len(a) = 2 THEN a[2] ELSE -1) ELSE ps
      ls == IF by THEN Len(ps.ex) + 1 ELSE -1
  IN Require(ps, by => IsElement(ps),
             [AppendExpert(q, "GROUP", [count |-> count, ls |-> ls], FALSE) EXCEPT !.io = "COLL"])

(* What has(), hasValue(), hasNot() and hasKey() add to a HAS expert.      *)
HasTriples(s, a) ==
  CASE s = "has" -> <<a[1], IF Len(a) = 1 THEN "ANY" ELSE a[2], IF Len(a) = 1 THEN <<<<1, -1>>>> ELSE a[3]>>
    [] s = "hasValue" -> FlattenSeq([i \in DOMAIN a |-> <<-1, "EQ", <<a[i]>>>>])
    [] s = "hasNot" -> <<a[1], "NONE", <<<<1, -1>>>>>>
    [] s = "hasKey" -> <<a[1], "ANY", <<<<1, -1>>>>>>

(* "remove all predicate with large count from init expert": every one     *)
(* whose count is at least index_ratio times the new minimum goes back to  *)
(* HAS.  The offset is that of an INIT without with_input.                 *)
RECURSIVE RemoveLarge(_, _, _)
RemoveLarge(ps, j, i) ==
  LET first == 2 + 3 * i
      n == Len(ps.ex)
      init == ps.ex[1].p
  IN IF j > Len(ps.cnt) THEN ps
     ELSE IF ps.cnt[j] \div index_ratio >= ps.min
       THEN RemoveLarge([ps EXCEPT !.cnt = RemoveAt(@, j),
                                   !.ex[n].p = @ \o SubSeq(init, first, first + 2),
                                   !.ex[1].p = SubSeq(@, 1, first - 1) \o SubSeq(@, first + 3, Len(@))],
                        j, i)
       ELSE RemoveLarge(ps, j + 1, i + 1)

(* A predicate with an enabled index and a small enough count moves from   *)
(* the HAS expert to the INIT expert right before it.                      *)
MoveToIndex(ps) ==
  LET has == ps.ex[2].p
      m == Len(has)
      c == IndexCount(has[1], has[m - 2], has[m - 1], has[m])
      moved == [ps EXCEPT !.ex[1].p = @ \o SubSeq(has, m - 2, m),
                          !.ex[2].p = SubSeq(@, 1, m - 3)]
      cleaned == IF c < ps.min THEN RemoveLarge([moved EXCEPT !.min = c], 1, 0) ELSE moved
      counted == [cleaned EXCEPT !.cnt = Append(@, c)]
  IN IF c = -1 \/ c \div index_ratio >= ps.min THEN ps
     ELSE IF Len(counted.ex[2].p) = 1 THEN RemoveLastExpert(counted) ELSE counted

ParseHas(ps, s, a) ==
  LET q == IF CheckLastExpert(ps, "HAS") THEN ps ELSE AppendExpert(ps, "HAS", <<ps.io>>, FALSE)
      n == Len(q.ex)
      r == [q EXCEPT !.ex[n].p = @ \o HasTriples(s, a)]
  IN Require(ps, IsElement(ps) /\ a # <<>>,
             IF n = 2 /\ s # "hasValue" THEN MoveToIndex(r) ELSE r)

(* An index on the labels takes over the whole expert. *)
ParseHasLabel(ps, a) ==
  LET q == IF CheckLastExpert(ps, "HASLABEL") THEN ps
           ELSE AppendExpert(ps, "HASLABEL", <<ps.io, <<>>>>, FALSE)
      n == Len(q.ex)
      r == [q EXCEPT !.ex[n].p[2] = @ \o a]
      vals == [i \in DOMAIN r.ex[n].p[2] |-> Str(r.ex[n].p[2][i])]
  IN Require(ps, IsElement(ps) /\ a # <<>>,
             IF n = 2 /\ IndexCount(ps.io, 0, "WITHIN", vals) # -1
               THEN [RemoveLastExpert(r) EXCEPT !.ex[1].p = @ \o <<0, "WITHIN", vals>>]
               ELSE r)

ParseIs(ps, a) ==
  LET q == IF CheckLastExpert(ps, "IS") THEN ps ELSE AppendExpert(ps, "IS", <<>>, FALSE)
  IN Require(ps, IsValue(ps),
             [q EXCEPT !.ex[Len(q.ex)].p = Append(@, [op |-> a[1], args |-> a[2]])])

ParseKey(ps) ==
  Require(ps, IsElement(ps), [AppendExpert(ps, "KEY", ps.io, FALSE) EXCEPT !.io = "STRING"])

ParseLabel(ps) ==
  Require(ps, IsElement(ps), [AppendExpert(ps, "LABEL", ps.io, FALSE) EXCEPT !.io = "STRING"])

ParseMath(ps, op) ==
  Require(ps, IsNumber(ps), [AppendExpert(ps, "MATH", op, FALSE) EXCEPT !.io = "DOUBLE"])

(* order(incr), order(key, incr): a[1] = -1 is no key. *)
ParseOrder(ps, a) ==
  LET by == a[1] # -1
      q == IF by THEN ParseProject(ps, a[1], -1) ELSE ps
      ls == IF by THEN Len(ps.ex) + 1 ELSE -1
  IN Require(ps, by => IsElement(ps),
             AppendExpert(q, "ORDER", [ls |-> ls, incr |-> a[2]], IsElementOrProperty(ps)))

ParseProperties(ps, a) ==
  Require(ps, IsElement(ps),
          [AppendExpert(ps, "PROPERTIES", <<ps.io, ToSet(a)>>, FALSE)
             EXCEPT !.io = IF ps.io = "V" THEN "VP" ELSE "EP"])

ParseProperty(ps, a) ==
  Require(ps, IsElement(ps),
          [AppendExpert(ps, "PROPERTY", <<ps.io, a[1], a[2]>>, FALSE) EXCEPT !.ro = FALSE])

(* limit(n) is the range 0 .. n-1, skip(n) has no end. *)
ParseRange(ps, s, a) ==
  LET p == CASE s = "range" -> a
             [] s = "limit" -> <<0, a[1] - 1>>
             [] s = "skip" -> <<a[1], -1>>
  IN AppendExpert(ps, "RANGE", p, IsElementOrProperty(ps))

ParseCoin(ps) == AppendExpert(ps, "COIN", <<>>, IsElementOrProperty(ps))

ParseSelect(ps, a) ==
  LET ids == [i \in DOMAIN a |-> ps.ls[a[i]]]
      io == IF Len(a) = 1 THEN ps.lt[ids[1]] ELSE "COLL"
      q == [ps EXCEPT !.io = io]
  IN Require(ps, ToSet(a) \subseteq DOMAIN ps.ls,
             AppendExpert(q, "SELECT", ids, Len(a) = 1 /\ IsElementOrProperty(q)))

(* Step names are <<direction, input, output>> here: out is OUT, V, V.     *)
ParseTraversal(ps, dir, in, out, a) ==
  Require(ps, ps.io = in,
          [AppendExpert(ps, "TRAVERSAL", <<in, out, dir, IF a = <<>> THEN 0 ELSE a[1]>>, TRUE)
             EXCEPT !.io = out])

ParseValues(ps, a) ==
  LET type == IF a = <<>> THEN "STRING" ELSE KeyIO(a[1])
  IN Require(ps, IsElement(ps) /\ \A i \in DOMAIN a : KeyIO(a[i]) = type,
             [AppendExpert(ps, "VALUES", <<ps.io, ToSet(a)>>, FALSE) EXCEPT !.io = type])

(* where([label,] predicate(names)): within and without take aggregates,   *)
(* the other predicates labels.  a = <<label or "-", op, name, ...>>.      *)
ParseWhere(ps, a) ==
  LET agg == a[2] \in {"WITHIN", "WITHOUT"}
      known == IF agg THEN ps.se ELSE ps.ls
      q == IF CheckLastExpert(ps, "WHERE") THEN ps ELSE AppendExpert(ps, "WHERE", <<>>, FALSE)
      left == IF a[1] = "-" THEN -1 ELSE ps.ls[a[1]]
      names == SubSeq(a, 3, Len(a))
      ks == <<left>> \o [i \in DOMAIN names |-> known[names[i]]]
  IN Require(ps, ToSet(names) \subseteq DOMAIN known /\ (a[1] = "-" \/ a[1] \in DOMAIN ps.ls),
             [q EXCEPT !.ex[Len(q.ex)].p = Append(@, [op |-> a[2], ks |-> ks])])

-----------------------------------------------------------------------------
(* Sub-queries, lines and transactions *)

MathSteps == {"sum", "max", "min", "mean"}

MathName(s) == CASE s = "sum" -> "SUM" [] s = "max" -> "MAX" [] s = "min" -> "MIN" [] s = "mean" -> "MEAN"

(* direction, input, output *)
Traversals ==
  [in |-> <<"IN", "V", "V">>, out |-> <<"OUT", "V", "V">>, both |-> <<"BOTH", "V", "V">>,
   inE |-> <<"IN", "V", "E">>, outE |-> <<"OUT", "V", "E">>, bothE |-> <<"BOTH", "V", "E">>,
   inV |-> <<"IN", "E", "V">>, outV |-> <<"OUT", "E", "V">>, bothV |-> <<"BOTH", "E", "V">>]

RECURSIVE ParseSteps(_, _), ParseSub(_, _, _)

(* Every sub-query starts from the input type, appends its experts and     *)
(* leads its last one back to the branch expert cur, whose parameters list *)
(* the starts of the branches and whose next is the step behind them.      *)
ParseSub(ps, subs, filter) ==
  LET cur == Len(ps.ex)
      join(q, r, i) ==
        IF q.err \/ r.err \/ ~(i = 1 \/ filter \/ r.io = q.io) THEN Fail(q)
        ELSE [r EXCEPT !.ex[LastOf(r.ex, Len(r.ex))].next = cur,
                       !.ex[cur].p.steps = Append(@, Len(q.ex) + 1)]
      one(q, i) ==
        join(q, ParseSteps([q EXCEPT !.io = ps.io, !.sub = Len(q.ex) + 1], ReOrderSteps(subs[i])), i)
      close(q) == [q EXCEPT !.ex[cur].next = Len(q.ex) + 1, !.sub = ps.sub,
                            !.io = IF filter THEN ps.io ELSE @]
  IN close(FoldLeft(one, ps, [i \in DOMAIN subs |-> i]))

(* union() *)
ParseBranch(ps, a) ==
  Require(ps, a # <<>>, ParseSub(AppendExpert(ps, "BRANCH", [steps |-> <<>>], FALSE), a, FALSE))

(* "Act just as union" *)
ParseRepeat(ps, a) ==
  Require(ps, a # <<>>, ParseSub(AppendExpert(ps, "REPEAT", [steps |-> <<>>], FALSE), a, FALSE))

(* and(), or(), not(); where(query) is and() of one. *)
ParseBranchFilter(ps, filter, a) ==
  Require(ps, a # <<>>,
          ParseSub(AppendExpert(ps, "BRANCHFILTER", [filter |-> filter, steps |-> <<>>], FALSE), a, TRUE))

ParseStep(ps, s, a) ==
  CASE s = "addE" -> ParseAddE(ps, a)
    [] s \in {"from", "to"} -> ParseFromTo(ps, s, a)
    [] s = "addV" -> ParseAddV(ps, a)
    [] s = "aggregate" -> ParseAggregate(ps, a)
    [] s = "as" -> ParseAs(ps, a)
    [] s = "union" -> ParseBranch(ps, a)
    [] s = "repeat" -> ParseRepeat(ps, a)
    [] s \in {"and", "whereq"} -> ParseBranchFilter(ps, "AND", a)
    [] s = "or" -> ParseBranchFilter(ps, "OR", a)
    [] s = "not" -> ParseBranchFilter(ps, "NOT", a)
    [] s = "cap" -> ParseCap(ps, a)
    [] s = "count" -> ParseCount(ps)
    [] s = "dedup" -> ParseDedup(ps, a)
    [] s = "drop" -> ParseDrop(ps)
    [] s \in {"group", "groupCount"} -> ParseGroup(ps, s = "groupCount", a)
    [] s \in {"has", "hasKey", "hasValue", "hasNot"} -> ParseHas(ps, s, a)
    [] s = "hasLabel" -> ParseHasLabel(ps, a)
    [] s = "is" -> ParseIs(ps, a)
    [] s = "key" -> ParseKey(ps)
    [] s = "label" -> ParseLabel(ps)
    [] s \in MathSteps -> ParseMath(ps, MathName(s))
    [] s = "order" -> ParseOrder(ps, a)
    [] s = "properties" -> ParseProperties(ps, a)
    [] s = "property" -> ParseProperty(ps, a)
    [] s \in {"limit", "range", "skip"} -> ParseRange(ps, s, a)
    [] s = "coin" -> ParseCoin(ps)
    [] s = "select" -> ParseSelect(ps, a)
    [] s \in DOMAIN Traversals ->
         ParseTraversal(ps, Traversals[s][1], Traversals[s][2], Traversals[s][3], a)
    [] s = "values" -> ParseValues(ps, a)
    [] s = "where" -> ParseWhere(ps, a)
    [] OTHER -> Fail(ps)

ParseSteps(ps, tokens) ==
  FoldLeft(LAMBDA q, st : IF q.err THEN q ELSE ParseStep(q, st.s, st.a), ps, tokens)

ParseQuery(ps, tokens) == ParseSteps(ps, ReOrderSteps(tokens))

(* BuildIndex(element, key), SetConfig(name, value), DisplayStatus(name):  *)
(* lines of one expert, each an update.                                    *)
ParseIndex(ps, a) ==
  [AppendExpert(ps, "INDEX", a, FALSE) EXCEPT !.io = a[1], !.ro = FALSE]

ParseSetConfig(ps, a) == [AppendExpert(ps, "CONFIG", a, FALSE) EXCEPT !.ro = FALSE]

ParseDisplayStatus(ps, a) == [AppendExpert(ps, "STATUS", a, FALSE) EXCEPT !.ro = FALSE]

(* addE() at the head of a line needs two variables, anywhere else one or  *)
(* two ends that are not both variables.                                   *)
AddEParamsMatch(ex) ==
  LET weight(w) == CASE w[1] = "none" -> 0 [] w[1] = "label" -> 1 [] w[1] = "var" -> 2
      count(e) == weight(e.p.from) + weight(e.p.to)
  IN \A i \in DOMAIN ex : ex[i].t = "ADDE" =>
       IF i = 1 THEN count(ex[i]) = 4 ELSE count(ex[i]) \notin {0, 4}

(* A line is [ret, head, steps]: the variable that takes the result ("" is *)
(* none), what comes before the first dot and the steps.                   *)
ParseLine(env, line) ==
  LET q0 == ClearQuery(env)
      named(q) == IF line.ret = "" THEN q ELSE [q EXCEPT !.ph = (line.ret :> <<env.line, q.io>>) @@ @]
      close(q) == IF q.err \/ ~AddEParamsMatch(q.ex) THEN Fail(q)
                  ELSE AppendExpert(named(q), "END", <<>>, FALSE)
  IN close(CASE line.head.s = "BuildIndex" -> ParseIndex(q0, line.head.a)
             [] line.head.s = "SetConfig" -> ParseSetConfig(q0, line.head.a)
             [] line.head.s = "DisplayStatus" -> ParseDisplayStatus(q0, line.head.a)
             [] OTHER -> ParseQuery(ParseInit(q0, line.head), line.steps))

(* The commit statement waits for every query since the last update.       *)
AddCommitStatement(env) ==
  LET ex == [i \in 1 .. 3 |-> [t |-> <<"VALIDATION", "POSTVALIDATION", "TERMINATE">>[i], p |-> <<>>,
                               next |-> i + 1, rem |-> FALSE]]
      from == IF env.upd > 1 THEN env.upd ELSE 1
  IN [env EXCEPT !.plans = Append(@, ex),
                 !.topo = @ \cup {<<i, env.line>> : i \in from .. env.line - 1}]

(* Parse a transaction: the plans of its lines, the dependencies between   *)
(* them, the placeholders <<query, query, expert, parameter>> that results *)
(* fill and whether it only reads.  Lines count from 1; upd is the last    *)
(* update, 0 while there is none.                                          *)
Parse(lines) ==
  LET env0 == [line |-> 1, upd |-> 0, nse |-> 1, ph |-> <<>>, plans |-> <<>>, topo |-> {},
               regs |-> <<>>, ro |-> TRUE, err |-> FALSE]
      add(env, q) ==
        LET i == env.line
            from == IF env.upd > 1 THEN env.upd ELSE 1
            deps == IF ~q.ro THEN {<<j, i>> : j \in from .. i - 1}
                    ELSE IF env.upd > 0 THEN {<<env.upd, i>>} ELSE {}
            used == {<<r[1], i>> : r \in q.regs}
        IN IF env.err \/ q.err THEN [env EXCEPT !.err = TRUE]
           ELSE [env EXCEPT !.line = i + 1, !.upd = IF q.ro THEN @ ELSE i, !.nse = q.nse, !.ph = q.ph,
                            !.plans = Append(@, q.ex), !.topo = @ \cup deps \cup used,
                            !.regs = @ \o [k \in 1 .. Cardinality(q.regs) |->
                                              LET r == SetToSeq(q.regs)[k] IN <<r[1], i, r[2], r[3]>>],
                            !.ro = @ /\ q.ro]
      close(env) == IF env.err THEN env ELSE AddCommitStatement(env)
  IN close(FoldLeft(LAMBDA env, line : add(env, ParseLine(env, line)), env0, lines))

=============================================================================
