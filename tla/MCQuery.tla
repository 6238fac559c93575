------------------------------- MODULE MCQuery -------------------------------
(***************************************************************************)
(* Transactions for QueryExec on two workers, and their meaning.  The      *)
(* graph has vertices 1, 2, 3 (node 0 holds 2, node 1 the others) and the  *)
(* edges 1->2, 2->3, 1->3; key 1 is the age of 1 and 2, key 2 everybody's  *)
(* name, key 3 a weight of edges.                                          *)
(***************************************************************************)
EXTENDS QueryExec

V(i) == Vtx(i)

TheGraph ==
  LET es == {Edg(1, 2), Edg(2, 3), Edg(1, 3)} IN
  [vl |-> (V(1) :> 1 @@ V(2) :> 2 @@ V(3) :> 1),
   el |-> (Edg(1, 2) :> 3 @@ Edg(2, 3) :> 4 @@ Edg(1, 3) :> 3),
   p |-> (V(1) :> (1 :> <<1, 5>> @@ 2 :> Str(1)) @@ V(2) :> (1 :> <<1, 7>> @@ 2 :> Str(2)) @@
          V(3) :> (2 :> Str(1)) @@
          Edg(1, 2) :> (3 :> <<1, 2>>) @@ Edg(2, 3) :> (3 :> <<1, 4>>) @@ Edg(1, 3) :> <<>>),
   outs |-> es, ins |-> es]

MCKeyIO(k) == IF k = 2 THEN "STRING" ELSE "INT"

(* The ages of vertices and the labels of edges have an index. *)
MCIndexCount(elem, k, op, args) ==
  CASE elem = "V" /\ k = 1 -> 2 [] elem = "E" /\ k = 0 -> 3 [] OTHER -> -1

S(name, args) == [s |-> name, a |-> args]

L(head, steps) == [ret |-> "", head |-> S(head, <<>>), steps |-> steps]

Named(name, l) == [l EXCEPT !.ret = name]

From(name, l) == [l EXCEPT !.head.a = <<name>>]

(* Steps without parameters. *)
X(name) == S(name, <<>>)

Is(op, v) == S("is", <<op, <<v>>>>)

HasP(k, op, v) == S("has", <<k, op, <<v>>>>)

MCTransactions == <<
  <<L("V", <<X("out"), X("in"), X("count")>>)>>,
  <<L("V", <<HasP(1, "GTE", <<1, 5>>), X("both"), S("values", <<2>>)>>)>>,
  <<L("V", <<S("union", <<<<X("out")>>, <<S("in", <<3>>)>>>>), X("dedup"), X("count")>>)>>,
  <<L("V", <<S("union", <<<<X("out"), X("count")>>, <<X("in"), S("has", <<1>>), X("count")>>>>)>>)>>,
  <<L("V", <<S("and", <<<<X("out")>>, <<X("in"), X("in")>>>>), S("values", <<2>>)>>)>>,
  <<L("V", <<S("not", <<<<X("out"), S("hasLabel", <<2>>)>>>>), X("label")>>)>>,
  <<L("V", <<S("or", <<<<X("in"), X("count"), Is("GT", <<1, 1>>)>>, <<S("hasLabel", <<2>>)>>>>), X("key")>>)>>,
  <<L("V", <<S("whereq", <<<<X("out"), S("not", <<<<X("out")>>>>)>>>>), S("properties", <<1>>)>>)>>,
  <<L("V", <<S("as", <<"a">>), X("out"), S("as", <<"b">>), X("in"), S("where", <<"-", "NEQ", "a">>),
             S("select", <<"b">>), S("values", <<2>>)>>)>>,
  <<L("V", <<S("as", <<"a">>), X("outE"), X("inV"), S("as", <<"b">>), S("where", <<"a", "LT", "b">>),
             S("select", <<"a", "b">>)>>)>>,
  <<L("V", <<S("as", <<"a">>), X("both"), S("dedup", <<"a">>), X("count")>>)>>,
  <<L("V", <<X("both"), S("order", <<2, FALSE>>)>>), L("V", <<S("order", <<-1, TRUE>>), S("limit", <<2>>)>>)>>,
  <<L("V", <<S("values", <<1>>), X("sum")>>), L("V", <<S("values", <<1>>), X("mean")>>)>>,
  <<L("V", <<S("values", <<1>>), X("max")>>), L("V", <<S("hasNot", <<1>>), S("values", <<1>>), X("min")>>)>>,
  <<L("V", <<X("both"), S("groupCount", <<2>>)>>), L("V", <<X("out"), X("group")>>)>>,
  <<L("V", <<X("out"), S("aggregate", <<"x">>), X("in"), S("where", <<"-", "WITHIN", "x">>)>>)>>,
  <<L("V", <<S("hasKey", <<1>>), S("aggregate", <<"x">>), S("cap", <<"x">>)>>)>>,
  <<L("E", <<S("hasLabel", <<3>>), X("bothV"), X("dedup")>>), L("E", <<X("outV"), X("count")>>)>>,
  <<L("V", <<S("repeat", <<<<X("out"), X("out")>>>>), S("values", <<2>>)>>)>>,
  <<L("V", <<X("coin"), X("out")>>)>>,
  <<L("V", <<S("skip", <<1>>), X("count")>>), L("V", <<S("hasValue", <<Str(1)>>), S("range", <<1, 4>>), X("count")>>)>>,
  <<Named("A", L("g.addV", <<S("addV", <<1>>)>>)), Named("B", L("V", <<HasP(2, "EQ", Str(2)), X("dedup")>>)),
    L("g.addE", <<S("addE", <<3>>), S("from", <<"A">>), S("to", <<"B">>)>>), L("V", <<X("in"), X("count")>>)>>,
  <<L("V", <<S("has", <<1>>), X("drop")>>), L("V", <<X("count")>>), L("E", <<X("count")>>)>>,
  <<L("E", <<S("hasLabel", <<3>>), X("drop")>>), L("V", <<X("both"), X("count")>>)>>,
  <<L("V", <<S("hasLabel", <<1>>), S("property", <<1, <<1, 9>>>>)>>), L("V", <<S("values", <<1>>)>>)>>,
  <<L("V", <<S("properties", <<2>>), X("drop")>>), L("V", <<S("hasNot", <<2>>), X("count")>>)>>,
  <<L("V", <<HasP(1, "EQ", <<1, 7>>), S("as", <<"a">>), X("out"), S("addE", <<4>>), S("to", <<"a">>)>>)>>,
  <<L("E", <<S("property", <<3, <<1, 1>>>>)>>), L("E", <<S("values", <<3>>), X("sum")>>)>>,
  <<Named("A", L("V", <<X("out")>>)), From("A", L("V", <<X("inE"), S("values", <<3>>)>>)), From("A", L("V", <<X("count")>>))>>,
  <<Named("A", L("V", <<X("dedup")>>)), L("g.addE", <<S("addE", <<3>>), S("from", <<"A">>), S("to", <<"A">>)>>)>>,
  <<[ret |-> "", head |-> S("BuildIndex", <<"V", 1>>), steps |-> <<>>],
    [ret |-> "", head |-> S("SetConfig", <<0, TRUE>>), steps |-> <<>>],
    [ret |-> "", head |-> S("DisplayStatus", <<0>>), steps |-> <<>>]>>,
  <<L("V", <<HasP(1, "EQ", <<1, 7>>), S("as", <<"a">>), X("out"), S("as", <<"b">>), S("addE", <<4>>), S("to", <<"b">>)>>)>>,
  <<L("V", <<HasP(1, "EQ", <<1, 5>>), S("as", <<"a">>), X("out"), S("as", <<"b">>), S("addE", <<4>>), S("from", <<"a">>), S("to", <<"b">>)>>)>>,
  <<L("V", <<HasP(1, "EQ", <<1, 7>>), S("aggregate", <<"x">>), X("out"), S("aggregate", <<"y">>), X("both"),
             S("where", <<"-", "WITHIN", "x", "y">>)>>)>>,
  <<L("V", <<S("has", <<1>>), S("as", <<"a">>), X("both"), S("skip", <<0>>), X("label"), S("as", <<"b">>), S("select", <<"b">>)>>)>>
>>

MCFaults(i) ==
  {"none"} \cup (IF i \in {1, 6, 11, 16, 17, 22, 24, 25, 26, 27, 28, 30} THEN {"process", "validate"} ELSE {})
           \cup (IF i \in {22, 27, 30} THEN {"sameEdge"} ELSE {})

(* One transaction each for the behaviours below. *)
NestedUnion == <<
  <<L("V", <<S("union", <<<<S("union", <<<<X("out"), X("count")>>, <<X("in"), X("count")>>>>)>>,
                          <<X("both"), X("count")>>>>)>>)>> >>

CapOnly == <<MCTransactions[17]>>

AddEdgeOnly == <<MCTransactions[22]>>

(* A value that occurs twice in a pair behind another one. *)
RepeatedAs == <<
  <<L("V", <<S("has", <<1>>), S("as", <<"a">>), X("both"), S("skip", <<0>>), X("label"), S("as", <<"b">>), S("select", <<"a">>)>>)>> >>

NoFault(i) == {"none"}

ValidateFault(i) == {"validate"}

SameEdgeFault(i) == {"sameEdge"}

ASSUME AllParse == \A i \in DOMAIN MCTransactions : ~Parse(MCTransactions[i]).err

=============================================================================
