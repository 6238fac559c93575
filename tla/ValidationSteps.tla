--------------------------- MODULE ValidationSteps --------------------------
(***************************************************************************)
(* What the validation of a transaction compares                           *)
(* (expert/validation_expert.cpp, the valid functions of the experts,      *)
(* expert/expert_validation_object.cpp and layout/pmt_rct_table.cpp): the  *)
(* steps of its queries with what they read, and the recent actions of     *)
(* another transaction.                                                    *)
(***************************************************************************)
EXTENDS Ids

(* An action of a query: add, drop or set, on a vertex, an edge or one of  *)
(* their properties.  property() reports a modification even when it adds  *)
(* a property.                                                             *)
VertexActions == {"IV", "DV"}
EdgeActions == {"IE", "DE"}
VPActions == {"MVP", "DVP"}
EPActions == {"MEP", "DEP"}

(* The item that InsertRecentActionSet keeps for it. *)
Item(a) ==
  CASE a.kind \in VertexActions -> a.v
    [] a.kind \in EdgeActions -> EidValue(a.e)
    [] a.kind \in VPActions -> VpidValue(a.v, a.pid)
    [] a.kind \in EPActions -> EpidValue(a.e, a.pid)

(* GetRecentActionSet takes it apart again: <<id, pid, element type>>. *)
Extract(a, item) ==
  CASE a.kind \in VertexActions -> [id |-> item, pid |-> -1, type |-> "VERTEX"]
    [] a.kind \in EdgeActions -> [id |-> item, pid |-> -1, type |-> "EDGE"]
    [] a.kind \in VPActions -> [id |-> item \div 2 ^ PidBits, pid |-> item % 2 ^ PidBits, type |-> "VERTEX"]
    [] a.kind \in EPActions -> [id |-> item \div 2 ^ PidBits, pid |-> item % 2 ^ PidBits, type |-> "EDGE"]

-----------------------------------------------------------------------------
(* A step: its expert, for HAS the kind of its predicate, the type of its  *)
(* input, its keys, its place in the query (INIT is at 1), and what was    *)
(* recorded of its input (RecordInputSet): everything at place 2, the ids  *)
(* elsewhere.                                                              *)
NeedValidate == {"TRAVERSAL", "VALUES", "PROPERTIES", "KEY", "HASLABEL", "HAS", "PROJECT", "INIT"}

(* get_vstep and get_vstep_for_has. *)
VStep(s) ==
  [expert |-> s.expert,
   step |-> IF s.expert \in {"HAS", "HASLABEL"} THEN s.has ELSE "none",
   only_first |-> s.expert \in {"HAS", "HASLABEL", "PROJECT"} /\ s.place = 1]

V(expert, step, only_first) == [expert |-> expert, step |-> step, only_first |-> only_first]

(* prepare_primitive_list. *)
TopoSteps == {V("HASLABEL", "HASLABEL", TRUE), V("HAS", "HASNOT", TRUE), V("PROJECT", "none", TRUE), V("INIT", "none", FALSE)}

(* Wrong variant: without has(). *)
ModifyStepsShort == {V("VALUES", "none", FALSE), V("PROPERTIES", "none", FALSE), V("PROJECT", "none", FALSE)}

ModifySteps ==
  {V("VALUES", "none", FALSE), V("PROPERTIES", "none", FALSE), V("HAS", "HASVALUE", FALSE),
   V("HAS", "HAS", FALSE), V("PROJECT", "none", FALSE)}

VPSteps == ModifySteps \cup {V("KEY", "none", FALSE), V("HAS", "HASNOT", FALSE), V("HAS", "HASKEY", FALSE)}
EPSteps == VPSteps \cup {V("TRAVERSAL", "none", FALSE)}

primitiveStepMap(kind) ==
  CASE kind \in VertexActions \cup EdgeActions -> TopoSteps
    [] kind \in {"MVP", "MEP"} -> ModifySteps
    [] kind = "DVP" -> VPSteps
    [] OTHER -> EPSteps

(* ExpertValidationObject::Validate. *)
InRecord(s, id) ==
  s.place = 2 \/ \E inv \in {id \div 2 ^ VidBits} : s.input \cap {id, inv, id - inv * 2 ^ VidBits} # {}

(* The valid functions: the actions that may have changed what a step      *)
(* read.  -1 stands for hasValue.  INIT is asked about everything, or,     *)
(* when it took its vertices from an index, about the keys of the index.   *)
Matches(s, x) ==
  CASE s.expert \in {"TRAVERSAL", "HASLABEL"} -> x.pid = 0 /\ x.type = s.type
    [] s.expert = "KEY" -> x.type = s.type
    [] s.expert = "HAS" -> x.pid \in (IF s.has = "HASVALUE" THEN {-1} ELSE s.keys) /\ x.type = s.type
    [] s.expert = "INIT" -> (s.keys = {} \/ x.pid \in s.keys) /\ x.type = s.type
    [] OTHER -> x.pid \in s.keys /\ x.type = s.type

Valid(s, x) == ~(Matches(s, x) /\ ((s.expert = "INIT" /\ s.keys = {}) \/ InRecord(s, x.id)))

(* validate: the steps of the transaction that an action concerns are      *)
(* asked.                                                                  *)
Conflict(s, a) == s.expert \in NeedValidate /\ VStep(s) \in primitiveStepMap(a.kind) /\ ~Valid(s, Extract(a, Item(a)))

-----------------------------------------------------------------------------
(* Reference: the action changes what the step read.  Values are changed   *)
(* by all property actions; whether a property is there, by dropping it    *)
(* and by setting it for the first time; the edges of a vertex, by adding  *)
(* and dropping edges; the elements of the graph, likewise; and all that   *)
(* was read of an element, by dropping it.                                 *)
ElementId(a) == IF a.kind \in VPActions \cup VertexActions THEN a.v ELSE EidValue(a.e)
TypeOf(a) == IF a.kind \in VertexActions \cup VPActions THEN "VERTEX" ELSE "EDGE"
Touches(s, a) == TypeOf(a) = s.type /\ (s.place \in {1, 2} \/ ElementId(a) \in s.input)

ReadsValue(s, p) ==
  \/ s.expert = "INIT" /\ p \in s.keys
  \/ s.expert \in {"VALUES", "PROPERTIES", "PROJECT"} /\ (s.keys = {} \/ p \in s.keys)
  \/ s.expert = "HAS" /\ (s.has = "HASVALUE" \/ (s.has = "HAS" /\ p \in s.keys))
ReadsPresence(s, p) == s.expert = "KEY" \/ (s.expert = "HAS" /\ s.has \in {"HASKEY", "HASNOT"} /\ p \in s.keys)

ChangesValue(s, a) == a.kind \in VPActions \cup EPActions /\ Touches(s, a) /\ ReadsValue(s, a.pid)
ChangesPresence(s, a) ==
  a.kind \in VPActions \cup EPActions /\ Touches(s, a) /\ (a.kind \in {"DVP", "DEP"} \/ a.new) /\ ReadsPresence(s, a.pid)
ChangesElements(s, a) == s.expert = "INIT" /\ s.keys = {} /\ a.kind \in VertexActions \cup EdgeActions /\ TypeOf(a) = s.type
ChangesExistence(s, a) == a.kind \in {"DV", "DE"} /\ Touches(s, a)
ChangesEdges(s, a) ==
  /\ s.expert = "TRAVERSAL" /\ s.type = "VERTEX" /\ a.kind \in EdgeActions
  /\ s.place = 2 \/ s.input \cap {a.e.dst, a.e.src} # {}

Changes(s, a) ==
  ChangesValue(s, a) \/ ChangesPresence(s, a) \/ ChangesElements(s, a) \/ ChangesExistence(s, a) \/ ChangesEdges(s, a)

(* The changes that the code lets pass: vertices and edges that come and   *)
(* go are asked of INIT only, and only of one without an index; an INIT    *)
(* with an index is in no list of property primitives, although its valid  *)
(* function handles them; a property set for the first time counts as a    *)
(* modification, which KEY, HASKEY and HASNOT are not asked about; values  *)
(* of all keys and hasValue name no key that an action could have.         *)
LeftOut(s, a) ==
  \/ a.kind \in VertexActions \cup EdgeActions /\ ~(s.expert = "INIT" /\ s.keys = {})
  \/ a.kind \in VPActions \cup EPActions /\ s.expert = "INIT"
  \/ a.kind \in {"MVP", "MEP"} /\ (s.expert = "KEY" \/ s.has \in {"HASKEY", "HASNOT"})
  \/ s.expert \in {"VALUES", "PROPERTIES"} /\ s.keys = {}
  \/ s.has = "HASVALUE"

(* validate finds a conflict in every change of what a step read, but for  *)
(* the ones left out, and in none of those: a value that was read and set  *)
(* or dropped, a key that was looked for and dropped, and, for g.V() and   *)
(* g.E(), a vertex or an edge that comes or goes.                          *)
ConflictCaught(s, a) == Changes(s, a) => (Conflict(s, a) <=> ~LeftOut(s, a))

(* Every change of what a step read is a conflict. *)
EveryChangeCaught(s, a) == Changes(s, a) => Conflict(s, a)

(* The samples: two vertices, the edges between them, two keys. *)
Vids == 1 .. 2
Eids == [dst : Vids, src : Vids]
Keys == 1 .. 2
InputIds(type) == IF type = "VERTEX" THEN Vids ELSE {EidValue(e) : e \in Eids}
Has == {"HAS", "HASVALUE", "HASKEY", "HASNOT"}
Inputs(type) == {S \in SUBSET InputIds(type) : Cardinality(S) <= 1}
Steps ==
  UNION {[expert : {"HAS"}, has : Has, type : {type}, keys : {{1}, {2}, {1, 2}}, place : {2, 3}, input : Inputs(type)]
           \cup [expert : {"VALUES", "PROPERTIES"}, has : {"none"}, type : {type}, keys : SUBSET Keys, place : {2, 3},
                 input : Inputs(type)]
           \cup [expert : {"PROJECT"}, has : {"none"}, type : {type}, keys : {{1, 2}}, place : {2, 3}, input : Inputs(type)]
           \cup [expert : {"HASLABEL"}, has : {"HASLABEL"}, type : {type}, keys : {{}}, place : {2, 3}, input : Inputs(type)]
           \cup [expert : {"KEY", "TRAVERSAL"}, has : {"none"}, type : {type}, keys : {{}}, place : {2, 3}, input : Inputs(type)]
           \cup [expert : {"INIT"}, has : {"none"}, type : {type}, keys : {{}, {1}}, place : {1}, input : Inputs(type)] : type \in {"VERTEX", "EDGE"}}
Actions ==
  [kind : VertexActions, v : Vids] \cup [kind : EdgeActions, e : Eids]
    \cup [kind : VPActions, v : Vids, pid : Keys, new : BOOLEAN] \cup [kind : EPActions, e : Eids, pid : Keys, new : BOOLEAN]

=============================================================================
