----------------------------- MODULE PropIndex -----------------------------
(***************************************************************************)
(* The index of one property key of IndexStore (layout/index_store.cpp):   *)
(* index_map, no_key and count_map, and the update region beside them.     *)
(* An operation buffers its change if the index is enabled at that moment; *)
(* TerminateExpert makes the new values visible in the storage and then    *)
(* moves the buffer to the region; the collector merges the region.  A     *)
(* read of the index asks no version list: what counts is the region.      *)
(***************************************************************************)
EXTENDS Integers, Sequences, FiniteSets, SequencesExt
LOCAL INSTANCE Experts

CONSTANTS
  NumTrx,     \* bound on the transactions, numbered as they begin
  Elem,
  Value,      \* values of the property, as Experts orders them
  Empty,      \* an empty value_t, below them; also the value of an element without the property
  NoTrx,
  Worker,     \* the workers
  Home,       \* Home[t]: the worker that runs t
  MaxUpdates  \* bound on the updates of a behaviour

Trx == 1 .. NumTrx

VARIABLES
  val,        \* the committed value of each element
  writer,     \* the transaction with a version of the property under way, and its value
  trx,        \* stage, begin time and commit time of each transaction
  clock,
  buffer,     \* vp_update_buffers
  region,     \* vp_update_map of the key: the elements under each value
  idx,        \* vtx_prop_index of the key
  unbuffered, \* elements changed by an unfinished transaction without a buffer entry
  off,        \* elements for which the index is allowed to be wrong, and why
  updates

vars == <<val, writer, trx, clock, buffer, region, idx, unbuffered, off, updates>>

Key == Value \cup {Empty}
NoIndex == [built |-> FALSE, enabled |-> FALSE]
Free == [by |-> NoTrx, new |-> Empty]
NewTrx == [stage |-> "new", bt |-> 0, ct |-> 0]

Init ==
  /\ val \in [Elem -> Key] /\ writer = [e \in Elem |-> Free]
  /\ trx = [t \in Trx |-> NewTrx] /\ clock = 0 /\ updates = 0
  /\ buffer = [t \in Trx |-> <<>>] /\ region = [k \in Key |-> <<>>] /\ idx = NoIndex
  /\ unbuffered = [t \in Trx |-> {}] /\ off = {}

-----------------------------------------------------------------------------
(* IndexExpert: BuildIndexVtx and SetIndexMap the first time, an enabled   *)
(* index; afterwards SetIndexMapEnable turns it off and on.                *)
BuildIndex ==
  /\ idx' = IF ~idx.built
            THEN [built |-> TRUE, enabled |-> TRUE, total |-> Cardinality(Elem),
                  map |-> [k \in Key |-> IF k = Empty THEN {} ELSE {e \in Elem : val[e] = k}],
                  no_key |-> {e \in Elem : val[e] = Empty},
                  count |-> [k \in Key |-> IF k = Empty THEN 0 ELSE Cardinality({e \in Elem : val[e] = k})]]
            ELSE [idx EXCEPT !.enabled = ~@]
  /\ UNCHANGED <<val, writer, trx, clock, buffer, region, unbuffered, off, updates>>

Begin(t) ==
  /\ trx[t].stage = "new" /\ \A u \in 1 .. t - 1 : trx[u].stage # "new"
  /\ clock' = clock + 1 /\ trx' = [trx EXCEPT ![t] = [stage |-> "running", bt |-> clock', ct |-> 0]]
  /\ UNCHANGED <<val, writer, buffer, region, idx, unbuffered, off, updates>>

Current(t, e) == IF writer[e].by = t THEN writer[e].new ELSE val[e]
Elm(e, v, type, add) == [id |-> e, value |-> v, type |-> type, add |-> add]

(* PropertyExpert::process and the branch of InsertToUpdateBuffer with a   *)
(* new value and the old ones.  IsIndexEnabled is asked first, and an      *)
(* addition is entered with the old, empty value.                          *)
Modify(t, e, v) ==
  /\ trx[t].stage = "running" /\ updates < MaxUpdates /\ writer[e].by \in {NoTrx, t}
  /\ writer' = [writer EXCEPT ![e] = [by |-> t, new |-> v]]
  /\ IF idx.enabled
     THEN /\ buffer' = [buffer EXCEPT ![t] = @ \o <<Elm(e, v, "MODIFY", TRUE)>> \o
                          IF Current(t, e) # Empty THEN <<Elm(e, Current(t, e), "MODIFY", FALSE)>>
                          ELSE <<Elm(e, Empty, "ADD", TRUE)>>]
          /\ UNCHANGED unbuffered
     ELSE UNCHANGED buffer /\ unbuffered' = [unbuffered EXCEPT ![t] = @ \cup {e}]
  /\ updates' = updates + 1
  /\ UNCHANGED <<val, trx, clock, region, idx, off>>

(* DropExpert::process: buffered whether or not the index is enabled. *)
DropProperty(t, e) ==
  /\ trx[t].stage = "running" /\ updates < MaxUpdates /\ writer[e].by \in {NoTrx, t} /\ Current(t, e) # Empty
  /\ writer' = [writer EXCEPT ![e] = [by |-> t, new |-> Empty]]
  /\ buffer' = [buffer EXCEPT ![t] = Append(@, Elm(e, Current(t, e), "DROP", FALSE))]
  /\ updates' = updates + 1
  /\ UNCHANGED <<val, trx, clock, region, idx, unbuffered, off>>

(* TerminateExpert: DataStorage::Commit first. *)
Mine(t) == {e \in Elem : writer[e].by = t}
Commit(t) ==
  /\ trx[t].stage = "running"
  /\ clock' = clock + 1
  /\ trx' = [trx EXCEPT ![t].stage = "committed", ![t].ct = clock']
  /\ val' = [e \in Elem |-> IF e \in Mine(t) THEN writer[e].new ELSE val[e]]
  /\ writer' = [e \in Elem |-> IF e \in Mine(t) THEN Free ELSE writer[e]]
  /\ off' = off \cup {<<e, "unbuffered">> : e \in unbuffered[t]}
  /\ unbuffered' = [unbuffered EXCEPT ![t] = {}]
  /\ UNCHANGED <<buffer, region, idx, updates>>

(* An abort leaves the buffer where it is. *)
Abort(t) ==
  /\ trx[t].stage = "running"
  /\ trx' = [trx EXCEPT ![t] = [NewTrx EXCEPT !.stage = "gone"]]
  /\ writer' = [e \in Elem |-> IF e \in Mine(t) THEN Free ELSE writer[e]]
  /\ unbuffered' = [unbuffered EXCEPT ![t] = {}]
  /\ UNCHANGED <<val, clock, buffer, region, idx, off, updates>>

(* MovePropBufferToRegion: each element to the end of those of its value.  *)
Of(q, e) == {q[i] : i \in {j \in DOMAIN q : q[j].id = e}}

(* How a move can put the index in the wrong about e: a transaction that   *)
(* committed earlier has not moved yet; an addition and a drop are in the  *)
(* region at once; the property was set to the value it had.               *)
Wrongs(t, e, why) ==
  \/ why = "overtaken" /\ Of(buffer[t], e) # {}
       /\ \E u \in Trx : trx[u].stage = "committed" /\ trx[u].ct < trx[t].ct /\ Of(buffer[u], e) # {}
  \/ why = "mixed" /\ \E S \in {(UNION {Of(region[k], e) : k \in Key}) \cup Of(buffer[t], e)} :
       (\E u \in S : u.type = "ADD") /\ \E u \in S : u.type = "DROP"
  \/ why = "same" /\ \E i \in 1 .. Len(buffer[t]) - 1 :
       /\ buffer[t][i] = Elm(e, buffer[t][i].value, "MODIFY", TRUE)
       /\ buffer[t][i + 1] = Elm(e, buffer[t][i].value, "MODIFY", FALSE)

(* Wrong variant: elements that take a value away are not moved. *)
MovePropBufferToRegionAdds(t) ==
  /\ trx[t].stage = "committed"
  /\ region' = [k \in Key |-> region[k] \o SelectSeq([i \in DOMAIN buffer[t] |->
                   [id |-> buffer[t][i].id, value |-> buffer[t][i].value, type |-> buffer[t][i].type,
                    add |-> buffer[t][i].add, ct |-> trx[t].ct]], LAMBDA u : u.value = k /\ u.add)]
  /\ buffer' = [buffer EXCEPT ![t] = <<>>]
  /\ trx' = [trx EXCEPT ![t] = [NewTrx EXCEPT !.stage = "gone"]]
  /\ UNCHANGED <<val, writer, clock, idx, unbuffered, off, updates>>

MovePropBufferToRegion(t) ==
  /\ trx[t].stage = "committed"
  /\ region' = [k \in Key |-> region[k] \o SelectSeq([i \in DOMAIN buffer[t] |->
                   [id |-> buffer[t][i].id, value |-> buffer[t][i].value, type |-> buffer[t][i].type,
                    add |-> buffer[t][i].add, ct |-> trx[t].ct]], LAMBDA u : u.value = k)]
  /\ buffer' = [buffer EXCEPT ![t] = <<>>]
  /\ trx' = [trx EXCEPT ![t] = [NewTrx EXCEPT !.stage = "gone"]]
  /\ off' = off \cup {w \in Elem \X {"overtaken", "mixed", "same"} : Wrongs(t, w[1], w[2])}
  /\ UNCHANGED <<val, writer, clock, idx, unbuffered, updates>>

-----------------------------------------------------------------------------
(* modify_index: `exists' is never set, so that a count never goes down.   *)
modify_index(x, u, add) ==
  IF add THEN [x EXCEPT !.map[u.value] = @ \cup {u.id}, !.count[u.value] = @ + 1]
  ELSE [x EXCEPT !.map[u.value] = @ \ {u.id}]

Merged(x, u) ==
  IF u.type = "ADD" THEN modify_index([x EXCEPT !.no_key = @ \ {u.id}], u, TRUE)
  ELSE IF u.type = "DROP" THEN modify_index([x EXCEPT !.no_key = @ \cup {u.id}], u, FALSE)
  ELSE modify_index(x, u, u.add)

(* PropSelfGarbageCollect: value by value, and in the order of the region  *)
(* under each.                                                             *)
Running == {t \in Trx : trx[t].stage \in {"running", "committed"}}

(* GetGlobalMinBT: the largest of the published minima, so that of one     *)
(* worker (RunningTrxList::UpdateGlobalMinBT).                             *)
MinBT(w) == Min({trx[t].bt : t \in {u \in Running : Home[u] = w}} \cup {clock + 1})
Old(u, m) == u.ct < m
ByValue == FoldLeft(LAMBDA q, k : q \o region[k], <<>>, Ascending(Key, Below))

PropSelfGarbageCollect(m) ==
  /\ idx.built /\ \E k \in Key : \E i \in DOMAIN region[k] : Old(region[k][i], m)
  /\ idx' = FoldLeft(Merged, idx, SelectSeq(ByValue, LAMBDA u : Old(u, m)))
  /\ region' = [k \in Key |-> SelectSeq(region[k], LAMBDA u : ~Old(u, m))]
  /\ UNCHANGED <<val, writer, trx, clock, buffer, unbuffered, off, updates>>

Next ==
  \/ \E t \in Trx :
       \/ Begin(t) \/ Commit(t) \/ Abort(t) \/ MovePropBufferToRegion(t)
       \/ \E e \in Elem : DropProperty(t, e) \/ \E v \in Value : Modify(t, e, v)
  \/ \E w \in Worker : PropSelfGarbageCollect(MinBT(w))
  \/ BuildIndex

Spec == Init /\ [][Next]_vars

-----------------------------------------------------------------------------
(* build_range: the part of the keys, in ascending order, between two      *)
(* iterators.  Wrong variant: the bound itself stays in for LT and INSIDE. *)
LowerBound(ks, v) == Cardinality({i \in DOMAIN ks : Below(ks[i], v)}) + 1
UpperBound(ks, v) == Cardinality({i \in DOMAIN ks : ~Below(v, ks[i])}) + 1

LowAt(ks, p) ==
  LET low == LowerBound(ks, p.args[1])
  IN IF p.op \notin {"GT", "GTE", "INSIDE", "BETWEEN"} THEN 1
     ELSE IF p.op \in {"GT", "INSIDE"} /\ low <= Len(ks) /\ ks[low] = p.args[1] THEN low + 1 ELSE low

HighAt(ks, p) ==
  LET arg == p.args[IF p.op \in {"LT", "LTE"} THEN 1 ELSE 2]
      high == UpperBound(ks, arg)
  IN IF p.op \notin {"LT", "LTE", "INSIDE", "BETWEEN"} THEN Len(ks) + 1
     ELSE IF p.op \in {"LT", "INSIDE"} /\ high # LowAt(ks, p) /\ ks[high - 1] = arg THEN high - 1 ELSE high

build_range(ks, p) == SubSeq(ks, LowAt(ks, p), HighAt(ks, p) - 1)

build_range_elements(ks, p) ==
  IF p.op = "OUTSIDE"
  THEN build_range(ks, [p EXCEPT !.op = "LT"])
         \o build_range(ks, [op |-> "GT", args |-> <<p.args[2], p.args[1]>>])
  ELSE build_range(ks, p)

(* get_elements_by_predicate.  The values that the predicate takes: EQ and *)
(* WITHIN in the order in which they are given, the others in that of the  *)
(* maps.                                                                   *)
RangeOps == {"LT", "LTE", "GT", "GTE", "INSIDE", "OUTSIDE", "BETWEEN"}
ValuesOf(p) ==
  LET ks == Ascending(Key, Below) IN
  IF p.op \in {"EQ", "WITHIN"} THEN p.args
  ELSE IF p.op \in RangeOps THEN build_range_elements(ks, p)
  ELSE SelectSeq(ks, LAMBDA k : Evaluate(p, k))

(* All of the map first, then the updates value by value.  A range does    *)
(* not look at the updates.  The result is a vector; an element is in it   *)
(* more than once only if it is under the empty value.                     *)
read_prop_update_data(S, u) == IF u.add THEN S \cup {u.id} ELSE S \ {u.id}
UpdatesRead(p) ==
  IF p.op \in RangeOps THEN <<>> ELSE FoldLeft(LAMBDA q, k : q \o region[k], <<>>, ValuesOf(p))
get_elements_by_predicate(p) ==
  FoldLeft(read_prop_update_data, UNION {idx.map[k] : k \in ToSet(ValuesOf(p))}, UpdatesRead(p))

(* The case NONE of it. *)
ReadNone ==
  FoldLeft(LAMBDA S, u : IF u.type = "DROP" THEN S \cup {u.id} ELSE IF u.type = "ADD" THEN S \ {u.id} ELSE S,
           idx.no_key, ByValue)

-----------------------------------------------------------------------------
(* has(key, v) on the index: once every committed transaction has moved    *)
(* its buffer, an EQ read finds exactly the elements with the value,       *)
(* merged or not.  Excepted are elements whose change met a disabled or    *)
(* unbuilt index, those whose changes overtook each other between          *)
(* DataStorage::Commit and MovePropBufferToRegion, and those set to the    *)
(* value they had.                                                         *)
Off(e, why) == \E w \in why : <<e, w>> \in off
Quiet == idx.built /\ \A t \in Trx : trx[t].stage # "committed"
Eq(v) == [op |-> "EQ", args |-> <<v>>]
EqReadsExact ==
  Quiet => \A v \in Value, e \in Elem :
    ~Off(e, {"unbuffered", "overtaken", "same"}) => (e \in get_elements_by_predicate(Eq(v)) <=> val[e] = v)

(* The same without the last exception: index_map is the "Map for (value,  *)
(* set<element>)".  A property set to the value it had breaks it.          *)
EqReadsRewritten ==
  Quiet => \A v \in Value, e \in Elem :
    ~Off(e, {"unbuffered", "overtaken"}) => (e \in get_elements_by_predicate(Eq(v)) <=> val[e] = v)

(* The predicates that take several values find no element that does not   *)
(* satisfy them, and miss one only in two ways: the updates are read value *)
(* by value, so that a removal from one value of the predicate comes after *)
(* the move to another, or a range did not look at the update.  Excepted   *)
(* are, besides those of EqReadsExact, elements under the empty value: an  *)
(* addition enters it and nothing takes it away.                           *)
Crossed(q, e) ==
  \E j \in DOMAIN q : \E i \in 1 .. j - 1 :
    q[i].id = e /\ q[j].id = e /\ q[i].add /\ ~q[j].add /\ q[i].value # q[j].value
UnderEmpty(e) == e \in idx.map[Empty] \/ Of(region[Empty], e) # {}
InRegion(e) == \E k \in Key : Of(region[k], e) # {}

SeveralPreds == [op : {"ANY", "NEQ", "LTE", "GTE", "WITHIN"}, args : {a \in Value \X Value : a[1] # a[2]}]
SeveralReadsExact ==
  Quiet => \A p \in SeveralPreds : \E found \in {get_elements_by_predicate(p)}, q \in {UpdatesRead(p)} :
    \A e \in Elem : ~Off(e, {"unbuffered", "overtaken", "same"}) /\ ~UnderEmpty(e) =>
      \E holds \in {val[e] # Empty /\ Evaluate(p, val[e])} :
        IF p.op \in RangeOps THEN InRegion(e) \/ (e \in found <=> holds)
        ELSE (e \in found => holds) /\ (holds => e \in found \/ Crossed(q, e))

(* hasNot(key) on the index: an element is found if and only if it has no  *)
(* value.  Excepted are, besides, elements for which the region held an    *)
(* addition and a drop at once: value order is not commit order.           *)
NoneReadsExact ==
  Quiet => \A e \in Elem :
    ~Off(e, {"unbuffered", "overtaken", "mixed"}) => (e \in ReadNone <=> val[e] = Empty)

(* The estimate behind IsIndexEnabled, count_map, is never below the       *)
(* number of elements it counts, so that an index is not taken for a       *)
(* predicate that holds of too many elements.                              *)
CountNotBelow == idx.built => \A v \in Value : idx.count[v] >= Cardinality(idx.map[v])

(* A range predicate takes the keys ks of the index that Evaluate accepts, *)
(* each once; its bounds are in order.                                     *)
RangeAgrees(ks, p) ==
  \E q \in {build_range_elements(Ascending(ks, Below), p)} :
    ToSet(q) = {k \in ks : Evaluate(p, k)} /\ Len(q) = Cardinality(ks \cap ToSet(q))

=============================================================================
