------------------------------ MODULE Barriers -------------------------------
(***************************************************************************)
(* The barrier experts (src/expert/barrier_expert) as folds: each barrier  *)
(* takes the pairs of the messages of a collection one at a time (Collect) *)
(* and turns what it has gathered into data when the last message has come *)
(* (Emit).  Inside a labelled branch (and(), or(), not(), where(query)) a  *)
(* barrier works on each of the branch's input values on its own: its      *)
(* gathered state is a function of the branch value, -1 elsewhere.         *)
(*                                                                         *)
(* IsReady is the arrival count.  A message that was split k ways extends  *)
(* its path by k, so its path <<n1, ..., nj>> says that it stands for      *)
(* 1/(n1*...*nj) of the collection.                                        *)
(***************************************************************************)
EXTENDS Experts

(* The expert's barrier kinds, by expert type. *)
BarrierType == {"AGGREGATE", "COUNT", "CAP", "GROUP", "DEDUP", "MATH",
                "ORDER", "RANGE", "COIN", "END", "POSTVALIDATION"}

(* get_branch_value: what the branch expert wrote under its key. *)
BranchValue(h, key) == IF HisPos(h, key) = 0 THEN -1 ELSE h[HisPos(h, key)][2][2]

(* get_branch_value with erase_his: history behind the branch key goes.    *)
TrimHistory(h, key) == IF HisPos(h, key) = 0 THEN h ELSE SubSeq(h, 1, HisPos(h, key))

At(f, x, init) == IF x \in DOMAIN f THEN f[x] ELSE init

(* Add values to the pair with history h.  A leading pair without values   *)
(* only stood for "nothing so far" and is dropped.                         *)
AddPair(vec, h, vals) ==
  LET v == IF vec # <<>> /\ vec[1][2] = <<>> THEN <<>> ELSE vec
      at == SelectInSeq(v, LAMBDA x : x[1] = h)
  IN IF at = 0 THEN Append(v, <<h, vals>>) ELSE [v EXCEPT ![at][2] = @ \o vals]

(* Map iteration: the entries by ascending branch value. *)
InOrder(acc, F(_)) ==
  LET bs == Ascending(DOMAIN acc, <) IN [i \in DOMAIN bs |-> F(acc[bs[i]])]

SortedInsert(s, x) ==
  LET before == SelectSeq(s, LAMBDA y : ~Below(x, y))
  IN before \o <<x>> \o SubSeq(s, Len(before) + 1, Len(s))

-----------------------------------------------------------------------------
(* COUNT: the values are already counts, one per pair. *)
CountCollect(acc, key, pr) ==
  LET b == BranchValue(pr[1], key)
      old == At(acc, b, <<TrimHistory(pr[1], key), 0>>)
      n == IF pr[2] = <<>> THEN 0 ELSE pr[2][1][2]
  IN (b :> <<old[1], old[2] + n>>) @@ acc

CountEmit(acc) == InOrder(acc, LAMBDA c : <<c[1], <<<<1, c[2]>>>>>>)

(* DEDUP: by the history keys e.p, or by value when there are none. *)
DedupCollect(e, acc, key, pr) ==
  LET b == BranchValue(pr[1], key)
      old == At(acc, b, <<<<>>, {}>>)
      his == SelectSeq(pr[1], LAMBDA x : x[1] \in e.p)
      value(a, x) == IF x \in a[2] THEN a ELSE <<Append(a[1], x), a[2] \cup {x}>>
      fresh == IF e.p # {} /\ pr[2] # <<>>
                 THEN IF his \in old[2] THEN <<<<>>, old[2]>>
                      ELSE <<<<pr[2][1]>>, old[2] \cup {his}>>
                 ELSE FoldLeft(value, <<<<>>, old[2]>>, pr[2])
  IN (b :> <<AddPair(old[1], pr[1], fresh[1]), fresh[2]>>) @@ acc

DedupEmit(acc) == FlattenSeq(InOrder(acc, LAMBDA c : c[1]))

(* GROUP: by the projected key e.p.ls of the history, or by the value.     *)
GroupCollect(e, acc, key, pr) ==
  LET b == BranchValue(pr[1], key)
      old == At(acc, b, <<TrimHistory(pr[1], key), <<>>>>)
      k(x) == IF e.p.ls = -1 THEN x
              ELSE IF HisPos(pr[1], e.p.ls) = 0 THEN Str(0) ELSE pr[1][HisPos(pr[1], e.p.ls)][2]
      put(m, x) == (k(x) :> Append(At(m, k(x), <<>>), x)) @@ m
  IN (b :> <<old[1], FoldLeft(put, old[2], pr[2])>>) @@ acc

GroupEmit(e, acc) ==
  LET entry(m, k) == IF e.p.count THEN <<8, k, Len(m[k])>> ELSE <<9, k, m[k]>>
      entries(m) == LET ks == AsSeq(DOMAIN m) IN [i \in DOMAIN ks |-> entry(m, ks[i])]
  IN InOrder(acc, LAMBDA c : <<c[1], entries(c[2])>>)

(* ORDER: by the projected key e.p.ls, or by the value; values under one   *)
(* key are themselves ordered.  One pair keeps one history for all values. *)
OrderCollect(e, acc, key, pr) ==
  LET b == BranchValue(pr[1], key)
      old == At(acc, b, <<TrimHistory(pr[1], key), <<>>>>)
      at == HisPos(pr[1], e.p.ls)
      k == IF e.p.ls = -1 \/ at = 0 THEN <<1, 0>> ELSE pr[1][at][2]
  IN (b :> <<old[1], (k :> FoldLeft(SortedInsert, At(old[2], k, <<>>), pr[2])) @@ old[2]>>) @@ acc

OrderEmit(e, acc) ==
  LET up(m) == LET ks == AsSeq(DOMAIN m) IN FlattenSeq([i \in DOMAIN ks |-> m[ks[i]]])
  IN InOrder(acc, LAMBDA c : <<c[1], IF e.p.incr THEN up(c[2]) ELSE Reverse(up(c[2]))>>)

(* RANGE: the values number e.p[1] to e.p[2], from 0; end -1 is no end.    *)
RangeCollect(e, acc, key, pr) ==
  LET b == BranchValue(pr[1], key)
      old == At(acc, b, <<0, <<>>>>)
      past(n) == e.p[2] # -1 /\ n > e.p[2]
      value(a, x) == IF past(a[1]) THEN a
                     ELSE <<a[1] + 1, IF a[1] >= e.p[1] THEN Append(a[2], x) ELSE a[2]>>
      new == FoldLeft(value, <<old[1], <<>>>>, pr[2])
  IN IF old[2] # <<>> /\ past(old[1]) THEN acc
     ELSE (b :> <<new[1], AddPair(old[2], pr[1], new[2])>>) @@ acc

RangeEmit(acc) == FlattenSeq(InOrder(acc, LAMBDA c : c[2]))

(* COIN: a random choice; keep is the set of values that pass. *)
CoinCollect(keep, acc, key, pr) ==
  LET b == BranchValue(pr[1], key)
  IN (b :> AddPair(At(acc, b, <<>>), pr[1], SelectSeq(pr[2], LAMBDA x : x \in keep))) @@ acc

CoinEmit(acc) == FlattenSeq(InOrder(acc, LAMBDA c : c))

(* MATH: sum, max, min of what has come, and how many values came. *)
MathOp(e, a, x) ==
  CASE a.n = 0 -> [n |-> 1, v |-> x[2]]
    [] e.p \in {"SUM", "MEAN"} -> [n |-> a.n + 1, v |-> a.v + x[2]]
    [] e.p = "MAX" -> [n |-> a.n + 1, v |-> IF a.v < x[2] THEN x[2] ELSE a.v]
    [] e.p = "MIN" -> [n |-> a.n + 1, v |-> IF a.v > x[2] THEN x[2] ELSE a.v]

MathCollect(e, acc, key, pr) ==
  LET b == BranchValue(pr[1], key)
      old == At(acc, b, <<TrimHistory(pr[1], key), [n |-> 0, v |-> 0]>>)
  IN (b :> <<old[1], FoldLeft(LAMBDA a, x : MathOp(e, a, x), old[2], pr[2])>>) @@ acc

(* Every result is a double; a mean is divided by the count. *)
ToDouble(e, a) == <<2, a.v, IF e.p = "MEAN" THEN a.n ELSE 1>>

MathEmit(e, acc) ==
  InOrder(acc, LAMBDA c : <<c[1], IF c[2].n = 0 THEN <<>> ELSE <<ToDouble(e, c[2])>>>>)

(* AGGREGATE: the pairs by history, in arrival order. *)
AggregateCollect(acc, pr) ==
  LET at == SelectInSeq(acc, LAMBDA x : x[1] = pr[1])
  IN IF at = 0 THEN Append(acc, pr) ELSE [acc EXCEPT ![at][2] = @ \o pr[2]]

-----------------------------------------------------------------------------
(* BarrierExpertBase::IsReady, one message with this path has arrived: the *)
(* counters, the path that remains, and whether end was reached.           *)
RECURSIVE IsReady(_, _, _)
IsReady(cnt, path, end) ==
  IF path = end THEN [cnt |-> cnt, ready |-> TRUE]
  ELSE LET n == At(cnt, path, 0) + 1 IN
       IF n = Last(path)
         THEN IsReady((path :> 0) @@ cnt, Front(path), end)
         ELSE [cnt |-> (path :> n) @@ cnt, ready |-> FALSE]

=============================================================================
