----------------------- MODULE TrxProtocolSerializable ----------------------
(***************************************************************************)
(* With one worker the committed transactions are serializable in the      *)
(* order of their commit times, for any transactions and keys.             *)
(***************************************************************************)
EXTENDS TrxProtocolProofs

OneWorker == \E w \in Worker : Worker = {w}

(* A transaction that has a commit time of its own, and one of them that   *)
(* may still commit or has done so.                                        *)
Stamped(u) == ~ ReadOnly(u) /\ plan[u] \in {"validate", "end"} /\ ~ Failed(u)
Live(u) == Stamped(u) /\ outcome[u] # "abort" /\ tst[u].st # "A"

(* A transaction none of whose operations has failed. *)
Good(t) == ~ Failed(t) /\ outcome[t] # "abort"

(* The only worker has no other one to wait for, ...                       *)
NoWait == \A t \in Trx : plan[t] = "commit" => tst[t].st = "P"

(* ... and takes the timestamps from its queue in the order of the clock.  *)
Rising(s) == \A i, j \in 1 .. Len(s) : i < j => s[i].ts < s[j].ts

Ordered ==
  \A w \in Worker :
    /\ Rising(pending_ts[w])
    /\ \A a \in Queue(w) : \A t \in Trx : bt[t] < a.ts /\ tst[t].ct < a.ts

(* A commit time is no begin time, and later than that of its transaction. *)
Apart ==
  \A u \in Trx : Stamped(u) => bt[u] < tst[u].ct /\ \A t \in Trx : bt[t] # tst[u].ct

(* The RCT and what a transaction has got from it are complete. *)
Complete ==
  \A u \in Trx : Stamped(u) =>
    /\ \A w \in Worker : <<tst[u].ct, u>> \in rct[w]
    /\ \A t \in Trx \ {u} : Stamped(t) /\ bt[t] <= tst[u].ct /\ tst[u].ct < tst[t].ct => u \in rct_list[t]

(* The committed versions are those of committed transactions, in order,   *)
(* and the walk of a reader ends at one of them, whatever its begin time.  *)
Sound(k, v) ==
  \/ v.by = NoTrx /\ v.ct = 0
  \/ v.by \in Trx /\ outcome[v.by] = "commit" /\ k \in Writes[v.by] /\ v.ct = tst[v.by].ct

Ends(s, b, i) == s[i].ct <= b /\ (i = Len(s) \/ b < s[i + 1].ct)

Versioned ==
  \A k \in Key :
    /\ \A b \in Nat : \E i \in 1 .. Len(versions[k]) : Ends(versions[k], b, i)
    /\ \A i, j \in 1 .. Len(versions[k]) : i < j => versions[k][i].ct < versions[k][j].ct
    /\ \A i \in 1 .. Len(versions[k]) : Sound(k, versions[k][i])

(* What a transaction has written stands at the tail until it terminates,  *)
(* then among the committed versions, behind all that were there.          *)
InList(u, k) == \E i \in 1 .. Len(versions[k]) : versions[k][i] = [by |-> u, ct |-> tst[u].ct]

Standing ==
  /\ \A u \in Trx, k \in Key : <<"write", k>> \in done[u] /\ Good(u)
       => tail[k] = u \/ (outcome[u] = "commit" /\ InList(u, k))
  /\ \A k \in Key : tail[k] # NoTrx /\ Stamped(tail[k]) => LastCt(k) < tst[tail[k]].ct

(* The version that was read is the last one before the begin time, of all *)
(* transactions that may still commit; its writer has committed, or is one *)
(* that the validation still has to wait for.                              *)
Awaited(f, t) == \A w \in Worker : f \in homo[w][t] /\ vote[w][t] # "commit"

ReadRight(t, k, f) ==
  /\ f # NoTrx => /\ f \in Trx /\ k \in Writes[f] /\ Stamped(f) /\ tst[f].ct < bt[t]
                  /\ outcome[f] = "commit" \/ Awaited(f, t)
  /\ \A u \in Trx \ {t} : Live(u) /\ k \in Writes[u] /\ tst[u].ct < bt[t]
       => f # NoTrx /\ tst[u].ct <= tst[f].ct

Reading ==
  /\ from \in [Trx -> [Key -> Trx \cup {NoTrx}]]
  /\ \A t \in Trx, k \in Key :
       <<"read", k>> \in done[t] /\ Good(t) /\ from[t][k] # t => ReadRight(t, k, from[t][k])

(* A validation that has passed its step has found its conflicts aborted,  *)
(* or waits for them.                                                      *)
Passed ==
  \A w \in Worker, t \in Trx : ~ ReadOnly(t) /\ vote[w][t] \in {"opt", "homo", "commit"} =>
    \A r \in Conflicts(w, t) : tst[r].st = "A" \/ (vote[w][t] = "opt" /\ r \in opt[w][t])

SInv == NoWait /\ Ordered /\ Apart /\ Complete /\ Versioned /\ Standing /\ Reading /\ Passed

-----------------------------------------------------------------------------
(* A committed transaction has a commit time, and was not aborted. *)
LEMMA CommittedLive ==
  ASSUME IInv, NEW u \in Trx, outcome[u] = "commit", NEW k, k \in Writes[u]
  PROVE  Live(u) /\ Stamped(u)
<1>1. Phases /\ Statuses
  BY Zenon DEF IInv
<1>2. plan[u] \in {"validate", "end"} /\ tst[u].st \in {"V", "C"}
  BY <1>1, Zenon DEF Phases, Statuses
<1> QED
  BY <1>2, Zenon DEF Live, Stamped, Failed, ReadOnly

LEMMA StampedDone ==
  ASSUME IInv, NEW u \in Trx, Stamped(u)
  PROVE  done[u] = Ops(u)
<1>1. Phases
  BY Zenon DEF IInv
<1> QED
  BY <1>1, Zenon DEF Phases, Stamped, Failed

LEMMA TimeTypes ==
  ASSUME IInv, NEW u \in Trx
  PROVE  bt[u] \in Nat /\ tst[u].ct \in Nat
BY Zenon DEF IInv, Types, TrxTypes

(* The invariant implies serializability: what was committed since the     *)
(* begin time of a transaction is a conflict of its validation.            *)
LEMMA SerialOrder ==
  ASSUME OneWorker, IInv, SInv
  PROVE  SerializableInCommitOrder
<1> SUFFICES ASSUME NEW t \in CommittedTrx, NEW k \in Reads[t]
             PROVE  ReadsCurrent(t, k, Point(t))
  BY Zenon DEF SerializableInCommitOrder
<1> DEFINE f == from[t][k]
           older == {u \in CommittedTrx \ {t} : k \in Writes[u] /\ Point(u) < Point(t)}
<1>1. t \in Trx /\ outcome[t] = "commit" /\ k \in Key
  BY PlacementAssumption, Zenon DEF CommittedTrx
<1>2. PICK w \in Worker : Worker = {w} /\ Place[k] = w /\ vote[w][t] = "commit"
  BY <1>1, PlacementAssumption, Zenon DEF OneWorker, IInv, Voting
<1>3. <<"read", k>> \in done[t] /\ Good(t) /\ plan[t] \in {"validate", "end"}
  <2>1. plan[t] \in {"validate", "end"} /\ done[t] = Ops(t)
    BY <1>1, Zenon DEF IInv, Phases
  <2>2. <<"read", k>> \in Ops(t)
    BY DEF Ops
  <2> QED
    BY <1>1, <2>1, <2>2, Zenon DEF Good, Failed
<1>4. CASE f = t
  BY <1>4, Zenon DEF ReadsCurrent
<1>5. CASE f # t
  <2>1. ReadRight(t, k, f) /\ f \in Trx \cup {NoTrx}
    BY <1>1, <1>3, <1>5, Zenon DEF SInv, Reading
  <2>2. /\ bt[t] \in Nat /\ tst[t].ct \in Nat /\ Point(t) \in Nat
        /\ ReadOnly(t) => Point(t) = bt[t]
        /\ ~ ReadOnly(t) => Stamped(t) /\ Point(t) = tst[t].ct /\ bt[t] < tst[t].ct
    BY <1>1, <1>3, TimeTypes, Zenon DEF Point, Stamped, Good, SInv, Apart
  <2>3. \A u \in older : /\ u \in Trx /\ u # t /\ outcome[u] = "commit" /\ k \in Writes[u]
                         /\ Live(u) /\ Stamped(u) /\ Point(u) = tst[u].ct /\ tst[u].ct \in Nat
                         /\ tst[u].ct < Point(t)
    BY CommittedLive, TimeTypes, Zenon DEF CommittedTrx, Point, Stamped
  <2>4. \A u \in older : tst[u].ct < bt[t]
    <3> SUFFICES ASSUME NEW u \in older, ~ (tst[u].ct < bt[t]) PROVE FALSE
      BY Zenon
    <3>1. ~ ReadOnly(t) /\ bt[t] <= tst[u].ct /\ tst[u].ct < tst[t].ct
      BY <2>2, <2>3
    <3>2. u \in rct_list[t]
      BY <1>1, <2>2, <2>3, <3>1, Zenon DEF SInv, Complete
    <3>3. u \in Conflicts(w, t)
      BY <1>1, <1>2, <2>3, <3>2, Zenon DEF Conflicts, Here
    <3>4. tst[u].st = "A"
      BY <1>1, <1>2, <3>1, <3>3, Zenon DEF SInv, Passed
    <3> QED
      BY <2>3, <3>4, Zenon DEF Live
  <2>5. \A u \in older : f # NoTrx /\ tst[u].ct <= tst[f].ct
    BY <2>1, <2>3, <2>4, Zenon DEF ReadRight
  <2>6. CASE f = NoTrx
    BY <2>5, <2>6, Zenon DEF ReadsCurrent
  <2>7. CASE f # NoTrx
    <3>1. f \in Trx /\ k \in Writes[f] /\ Stamped(f) /\ tst[f].ct < bt[t] /\ outcome[f] = "commit"
      BY <1>2, <2>1, <2>7, Zenon DEF ReadRight, Awaited
    <3>2. Point(f) = tst[f].ct /\ tst[f].ct \in Nat
      BY <3>1, TimeTypes, Zenon DEF Point, Stamped
    <3>3. Point(f) < Point(t)
      BY <2>2, <3>1, <3>2
    <3>4. f \in older
      BY <1>5, <3>1, <3>3, Zenon DEF CommittedTrx
    <3>5. \A u \in older : Point(u) <= Point(f)
      BY <2>3, <2>5, <3>2, Zenon
    <3> QED
      BY <3>4, <3>5, Zenon DEF ReadsCurrent
  <2> QED
    BY <2>6, <2>7, Zenon
<1> QED
  BY <1>4, <1>5, Zenon

LEMMA InitSInv == Init => SInv
<1> SUFFICES ASSUME Init PROVE SInv
  BY Zenon
<1> USE DEF Init
<1>1. \A u \in Trx : ~ Stamped(u) /\ done[u] = {}
  BY Zenon DEF Stamped
<1>2. NoWait /\ Apart /\ Complete
  BY <1>1, Zenon DEF NoWait, Apart, Complete
<1>3. Ordered
  BY DEF Ordered, Rising, Queue, Elems
<1>4. Versioned
  BY DEF Versioned, Sound, Ends
<1>5. Standing /\ Reading
  BY <1>1 DEF Standing, Reading
<1>6. Passed
  BY Zenon DEF Passed
<1> QED
  BY <1>2, <1>3, <1>4, <1>5, <1>6, Zenon DEF SInv

-----------------------------------------------------------------------------
(* A step that hands out no time: no transaction gets a commit time or may *)
(* commit again, and what has committed or aborted stays so.               *)
Calm ==
  /\ UNCHANGED bt
  /\ \A u \in Trx : Stamped(u)' <=> Stamped(u)
  /\ \A u \in Trx : Stamped(u) => tst'[u].ct = tst[u].ct
  /\ \A u \in Trx : Live(u)' => Live(u)
  /\ \A u \in Trx : Good(u)' => Good(u)
  /\ \A u \in Trx : outcome[u] = "commit" => outcome'[u] = "commit"
  /\ \A u \in Trx : tst[u].st = "A" => tst'[u].st = "A"

LEMMA CalmSame ==
  ASSUME UNCHANGED <<plan, bt, tst, outcome>>
  PROVE  Calm
BY Zenon DEF Calm, Stamped, Live, Good, Failed

LEMMA TimesFrame ==
  ASSUME IInv, SInv, Calm, UNCHANGED <<pending_ts, rct, rct_list>>,
         \A t \in Trx : tst'[t].ct \in {tst[t].ct, bt[t]}
  PROVE  Ordered' /\ Apart' /\ Complete'
<1>1. Ordered /\ Apart /\ Complete
  BY Zenon DEF SInv
<1>2. Ordered'
  BY <1>1, Zenon DEF Ordered, Queue, Calm
<1>3. Apart'
  BY <1>1, Zenon DEF Apart, Calm
<1>4. Complete'
  BY <1>1, Zenon DEF Complete, Calm
<1> QED
  BY <1>2, <1>3, <1>4, Zenon

LEMMA VersionedFrame ==
  ASSUME IInv, SInv, UNCHANGED versions,
         \A u \in Trx : outcome[u] = "commit" => outcome'[u] = "commit",
         \A u \in Trx : Stamped(u) => tst'[u].ct = tst[u].ct
  PROVE  Versioned'
<1>1. Versioned
  BY Zenon DEF SInv
<1>2. \A u \in Trx, k \in Key : outcome[u] = "commit" /\ k \in Writes[u] => tst'[u].ct = tst[u].ct
  BY CommittedLive, Zenon
<1>3. \A k \in Key : \A i : Sound(k, versions[k][i]) => Sound(k, versions[k][i])'
  BY <1>2, Zenon DEF Sound
<1> QED
  BY <1>1, <1>3, Zenon DEF Versioned

LEMMA StandingFrame ==
  ASSUME IInv, SInv, UNCHANGED <<versions, tail>>,
         \A u \in Trx : Good(u)' => Good(u) /\ \A k \in Key : <<"write", k>> \in done'[u] => <<"write", k>> \in done[u],
         \A u \in Trx : outcome[u] = "commit" => outcome'[u] = "commit",
         \A u \in Trx : Stamped(u) => tst'[u].ct = tst[u].ct,
         \A u \in Trx : Stamped(u)' => Stamped(u) \/ \A k \in Key : tail[k] = u => LastCt(k) < tst'[u].ct
  PROVE  Standing'
<1>1. Standing /\ Phases /\ DataTypes
  BY Zenon DEF SInv, IInv, Types
<1>2. ASSUME NEW u \in Trx, NEW k \in Key, <<"write", k>> \in done'[u], Good(u)'
      PROVE  tail[k] = u \/ (outcome'[u] = "commit" /\ InList(u, k)')
  <2>1. <<"write", k>> \in done[u] /\ Good(u)
    BY <1>2, Zenon
  <2>2. tail[k] = u \/ (outcome[u] = "commit" /\ InList(u, k))
    BY <1>1, <2>1, Zenon DEF Standing
  <2>3. k \in Writes[u]
    BY <1>1, <2>1 DEF Phases, Ops
  <2>4. outcome[u] = "commit" => tst'[u].ct = tst[u].ct
    BY <2>3, CommittedLive, Zenon
  <2> QED
    BY <2>2, <2>4, Zenon DEF InList
<1>3. ASSUME NEW k \in Key, tail[k] # NoTrx, Stamped(tail[k])'
      PROVE  LastCt(k)' < tst'[tail[k]].ct
  <2>1. PICK u \in Trx : u = tail[k]
    BY <1>1, <1>3, Zenon DEF DataTypes
  <2>2. Stamped(u)' /\ LastCt(k)' = LastCt(k)
    BY <1>3, <2>1, Zenon DEF Stamped, Failed, LastCt
  <2> QED
    BY <1>1, <1>3, <2>1, <2>2, Zenon DEF Standing
<1> QED
  BY <1>2, <1>3, Zenon DEF Standing

LEMMA ReadingFrame ==
  ASSUME IInv, SInv, UNCHANGED from,
         \A t \in Trx : Good(t)' => /\ Good(t)
                                   /\ \A k \in Key : <<"read", k>> \in done'[t] => <<"read", k>> \in done[t] /\ bt'[t] = bt[t],
         \A u \in Trx : Stamped(u) => Stamped(u)' /\ tst'[u].ct = tst[u].ct,
         \A u \in Trx : outcome[u] = "commit" => outcome'[u] = "commit",
         \A u \in Trx : Live(u)' => Live(u) \/ \A t \in Trx : ~ (tst'[u].ct < bt'[t]),
         \A t, f \in Trx : Good(t)' /\ Awaited(f, t) => Awaited(f, t)' \/ outcome'[f] = "commit"
  PROVE  Reading'
<1>1. Reading
  BY Zenon DEF SInv
<1> SUFFICES ASSUME NEW t \in Trx, NEW k \in Key, <<"read", k>> \in done'[t], Good(t)', from[t][k] # t
             PROVE  ReadRight(t, k, from[t][k])'
  BY <1>1, Zenon DEF Reading
<1>2. PICK f \in Trx \cup {NoTrx} : f = from[t][k]
  BY <1>1, Zenon DEF Reading
<1>3. ReadRight(t, k, f) /\ bt'[t] = bt[t]
  BY <1>1, <1>2, Zenon DEF Reading
<1>4. f # NoTrx => /\ f \in Trx /\ k \in Writes[f] /\ Stamped(f)' /\ tst'[f].ct < bt'[t] /\ tst'[f].ct = tst[f].ct
                   /\ outcome'[f] = "commit" \/ Awaited(f, t)'
  BY <1>3, Zenon DEF ReadRight
<1>5. \A u \in Trx \ {t} : Live(u)' /\ k \in Writes[u] /\ tst'[u].ct < bt'[t]
        => f # NoTrx /\ tst'[u].ct <= tst'[f].ct
  <2> SUFFICES ASSUME NEW u \in Trx \ {t}, Live(u)', k \in Writes[u], tst'[u].ct < bt'[t]
               PROVE  f # NoTrx /\ tst'[u].ct <= tst'[f].ct
    BY Zenon
  <2>1. Live(u) /\ tst'[u].ct = tst[u].ct
    BY Zenon DEF Live
  <2> QED
    BY <1>3, <1>4, <2>1, Zenon DEF ReadRight
<1> QED
  BY <1>2, <1>4, <1>5, Zenon DEF ReadRight, Stamped, Failed, Awaited

LEMMA PassedFrame ==
  ASSUME SInv, RctTypes, UNCHANGED <<vote, opt, rct_list>>, \A u \in Trx : tst[u].st = "A" => tst'[u].st = "A"
  PROVE  Passed'
<1>1. Passed
  BY Zenon DEF SInv
<1>2. \A w \in Worker, t \in Trx : Conflicts(w, t) \subseteq Trx /\ Conflicts(w, t)' = Conflicts(w, t)
  BY Zenon DEF Conflicts, RctTypes
<1> QED
  BY <1>1, <1>2, Zenon DEF Passed

-----------------------------------------------------------------------------
(* A calm step that touches neither lists nor what was read nor votes. *)
LEMMA QuietStep ==
  ASSUME IInv, SInv, Calm, NoWait',
         UNCHANGED <<pending_ts, rct, rct_list, versions, tail, from, homo, vote, opt>>,
         \A t \in Trx : tst'[t].ct \in {tst[t].ct, bt[t]},
         \A t \in Trx : Good(t)' => done'[t] = done[t]
  PROVE  SInv'
<1>1. Ordered' /\ Apart' /\ Complete'
  BY TimesFrame, Zenon
<1>2. Versioned' /\ Standing'
  BY VersionedFrame, StandingFrame, Zenon DEF Calm
<1>3. Reading'
  <2>1. \A t, f \in Trx : Awaited(f, t) => Awaited(f, t)'
    BY Zenon DEF Awaited
  <2> QED
    BY <2>1, ReadingFrame, Zenon DEF Calm
<1>4. Passed'
  BY PassedFrame, Zenon DEF Calm, IInv, Types
<1> QED
  BY <1>1, <1>2, <1>3, <1>4, Zenon DEF SInv

LEMMA ExecuteSafe ==
  ASSUME IInv, SInv, NEW t \in Trx, NEW op \in Ops(t), Execute(t, op)
  PROVE  SInv'
<1> USE DEF tsVars, rctVars, endVars
<1>1. /\ UNCHANGED <<pending_ts, plan, bt, tst, rct, rct_list, versions, tail, from, homo, vote, opt, outcome>>
      /\ UNCHANGED done
  BY Zenon DEF Execute
<1>2. Calm
  BY <1>1, CalmSame, Zenon
<1>3. NoWait'
  BY <1>1, Zenon DEF SInv, NoWait
<1> QED
  BY <1>1, <1>2, <1>3, QuietStep, Zenon

LEMMA UnchangedSafe ==
  ASSUME IInv, SInv, UNCHANGED vars
  PROVE  SInv'
<1>1. UNCHANGED <<pending_ts, plan, bt, tst, rct, rct_list, versions, tail, from, homo, vote, opt, outcome, done>>
  BY Zenon DEF vars
<1>2. Calm
  BY <1>1, CalmSame, Zenon
<1>3. NoWait'
  BY <1>1, Zenon DEF SInv, NoWait
<1> QED
  BY <1>1, <1>2, <1>3, QuietStep, Zenon

(* A failed operation. *)
LEMMA FailSafe ==
  ASSUME IInv, SInv, NEW t \in Trx, NEW op, EndsOp(t, op), AbortProcessing(t),
         UNCHANGED <<tsVars, bt, tst, rctVars>>
  PROVE  SInv'
<1> USE DEF tsVars, rctVars
<1>1. UNCHANGED <<pending_ts, bt, tst, rct, rct_list, versions, tail, from, homo, vote, opt, outcome>>
  BY Zenon DEF AbortProcessing
<1>2. /\ \A r \in Trx : r # t => done'[r] = done[r]
      /\ plan[t] = "run" \/ Failed(t)
  BY EndsOpFacts, Zenon
<1>3. /\ plan[t] = "run" => plan'[t] = "abort"
      /\ plan[t] # "run" => plan' = plan
      /\ \A r \in Trx : r # t => plan'[r] = plan[r]
  BY Zenon DEF AbortProcessing, IInv, Types, TrxTypes
<1>4. outcome[t] = "none"
  BY <1>2, Zenon DEF IInv, Phases, Failed
<1>5. Failed(t)' /\ ~ Stamped(t) /\ ~ Stamped(t)' /\ ~ Good(t)'
  BY <1>1, <1>2, <1>3, <1>4, Zenon DEF Failed, Stamped, Good
<1>6. Calm
  <2>1. \A u \in Trx : u # t => /\ Stamped(u)' <=> Stamped(u)
                                /\ Good(u)' <=> Good(u)
                                /\ Live(u)' <=> Live(u)
    BY <1>1, <1>3, Zenon DEF Stamped, Good, Live, Failed
  <2> QED
    BY <1>1, <1>5, <2>1, Zenon DEF Calm, Live
<1>7. NoWait'
  BY <1>1, <1>3, Zenon DEF SInv, NoWait
<1> QED
  BY <1>1, <1>2, <1>5, <1>6, <1>7, QuietStep, Zenon

(* A queued status update reaches the table. *)
LEMMA StatusUpdateSafe ==
  ASSUME IInv, SInv, NEW x \in updates, ProcessTrxTableWriteReqs(x)
  PROVE  SInv'
<1> USE DEF tsVars, rctVars, dataVars, endVars
<1>1. UNCHANGED <<pending_ts, plan, bt, rct, rct_list, versions, tail, from, homo, vote, opt, outcome, done>>
  BY Zenon DEF ProcessTrxTableWriteReqs
<1>2. PICK t \in Trx, s \in {"C", "A"} : x = <<t, s>> /\ x[1] = t /\ x[2] = s
  BY DEF IInv, Types, TrxTypes
<1>3. /\ tst'[t].ct = tst[t].ct /\ tst'[t].st = s
      /\ \A r \in Trx : r # t => tst'[r] = tst[r]
  BY <1>2 DEF ProcessTrxTableWriteReqs, IInv, Types, TrxTypes
<1>4. /\ s = "C" => outcome[t] = "commit" /\ tst[t].st = "V"
      /\ s = "A" => plan[t] \in {"validate", "abort", "end"}
  BY <1>2, Zenon DEF IInv, Updating
<1>5. Calm
  <2>1. \A u \in Trx : (Stamped(u)' <=> Stamped(u)) /\ (Good(u)' <=> Good(u))
    BY <1>1, Zenon DEF Stamped, Good, Failed
  <2>2. \A u \in Trx : tst'[u].ct = tst[u].ct
    BY <1>3, Zenon
  <2>3. \A u \in Trx : tst[u].st = "A" => tst'[u].st = "A"
    BY <1>3, <1>4, Zenon
  <2>4. \A u \in Trx : Live(u)' => Live(u)
    BY <1>1, <2>1, <2>3, Zenon DEF Live
  <2> QED
    BY <1>1, <2>1, <2>2, <2>3, <2>4, Zenon DEF Calm
<1>6. NoWait'
  <2>1. plan[t] # "commit"
    BY <1>4, Zenon DEF IInv, Phases
  <2> QED
    BY <1>1, <1>3, <2>1, Zenon DEF SInv, NoWait
<1> QED
  BY <1>1, <1>3, <1>5, <1>6, QuietStep, Zenon

(* The decision, and the reply. *)
LEMMA PostValidationSafe ==
  ASSUME IInv, SInv, NEW t \in Trx, PostValidation(t)
  PROVE  SInv'
<1> USE DEF tsVars, rctVars, dataVars
<1>1. /\ UNCHANGED <<pending_ts, plan, bt, tst, rct, rct_list, versions, tail, from, homo, vote, opt, done>>
      /\ plan[t] = "validate" /\ outcome[t] = "none"
  BY Zenon DEF PostValidation
<1>2. \A r \in Trx : r # t => outcome'[r] = outcome[r]
  BY Zenon DEF PostValidation, IInv, Types, EndTypes
<1>3. Calm
  <2>1. ~ Failed(t) /\ ~ Failed(t)'
    BY <1>1, Zenon DEF Failed
  <2>2. \A u \in Trx : (Failed(u)' <=> Failed(u)) /\ (Stamped(u)' <=> Stamped(u))
    BY <1>1, <1>2, <2>1, Zenon DEF Failed, Stamped
  <2>3. \A u \in Trx : (Good(u)' => Good(u)) /\ (Live(u)' => Live(u))
    BY <1>1, <1>2, <2>2, Zenon DEF Good, Live
  <2> QED
    BY <1>1, <1>2, <2>2, <2>3, Zenon DEF Calm
<1>4. NoWait'
  BY <1>1, Zenon DEF SInv, NoWait
<1> QED
  BY <1>1, <1>3, <1>4, QuietStep, Zenon

LEMMA ReplyClientSafe ==
  ASSUME OneWorker, IInv, SInv, NEW t \in Trx, ReplyClient(t)
  PROVE  SInv'
<1> USE DEF tsVars, rctVars, dataVars, endVars
<1>1. /\ UNCHANGED <<pending_ts, bt, tst, rct, rct_list, versions, tail, from, homo, vote, opt, outcome, done>>
      /\ plan[t] \in {"validate", "abort"} /\ \A w \in Worker : term[w][t] = "exit"
  BY Zenon DEF ReplyClient
<1>2. plan'[t] = "end" /\ \A r \in Trx : r # t => plan'[r] = plan[r]
  BY Zenon DEF ReplyClient, IInv, Types, TrxTypes
<1>3. plan[t] = "validate" => outcome[t] # "none"
  BY <1>1, Zenon DEF IInv, Terminating, OneWorker
<1>4. plan[t] = "abort" => outcome[t] = "none"
  BY Zenon DEF IInv, Phases
<1>5. Calm
  <2>1. Failed(t)' <=> Failed(t)
    BY <1>1, <1>2, <1>3, Zenon DEF Failed
  <2>2. Stamped(t)' <=> Stamped(t)
    BY <1>1, <1>2, <1>4, <2>1, Zenon DEF Stamped, Failed
  <2>3. \A u \in Trx : u # t => (Failed(u)' <=> Failed(u)) /\ (Stamped(u)' <=> Stamped(u))
    BY <1>1, <1>2, Zenon DEF Failed, Stamped
  <2>4. \A u \in Trx : (Good(u)' => Good(u)) /\ (Live(u)' => Live(u))
    BY <1>1, <2>1, <2>2, <2>3, Zenon DEF Good, Live
  <2> QED
    BY <1>1, <2>2, <2>3, <2>4, Zenon DEF Calm
<1>6. NoWait'
  BY <1>1, <1>2, Zenon DEF SInv, NoWait
<1> QED
  BY <1>1, <1>5, <1>6, QuietStep, Zenon

-----------------------------------------------------------------------------
(* A step of the validation of t on a worker. *)
LEMMA VoteSafe ==
  ASSUME IInv, SInv, NEW w \in Worker, NEW t \in Trx, NEW v, Vote(w, t, v), NEW s,
         UNCHANGED <<tsVars, plan, bt, tst, rctVars, dataVars, outcome>>,
         opt' = [opt EXCEPT ![w][t] = s],
         v = "commit" => \A f \in homo[w][t] : outcome[f] = "commit",
         ~ ReadOnly(t) /\ v \in {"opt", "homo", "commit"}
           => \A r \in Conflicts(w, t) : tst[r].st = "A" \/ (v = "opt" /\ r \in s)
  PROVE  SInv'
<1> USE DEF tsVars, rctVars, dataVars
<1>1. EndTypes /\ SInv /\ Passed
  BY Zenon DEF SInv, IInv, Types
<1>2. /\ vote'[w][t] = v /\ opt'[w][t] = s
      /\ \A x \in Worker, r \in Trx : ~ (x = w /\ r = t) => vote'[x][r] = vote[x][r] /\ opt'[x][r] = opt[x][r]
  BY <1>1, Zenon DEF Vote, EndTypes
<1>3. Calm
  BY CalmSame, Zenon
<1>4. NoWait'
  BY Zenon DEF SInv, NoWait
<1>5. Ordered' /\ Apart' /\ Complete'
  BY <1>3, TimesFrame, Zenon
<1>6. Versioned' /\ Standing'
  BY <1>3, VersionedFrame, StandingFrame, Zenon DEF Calm
<1>7. Reading'
  <2>1. \A r, f \in Trx : Awaited(f, r) => Awaited(f, r)' \/ outcome'[f] = "commit"
    BY <1>2, Zenon DEF Awaited
  <2> QED
    BY <1>3, <2>1, ReadingFrame, Zenon DEF Calm
<1>8. Passed'
  <2> SUFFICES ASSUME NEW x \in Worker, NEW r \in Trx, ~ ReadOnly(r), vote'[x][r] \in {"opt", "homo", "commit"},
                      NEW c \in Conflicts(x, r)
               PROVE  tst[c].st = "A" \/ (vote'[x][r] = "opt" /\ c \in opt'[x][r])
    BY Zenon DEF Passed, Conflicts
  <2>1. CASE x = w /\ r = t
    BY <1>2, <2>1, Zenon
  <2>2. CASE ~ (x = w /\ r = t)
    BY <1>1, <1>2, <2>2, ZenonT(30) DEF Passed
  <2> QED
    BY <2>1, <2>2, Zenon
<1> QED
  BY <1>4, <1>5, <1>6, <1>7, <1>8, Zenon DEF SInv

LEMMA CommittedStatus ==
  ASSUME IInv, NEW u \in Trx, tst[u].st = "C"
  PROVE  outcome[u] = "commit"
<1>1. TrxTypes /\ EndTypes /\ Statuses
  BY Zenon DEF IInv, Types
<1> QED
  BY <1>1, Zenon DEF Statuses, TrxTypes, EndTypes, Failed

LEMMA ValidationSafe ==
  ASSUME IInv, SInv, NEW w \in Worker, NEW t \in Trx,
         \/ StartValidation(w, t) \/ StepValidation(w, t)
         \/ ValidOptimisticValidation(w, t) \/ ValidOptimisticRead(w, t)
  PROVE  SInv'
<1> USE DEF tsVars, rctVars, dataVars
<1>1. opt \in [Worker -> [Trx -> SUBSET Trx]] /\ homo[w][t] \subseteq Trx /\ Passed
  <2>1. EndTypes /\ DataTypes /\ Passed
    BY Zenon DEF IInv, Types, SInv
  <2> QED
    BY <2>1 DEF EndTypes, DataTypes
<1>2. opt = [opt EXCEPT ![w][t] = opt[w][t]]
  BY <1>1, Zenon
<1>3. CASE StartValidation(w, t)
  <2>1. PICK v : Vote(w, t, v) /\ v \in {"homo", "step", "abort"} /\ (v = "homo" => ReadOnly(t))
    BY <1>3 DEF StartValidation
  <2>2. UNCHANGED <<tsVars, plan, bt, tst, rctVars, dataVars, opt, outcome>>
    BY <1>3, Zenon DEF StartValidation
  <2> QED
    BY <1>2, <2>1, <2>2, VoteSafe, Zenon
<1>4. CASE StepValidation(w, t)
  <2>1. UNCHANGED <<tsVars, plan, bt, tst, rctVars, dataVars, outcome>>
    BY <1>4, Zenon DEF StepValidation
  <2>2. CASE Vote(w, t, "abort") /\ UNCHANGED opt
    <3>1. PICK v : v = "abort" /\ Vote(w, t, v)
      BY <2>2, Zenon
    <3>2. v \notin {"opt", "homo", "commit"}
      BY <3>1
    <3> QED
      BY <1>2, <2>1, <2>2, <3>1, <3>2, VoteSafe, Zenon
  <2>3. CASE ~ (Vote(w, t, "abort") /\ UNCHANGED opt)
    <3> DEFINE s == {r \in Conflicts(w, t) : tst[r].st = "V"}
    <3>1. ~ Conflicting(w, t) /\ Vote(w, t, "opt") /\ opt' = [opt EXCEPT ![w][t] = s]
      BY <1>4, <2>3, Zenon DEF StepValidation
    <3>2. \A r \in Conflicts(w, t) : tst[r].st = "A" \/ r \in s
      BY <3>1, Zenon DEF Conflicting
    <3> HIDE DEF s
    <3>3. PICK v : v = "opt" /\ Vote(w, t, v)
      BY <3>1, Zenon
    <3>4. v # "commit"
      BY <3>3
    <3> QED
      BY <2>1, <3>1, <3>2, <3>3, <3>4, VoteSafe, Zenon
  <2> QED
    BY <2>2, <2>3, Zenon
<1>5. CASE ValidOptimisticValidation(w, t)
  <2>0. UNCHANGED <<tsVars, plan, bt, tst, rctVars, dataVars, outcome>>
    BY <1>5, Zenon DEF ValidOptimisticValidation
  <2>1. opt' = [opt EXCEPT ![w][t] = opt[w][t]] /\ vote[w][t] = "opt"
    BY <1>5, <1>2, Zenon DEF ValidOptimisticValidation
  <2>2. CASE Vote(w, t, "abort")
    <3>1. PICK v : v = "abort" /\ Vote(w, t, v)
      BY <2>2, Zenon
    <3>2. v \notin {"opt", "homo", "commit"}
      BY <3>1
    <3> QED
      BY <2>0, <2>1, <3>1, <3>2, VoteSafe, Zenon
  <2>3. CASE ~ Vote(w, t, "abort")
    <3>1. Vote(w, t, "homo") /\ \A r \in opt[w][t] : tst[r].st = "A"
      BY <1>5, <2>3 DEF ValidOptimisticValidation
    <3>2. ~ ReadOnly(t) => \A r \in Conflicts(w, t) : tst[r].st = "A"
      BY <1>1, <2>1, <3>1, Zenon DEF Passed
    <3>3. PICK v : v = "homo" /\ Vote(w, t, v)
      BY <3>1, Zenon
    <3>4. v # "commit"
      BY <3>3
    <3> QED
      BY <2>0, <2>1, <3>2, <3>3, <3>4, VoteSafe, Zenon
  <2> QED
    BY <2>2, <2>3, Zenon
<1>6. CASE ValidOptimisticRead(w, t)
  <2>0. UNCHANGED <<tsVars, plan, bt, tst, rctVars, dataVars, outcome>>
    BY <1>6, Zenon DEF ValidOptimisticRead
  <2>1. opt' = [opt EXCEPT ![w][t] = opt[w][t]] /\ vote[w][t] = "homo"
    BY <1>6, <1>2, Zenon DEF ValidOptimisticRead
  <2>2. CASE Vote(w, t, "abort")
    <3>1. PICK v : v = "abort" /\ Vote(w, t, v)
      BY <2>2, Zenon
    <3>2. v \notin {"opt", "homo", "commit"}
      BY <3>1
    <3> QED
      BY <2>0, <2>1, <3>1, <3>2, VoteSafe, Zenon
  <2>3. CASE ~ Vote(w, t, "abort")
    <3>1. Vote(w, t, "commit") /\ \A r \in homo[w][t] : tst[r].st = "C"
      BY <1>6, <2>3 DEF ValidOptimisticRead
    <3>2. \A r \in homo[w][t] : outcome[r] = "commit"
      BY <1>1, <3>1, CommittedStatus, Zenon
    <3>3. ~ ReadOnly(t) => \A r \in Conflicts(w, t) : tst[r].st = "A"
      BY <1>1, <2>1, Zenon DEF Passed
    <3>4. PICK v : v = "commit" /\ Vote(w, t, v)
      BY <3>1, Zenon
    <3> QED
      BY <2>0, <2>1, <3>2, <3>3, <3>4, VoteSafe, Zenon
  <2> QED
    BY <2>2, <2>3, Zenon
<1> QED
  BY <1>3, <1>4, <1>5, <1>6, Zenon

(* The worker forgets the dependencies of a transaction that has ended. *)
LEMMA ExitSafe ==
  ASSUME IInv, SInv, NEW w \in Worker, NEW t \in Trx, Exit(w, t)
  PROVE  SInv'
<1> USE DEF tsVars, rctVars
<1>1. UNCHANGED <<pending_ts, plan, bt, tst, rct, rct_list, done, versions, tail, from, vote, opt, outcome>>
  BY Zenon DEF Exit
<1>2. \A x \in Worker, r \in Trx : r # t => homo'[x][r] = homo[x][r]
  BY Zenon DEF Exit, IInv, Types, DataTypes
<1>3. Good(t) => vote[w][t] = "commit"
  <2>1. term[w][t] \in {"commit", "abort", "init"}
    BY Zenon DEF Exit, MayTerminate
  <2>2. Good(t) => outcome[t] # "none"
    BY <2>1, Zenon DEF Good, Failed, IInv, Terminating
  <2>3. Good(t) => outcome[t] = "commit"
    BY <2>2, Zenon DEF Good, IInv, Types, EndTypes
  <2> QED
    BY <2>3, Zenon DEF IInv, Voting
<1>4. Calm
  BY <1>1, CalmSame, Zenon
<1>5. NoWait'
  BY <1>1, Zenon DEF SInv, NoWait
<1>6. Ordered' /\ Apart' /\ Complete'
  BY <1>1, <1>4, TimesFrame, Zenon
<1>7. Versioned' /\ Standing'
  BY <1>1, <1>4, VersionedFrame, StandingFrame, Zenon DEF Calm
<1>8. Reading'
  <2>1. \A r, f \in Trx : Good(r)' /\ Awaited(f, r) => Awaited(f, r)' \/ outcome'[f] = "commit"
    BY <1>1, <1>2, <1>3, <1>4, ZenonT(30) DEF Awaited, Calm
  <2> QED
    BY <1>1, <1>4, <2>1, ReadingFrame, Zenon DEF Calm
<1>9. Passed'
  BY <1>1, PassedFrame, Zenon DEF IInv, Types
<1> QED
  BY <1>5, <1>6, <1>7, <1>8, <1>9, Zenon DEF SInv

-----------------------------------------------------------------------------
(* The queries of a transaction have returned. *)
LEMMA RegisterSafe ==
  ASSUME IInv, SInv, NEW t \in Trx, RegisterValidation(t)
  PROVE  SInv'
<1> USE DEF tsVars, rctVars, dataVars
<1>1. /\ UNCHANGED <<pending_ts, bt, rct, rct_list, versions, tail, from, homo, done>> /\ plan[t] = "run"
      /\ UNCHANGED opt /\ UNCHANGED outcome
  BY Zenon DEF RegisterValidation, SendValidation, endVars
<1>2. /\ plan'[t] \in {"validate", "request"} /\ (plan'[t] = "validate" => ReadOnly(t))
      /\ \A r \in Trx : r # t => plan'[r] = plan[r]
  BY Zenon DEF RegisterValidation, SendValidation, IInv, Types, TrxTypes
<1>3. /\ tst[t].st = "P" /\ tst'[t].st # "A" /\ tst'[t].ct \in {tst[t].ct, bt[t]}
      /\ \A r \in Trx : r # t => tst'[r] = tst[r]
  <2>1. TrxTypes /\ Statuses
    BY Zenon DEF IInv, Types
  <2>2. tst[t].st = "P" /\ "P" # "A" /\ "V" # "A"
    BY <1>1, <2>1, Zenon DEF Statuses
  <2>3. CASE ReadOnly(t)
    <3>1. tst' = [tst EXCEPT ![t] = [st |-> "V", ct |-> bt[t]]]
      BY <2>3, Zenon DEF RegisterValidation
    <3>2. tst'[t] = [st |-> "V", ct |-> bt[t]] /\ \A r \in Trx : r # t => tst'[r] = tst[r]
      BY <2>1, <3>1, Zenon DEF TrxTypes
    <3> QED
      BY <2>2, <3>2
  <2>4. CASE ~ ReadOnly(t)
    BY <2>2, <2>4, Zenon DEF RegisterValidation
  <2> QED
    BY <2>3, <2>4, Zenon
<1>4. /\ \A x \in Worker, r \in Trx : r # t => vote'[x][r] = vote[x][r]
      /\ \A x \in Worker : vote'[x][t] \in {vote[x][t], "start"}
      /\ ~ ReadOnly(t) => UNCHANGED vote
  <2>1. vote \in [Worker -> [Trx -> {"none", "start", "step", "opt", "homo", "commit", "abort"}]]
    BY Zenon DEF IInv, Types, EndTypes
  <2>2. CASE ReadOnly(t)
    <3>1. vote' = [x \in Worker |-> [vote[x] EXCEPT ![t] = "start"]]
      BY <2>2, Zenon DEF RegisterValidation, SendValidation
    <3> QED
      BY <2>1, <2>2, <3>1
  <2>3. CASE ~ ReadOnly(t)
    BY <2>3, Zenon DEF RegisterValidation, endVars
  <2> QED
    BY <2>2, <2>3, Zenon
<1>5. Calm
  <2>1. outcome[t] = "none"
    BY <1>1, Zenon DEF IInv, Phases
  <2>2. ~ Failed(t) /\ ~ Failed(t)' /\ ~ Stamped(t) /\ ~ Stamped(t)'
    BY <1>1, <1>2, <2>1, Zenon DEF Failed, Stamped
  <2>3. \A u \in Trx : (Failed(u)' <=> Failed(u)) /\ (Stamped(u)' <=> Stamped(u))
    BY <1>1, <1>2, <2>2, Zenon DEF Failed, Stamped
  <2>4. \A u \in Trx : (Good(u)' => Good(u)) /\ (Live(u)' => Live(u))
    BY <1>1, <1>3, <2>2, <2>3, Zenon DEF Good, Live
  <2> QED
    BY <1>1, <1>3, <2>2, <2>3, <2>4, Zenon DEF Calm
<1>6. NoWait'
  BY <1>1, <1>2, <1>3, Zenon DEF SInv, NoWait
<1>7. Ordered' /\ Apart' /\ Complete'
  BY <1>1, <1>3, <1>5, TimesFrame, Zenon
<1>8. Versioned' /\ Standing'
  BY <1>1, <1>5, VersionedFrame, StandingFrame, Zenon DEF Calm
<1>9. Reading'
  <2>1. \A r, f \in Trx : Awaited(f, r) => Awaited(f, r)'
    BY <1>1, <1>4, Zenon DEF Awaited
  <2> QED
    BY <1>1, <1>5, <2>1, ReadingFrame, Zenon DEF Calm
<1>10. Passed'
  <2>1. CASE ~ ReadOnly(t)
    BY <1>1, <1>4, <1>5, <2>1, PassedFrame, Zenon DEF IInv, Types, Calm
  <2>2. CASE ReadOnly(t)
    <3>1. Passed /\ RctTypes
      BY Zenon DEF SInv, IInv, Types
    <3>2. \A x \in Worker, r \in Trx : Conflicts(x, r) \subseteq Trx /\ Conflicts(x, r)' = Conflicts(x, r)
      BY <1>1, <3>1, Zenon DEF Conflicts, RctTypes
    <3>3. \A u \in Trx : tst[u].st = "A" => tst'[u].st = "A"
      BY <1>5, Zenon DEF Calm
    <3> QED
      BY <1>1, <1>4, <2>2, <3>1, <3>2, <3>3, ZenonT(30) DEF Passed
  <2> QED
    BY <2>1, <2>2, Zenon
<1> QED
  BY <1>6, <1>7, <1>8, <1>9, <1>10, Zenon DEF SInv

(* An operation that has not failed belongs to no transaction with a       *)
(* commit time.                                                            *)
LEMMA Processing ==
  ASSUME IInv, NEW t \in Trx, NEW op, EndsOp(t, op)
  PROVE  ~ Stamped(t) /\ outcome[t] = "none" /\ (Good(t) => plan[t] = "run")
<1>1. plan[t] = "run" \/ Failed(t)
  BY EndsOpFacts, Zenon
<1> QED
  BY <1>1, Zenon DEF Stamped, Failed, Good, IInv, Phases

LEMMA WriteSafe ==
  ASSUME IInv, SInv, NEW t \in Trx, NEW k \in Key, Write(t, k)
  PROVE  SInv'
<1> USE DEF tsVars, rctVars
<1>1. EndsOp(t, <<"write", k>>) /\ UNCHANGED <<tsVars, bt, tst, rctVars>> /\ DataTypes
  BY Zenon DEF Write, IInv, Types
<1>2. CASE tail[k] \notin {NoTrx, t}
  <2>1. AbortProcessing(t)
    BY <1>2, Zenon DEF Write
  <2> QED
    BY <1>1, <2>1, FailSafe, Zenon
<1>3. CASE tail[k] \in {NoTrx, t}
  <2>1. /\ UNCHANGED <<pending_ts, bt, tst, rct, rct_list, versions, from, homo, plan, vote, opt, outcome>>
        /\ tail' = [tail EXCEPT ![k] = t]
    BY <1>1, <1>3, Zenon DEF Write, endVars
  <2>2. tail'[k] = t /\ \A j \in Key : j # k => tail'[j] = tail[j]
    BY <1>1, <2>1, Zenon DEF DataTypes
  <2>3. ~ Stamped(t) /\ ~ Stamped(t)'
    BY <1>1, <2>1, Processing, Zenon DEF Stamped, Failed
  <2>4. /\ \A r \in Trx : r # t => done'[r] = done[r]
        /\ \A j \in Key : <<"read", j>> \in done'[t] => <<"read", j>> \in done[t]
        /\ \A j \in Key : j # k /\ <<"write", j>> \in done'[t] => <<"write", j>> \in done[t]
    <3>1. done'[t] = done[t] \cup {<<"write", k>>} /\ \A r \in Trx : r # t => done'[r] = done[r]
      BY <1>1, Zenon DEF EndsOp, DataTypes
    <3>2. \A j \in Key : <<"read", j>> # <<"write", k>> /\ (j # k => <<"write", j>> # <<"write", k>>)
      OBVIOUS
    <3> QED
      BY <3>1, <3>2, Zenon
  <2>5. Calm
    BY <2>1, CalmSame, Zenon
  <2>6. NoWait'
    BY <2>1, Zenon DEF SInv, NoWait
  <2>7. Ordered' /\ Apart' /\ Complete'
    BY <2>1, <2>5, TimesFrame, Zenon
  <2>8. Versioned'
    BY <2>1, <2>5, VersionedFrame, Zenon DEF Calm
  <2>9. Standing'
    <3>1. Standing
      BY Zenon DEF SInv
    <3>2. \A u \in Trx : (Good(u)' <=> Good(u)) /\ (Stamped(u)' <=> Stamped(u))
      BY <2>1, Zenon DEF Good, Failed, Stamped
    <3>3. ASSUME NEW u \in Trx, NEW j \in Key, <<"write", j>> \in done'[u], Good(u)'
          PROVE  tail'[j] = u \/ (outcome'[u] = "commit" /\ InList(u, j)')
      <4>1. CASE u = t /\ j = k
        BY <2>2, <4>1, Zenon
      <4>2. CASE ~ (u = t /\ j = k)
        <5>1. tail[j] = u \/ (outcome[u] = "commit" /\ InList(u, j))
          BY <2>4, <3>1, <3>2, <3>3, <4>2, Zenon DEF Standing
        <5>2. tail[j] = u => j # k
          BY TrxAssumption, <1>3, <4>2, Zenon
        <5> QED
          BY <2>1, <2>2, <5>1, <5>2, Zenon DEF InList
      <4> QED
        BY <4>1, <4>2, Zenon
    <3>4. ASSUME NEW j \in Key, tail'[j] # NoTrx, Stamped(tail[j])'
          PROVE  LastCt(j)' < tst'[tail'[j]].ct
      <4>1. j # k /\ tail'[j] = tail[j] /\ tail[j] \in Trx
        BY <1>1, <2>1, <2>2, <2>3, <3>4, Zenon DEF DataTypes, Stamped, Failed
      <4>2. Stamped(tail[j])
        BY <2>1, <3>4, <4>1, Zenon DEF Stamped, Failed
      <4> QED
        BY <2>1, <3>1, <3>4, <4>1, <4>2, Zenon DEF Standing, LastCt
    <3> QED
      BY <3>3, <3>4, Zenon DEF Standing
  <2>10. Reading'
    <3>1. \A r, f \in Trx : Awaited(f, r) => Awaited(f, r)'
      BY <2>1, Zenon DEF Awaited
    <3> QED
      BY <2>1, <2>4, <2>5, <3>1, ReadingFrame, Zenon DEF Calm
  <2>11. Passed'
    BY <2>1, <2>5, PassedFrame, Zenon DEF IInv, Types, Calm
  <2> QED
    BY <2>6, <2>7, <2>8, <2>9, <2>10, <2>11, Zenon DEF SInv
<1> QED
  BY <1>2, <1>3, Zenon

(* A version is committed behind those that are there, or removed. *)
LEMMA AppendedVersion ==
  ASSUME NEW s \in Seq(Version), NEW e \in Version, NEW z, z = Append(s, e)
  PROVE  /\ Len(z) = Len(s) + 1 /\ Len(s) + 1 \in 1 .. Len(z) /\ z[Len(s) + 1] = e
         /\ \A i \in 1 .. Len(s) : i \in 1 .. Len(z) /\ z[i] = s[i]
         /\ \A i \in 1 .. Len(z) : i = Len(s) + 1 \/ i \in 1 .. Len(s)
OBVIOUS

LEMMA AppendedEnds ==
  ASSUME NEW s \in Seq(Version), NEW e \in Version, NEW z, z = Append(s, e),
         NEW b \in Nat, NEW i \in 1 .. Len(s), Ends(s, b, i)
  PROVE  \E j \in 1 .. Len(z) : Ends(z, b, j)
<1>1. Ends(s, b, i)
  BY Zenon
<1>2. /\ Len(z) = Len(s) + 1 /\ Len(s) + 1 \in 1 .. Len(z) /\ z[Len(s) + 1] = e
      /\ \A j \in 1 .. Len(s) : j \in 1 .. Len(z) /\ z[j] = s[j]
  OBVIOUS
<1>3. e.ct \in Nat
  BY DEF Version
<1>4. CASE i # Len(s)
  <2>1. i \in 1 .. Len(z) /\ i + 1 \in 1 .. Len(s)
    BY <1>2, <1>4
  <2>2. Ends(z, b, i)
    BY <1>1, <1>2, <1>4, <2>1, Zenon DEF Ends
  <2> QED
    BY <2>1, <2>2, Zenon
<1>5. CASE i = Len(s) /\ b < e.ct
  <2>1. i \in 1 .. Len(z) /\ Ends(z, b, i)
    BY <1>1, <1>2, <1>5, Zenon DEF Ends
  <2> QED
    BY <2>1, Zenon
<1>6. CASE e.ct <= b
  BY <1>2, <1>6, Zenon DEF Ends
<1>7. b < e.ct \/ e.ct <= b
  BY <1>3
<1> QED
  BY <1>4, <1>5, <1>6, <1>7, Zenon

LEMMA TerminateVersionSafe ==
  ASSUME IInv, SInv, NEW t \in Trx, NEW k \in Key, TerminateVersion(t, k)
  PROVE  SInv'
<1> USE DEF tsVars, rctVars, endVars
<1>1. /\ UNCHANGED <<pending_ts, bt, tst, rct, rct_list, done, from, homo, plan, vote, opt, outcome>>
      /\ tail[k] = t /\ tail' = [tail EXCEPT ![k] = NoTrx] /\ MayTerminate(Place[k], t)
      /\ versions' = IF term[Place[k]][t] = "commit"
                     THEN [versions EXCEPT ![k] = Append(versions[k], [by |-> t, ct |-> tst[t].ct])]
                     ELSE versions
  BY Zenon DEF TerminateVersion
<1>2. /\ DataTypes /\ Versioned /\ Standing /\ Owned /\ Terminating /\ Handed /\ EndTypes
      /\ Place[k] \in Worker /\ NoTrx \notin Trx
  BY TrxAssumption, PlacementAssumption, Zenon DEF IInv, Types, SInv
<1>3. k \in Writes[t] /\ t # NoTrx
  BY <1>1, <1>2, Zenon DEF Owned
<1>4. tail'[k] = NoTrx /\ \A j \in Key : j # k => tail'[j] = tail[j]
  BY <1>1, <1>2, Zenon DEF DataTypes
<1>5. /\ term[Place[k]][t] = "commit" => outcome[t] = "commit"
      /\ term[Place[k]][t] # "commit" => ~ Good(t)
  <2>1. term[Place[k]][t] \in {"commit", "abort", "init"}
    BY <1>1, Zenon DEF MayTerminate
  <2>2. outcome[t] = "none" => Failed(t) /\ term[Place[k]][t] # "commit"
    BY <1>2, <2>1, Zenon DEF Terminating, Failed
  <2>3. outcome[t] # "none" => term[Place[k]][t] = outcome[t]
    BY <1>2, <2>1, Zenon DEF Terminating
  <2>4. outcome[t] \in {"none", "commit", "abort"}
    BY <1>2, Zenon DEF EndTypes
  <2> QED
    BY <2>2, <2>3, <2>4, Zenon DEF Good
<1>6. Calm
  BY <1>1, CalmSame, Zenon
<1>7. NoWait'
  BY <1>1, Zenon DEF SInv, NoWait
<1>8. Ordered' /\ Apart' /\ Complete'
  BY <1>1, <1>6, TimesFrame, Zenon
<1>9. Reading'
  <2>1. \A r, f \in Trx : Awaited(f, r) => Awaited(f, r)'
    BY <1>1, Zenon DEF Awaited
  <2> QED
    BY <1>1, <1>6, <2>1, ReadingFrame, Zenon DEF Calm
<1>10. Passed'
  BY <1>1, <1>6, PassedFrame, Zenon DEF IInv, Types, Calm
<1>11. \A u \in Trx : (Good(u)' <=> Good(u)) /\ (Stamped(u)' <=> Stamped(u))
  BY <1>1, Zenon DEF Good, Failed, Stamped
<1>12. CASE term[Place[k]][t] # "commit"
  <2>1. UNCHANGED versions /\ ~ Good(t)
    BY <1>1, <1>5, <1>12, Zenon
  <2>2. Versioned'
    BY <2>1, <1>6, VersionedFrame, Zenon DEF Calm
  <2>3. Standing'
    <3>1. \A u \in Trx, j \in Key : <<"write", j>> \in done'[u] /\ Good(u)'
            => tail'[j] = u \/ (outcome'[u] = "commit" /\ InList(u, j)')
      <4> SUFFICES ASSUME NEW u \in Trx, NEW j \in Key, <<"write", j>> \in done[u], Good(u)
                   PROVE  tail'[j] = u \/ (outcome[u] = "commit" /\ InList(u, j))
        <5>1. \A u \in Trx, j \in Key : InList(u, j)' <=> InList(u, j)
          BY <1>1, <2>1, Zenon DEF InList
        <5> QED
          BY <1>1, <1>11, <5>1, Zenon
      <4>1. tail[j] = u \/ (outcome[u] = "commit" /\ InList(u, j))
        BY <1>2, Zenon DEF Standing
      <4>2. tail[j] = u => j # k
        BY <1>1, <2>1, Zenon
      <4> QED
        BY <1>4, <4>1, <4>2, Zenon
    <3>2. \A j \in Key : tail'[j] # NoTrx => j # k /\ tail'[j] = tail[j] /\ LastCt(j)' = LastCt(j)
      BY <1>4, <2>1, Zenon DEF LastCt
    <3>3. \A j \in Key : tail'[j] # NoTrx /\ Stamped(tail[j])' => LastCt(j)' < tst'[tail'[j]].ct
      BY <1>1, <1>2, <3>2, ZenonT(30) DEF Standing, Stamped, Failed
    <3> QED
      BY <3>1, <3>3, Zenon DEF Standing
  <2> QED
    BY <1>7, <1>8, <1>9, <1>10, <2>2, <2>3, Zenon DEF SInv
<1>13. CASE term[Place[k]][t] = "commit"
  <2> DEFINE e == [by |-> t, ct |-> tst[t].ct]
             n == Len(versions[k])
  <2>1. outcome[t] = "commit" /\ Stamped(t) /\ e \in Version
    <3>1. outcome[t] = "commit" /\ tst[t].ct \in Nat
      BY <1>5, <1>13, TimeTypes, Zenon
    <3> QED
      BY <1>3, <3>1, CommittedLive, Zenon DEF Version
  <2>2. LastCt(k) < tst[t].ct
    BY <1>1, <1>2, <1>3, <2>1, Zenon DEF Standing
  <2>3. versions[k] \in Seq(Version) /\ versions'[k] = Append(versions[k], e)
    BY <1>1, <1>2, <1>13, Zenon DEF DataTypes
  <2>4. \A j \in Key : j # k => versions'[j] = versions[j]
    BY <1>1, <1>2, <1>13, Zenon DEF DataTypes
  <2>5. e.by = t /\ e.ct = tst[t].ct
    OBVIOUS
  <2> HIDE DEF e, n
  <2>6. /\ Len(versions'[k]) = n + 1 /\ n + 1 \in 1 .. Len(versions'[k]) /\ versions'[k][n + 1] = e
        /\ \A i \in 1 .. n : i \in 1 .. Len(versions'[k]) /\ versions'[k][i] = versions[k][i]
        /\ \A i \in 1 .. Len(versions'[k]) : i = n + 1 \/ i \in 1 .. n
    <3>1. PICK s, z, v : s = versions[k] /\ z = versions'[k] /\ v = e
      BY Zenon
    <3>2. s \in Seq(Version) /\ v \in Version /\ z = Append(s, v) /\ n = Len(s)
      BY <2>1, <2>3, <3>1, Zenon DEF n
    <3>3. /\ Len(z) = Len(s) + 1 /\ Len(s) + 1 \in 1 .. Len(z) /\ z[Len(s) + 1] = v
          /\ \A i \in 1 .. Len(s) : i \in 1 .. Len(z) /\ z[i] = s[i]
          /\ \A i \in 1 .. Len(z) : i = Len(s) + 1 \/ i \in 1 .. Len(s)
      BY <3>2, AppendedVersion
    <3> QED
      BY <3>1, <3>2, <3>3, Zenon
  <2>7. \A i \in 1 .. n : versions[k][i].ct < e.ct
    <3> SUFFICES ASSUME NEW i \in 1 .. n PROVE versions[k][i].ct < e.ct
      BY Zenon
    <3>1. n \in Nat /\ n >= 1 /\ (i = n \/ i < n) /\ n \in 1 .. n
      <4>1. n \in Nat /\ n >= 1
        BY <1>2, <2>3 DEF Handed, n
      <4> QED
        BY <4>1
    <3>2. versions[k][i].ct \in Nat /\ versions[k][n].ct \in Nat /\ e.ct \in Nat
      <4>1. versions[k][i] \in Version /\ versions[k][n] \in Version
        BY <2>3, <3>1 DEF n
      <4> QED
        BY <2>1, <4>1 DEF Version
    <3>3. i = n \/ versions[k][i].ct < versions[k][n].ct
      BY <1>2, <3>1, Zenon DEF Versioned, n
    <3>4. versions[k][n].ct < e.ct
      BY <2>2, <2>5, Zenon DEF LastCt, n
    <3> QED
      BY <3>2, <3>3, <3>4
  <2>8. Versioned'
    <3>1. \A j \in Key : \A v : Sound(j, v) => (outcome'[v.by] = "commit" /\ v.by \in Trx /\ j \in Writes[v.by]
                                             /\ v.ct = tst'[v.by].ct) \/ (v.by = NoTrx /\ v.ct = 0)
      BY <1>1, Zenon DEF Sound
    <3>2. ASSUME NEW j \in Key, j # k
          PROVE  /\ \A b \in Nat : \E i \in 1 .. Len(versions'[j]) : Ends(versions'[j], b, i)
                 /\ \A i, m \in 1 .. Len(versions'[j]) : i < m => versions'[j][i].ct < versions'[j][m].ct
                 /\ \A i \in 1 .. Len(versions'[j]) : Sound(j, versions[j][i])'
      <4>1. versions'[j] = versions[j]
        BY <2>4, <3>2, Zenon
      <4>2. \A i \in 1 .. Len(versions[j]) : Sound(j, versions[j][i])
        BY <1>2, Zenon DEF Versioned
      <4>3. \A i \in 1 .. Len(versions'[j]) : Sound(j, versions'[j][i])
        BY <4>1, <4>2, Zenon
      <4> QED
        BY <1>2, <3>1, <4>1, <4>3, Zenon DEF Versioned, Sound
    <3>3. \A i, m \in 1 .. Len(versions'[k]) : i < m => versions'[k][i].ct < versions'[k][m].ct
      <4>1. n \in Nat
        BY <2>3 DEF n
      <4>2. (\A i \in 1 .. n : ~ (n + 1 < i)) /\ ~ (n + 1 < n + 1)
        BY <4>1
      <4> QED
        BY <1>2, <2>6, <2>7, <4>2, Zenon DEF Versioned, n
    <3>4. \A i \in 1 .. Len(versions'[k]) : Sound(k, versions[k][i])'
      <4>1. \A i \in 1 .. n : Sound(k, versions[k][i])
        BY <1>2, Zenon DEF Versioned, n
      <4>2. Sound(k, e)
        BY <1>3, <2>1, <2>5, Zenon DEF Sound
      <4>3. \A i \in 1 .. Len(versions'[k]) : Sound(k, versions'[k][i])
        BY <2>6, <4>1, <4>2, Zenon
      <4> QED
        BY <3>1, <4>3, Zenon DEF Sound
    <3>5. \A b \in Nat : \E i \in 1 .. Len(versions'[k]) : Ends(versions'[k], b, i)
      <4>1. PICK s, z, v : s = versions[k] /\ z = versions'[k] /\ v = e
        BY Zenon
      <4>2. /\ s \in Seq(Version) /\ v \in Version /\ z = Append(s, v)
            /\ \A b \in Nat : \E i \in 1 .. Len(s) : Ends(s, b, i)
        BY <1>2, <2>1, <2>3, <4>1, Zenon DEF Versioned
      <4>3. \A b \in Nat : \E i \in 1 .. Len(z) : Ends(z, b, i)
        BY <4>2, AppendedEnds, Zenon
      <4> QED
        BY <4>1, <4>3, Zenon
    <3> QED
      BY <3>2, <3>3, <3>4, <3>5, Zenon DEF Versioned
  <2>9. Standing'
    <3>1. \A u \in Trx, j \in Key : InList(u, j) => InList(u, j)'
      <4> SUFFICES ASSUME NEW u \in Trx, NEW j \in Key, InList(u, j) PROVE InList(u, j)'
        BY Zenon
      <4>1. CASE j # k
        BY <1>1, <2>4, <4>1, Zenon DEF InList
      <4>2. CASE j = k
        BY <1>1, <2>6, <4>2, Zenon DEF InList, n
      <4> QED
        BY <4>1, <4>2, Zenon
    <3>2. InList(t, k)'
      BY <1>1, <2>6, Zenon DEF InList, e
    <3>3. \A u \in Trx, j \in Key : <<"write", j>> \in done'[u] /\ Good(u)'
            => tail'[j] = u \/ (outcome'[u] = "commit" /\ InList(u, j)')
      <4> SUFFICES ASSUME NEW u \in Trx, NEW j \in Key, <<"write", j>> \in done[u], Good(u)
                   PROVE  tail'[j] = u \/ (outcome'[u] = "commit" /\ InList(u, j)')
        BY <1>1, <1>11, Zenon
      <4>1. tail[j] = u \/ (outcome[u] = "commit" /\ InList(u, j))
        BY <1>2, Zenon DEF Standing
      <4>2. CASE u = t /\ j = k
        BY <1>1, <2>1, <3>2, <4>2, Zenon
      <4>3. CASE ~ (u = t /\ j = k)
        <5>1. tail[j] = u => j # k
          BY <1>1, <4>3, Zenon
        <5> QED
          BY <1>1, <1>4, <3>1, <4>1, <5>1, Zenon
      <4> QED
        BY <4>2, <4>3, Zenon
    <3>4. \A j \in Key : tail'[j] # NoTrx => j # k /\ tail'[j] = tail[j] /\ LastCt(j)' = LastCt(j)
      BY <1>4, <2>4, Zenon DEF LastCt
    <3>5. \A j \in Key : tail'[j] # NoTrx /\ Stamped(tail[j])' => LastCt(j)' < tst'[tail'[j]].ct
      BY <1>1, <1>2, <3>4, Zenon DEF Standing, Stamped, Failed
    <3> QED
      BY <3>3, <3>5, Zenon DEF Standing
  <2> QED
    BY <1>7, <1>8, <1>9, <1>10, <2>8, <2>9, Zenon DEF SInv
<1> QED
  BY <1>12, <1>13, Zenon

(* The only worker never asks another one for its RCT. *)
LEMMA NeverAsks ==
  ASSUME IInv, SInv
  PROVE  queries = {} /\ answers = {}
<1>1. \A w, t : t \in Trx => ~ Asks(w, t)
  BY Zenon DEF Asks, SInv, NoWait
<1>2. Asked /\ queries \subseteq Worker \X Trx /\ \A a \in answers : a[2] \in Trx
  BY AnswerTypes, Zenon DEF IInv, Types, RctTypes
<1>3. \A q \in queries : q[2] \in Trx
  BY <1>2, Zenon
<1> QED
  BY <1>1, <1>2, <1>3, Zenon DEF Asked

-----------------------------------------------------------------------------
(* The timestamps of a queue rise. *)
LEMMA RisingAppend ==
  ASSUME NEW s \in Seq(Stamp), NEW a \in Stamp, Rising(s), \A e \in Elems(s) : e.ts < a.ts
  PROVE  Rising(Append(s, a))
<1> DEFINE n == Len(s)
           r == Append(s, a)
<1>1. n \in Nat /\ Len(r) = n + 1 /\ r[n + 1] = a /\ \A i \in 1 .. n : r[i] = s[i]
  OBVIOUS
<1>2. \A i \in 1 .. n : s[i].ts < a.ts
  BY Zenon DEF Elems
<1> HIDE DEF n, r
<1>3. \A i \in 1 .. n + 1 : i \in 1 .. n \/ i = n + 1
  BY <1>1
<1>4. \A i \in 1 .. n + 1 : ~ (n + 1 < i)
  BY <1>1
<1> SUFFICES ASSUME NEW i \in 1 .. n + 1, NEW j \in 1 .. n + 1, i < j PROVE r[i].ts < r[j].ts
  BY <1>1, Zenon DEF Rising, r
<1> QED
  BY <1>1, <1>2, <1>3, <1>4, Zenon DEF Rising, n

LEMMA RisingTail ==
  ASSUME NEW s \in Seq(Stamp), s # <<>>, Rising(s)
  PROVE  Rising(Tail(s)) /\ \A e \in Elems(Tail(s)) : Head(s).ts < e.ts
<1>1. /\ Len(s) \in Nat /\ Len(s) >= 1 /\ Len(Tail(s)) = Len(s) - 1
      /\ \A i \in 1 .. Len(s) - 1 : Tail(s)[i] = s[i + 1] /\ i + 1 \in 1 .. Len(s) /\ 1 < i + 1
      /\ Head(s) = s[1] /\ 1 \in 1 .. Len(s)
  OBVIOUS
<1>2. \A i, j \in 1 .. Len(s) - 1 : i < j => i + 1 < j + 1
  BY <1>1
<1>3. Rising(Tail(s))
  BY <1>1, <1>2, Zenon DEF Rising
<1>4. \A e \in Elems(Tail(s)) : Head(s).ts < e.ts
  BY <1>1, Zenon DEF Rising, Elems
<1> QED
  BY <1>3, <1>4, Zenon

(* A worker takes the earliest timestamp of its queue. *)
LEMMA Earliest ==
  ASSUME OneWorker, IInv, SInv, NEW w \in Worker, pending_ts[w] # <<>>
  PROVE  \E a \in Queue(w), c \in Nat :
           /\ a = Head(pending_ts[w]) /\ c = a.ts /\ a.trx \in Trx
           /\ \A r \in Trx : bt[r] < c /\ tst[r].ct < c
           /\ a.type = "begin" => plan[a.trx] = "begin"
           /\ a.type = "commit" => plan[a.trx] = "commit" /\ tst[a.trx].st = "P"
           /\ Rising(Tail(pending_ts[w])) /\ \A e \in Elems(Tail(pending_ts[w])) : e \in Queue(w) /\ c < e.ts
<1>1. TsTypes /\ Pending /\ Ordered
  BY Zenon DEF IInv, Types, SInv
<1>2. pending_ts[w] \in Seq(Stamp) /\ Distinct(pending_ts[w]) /\ Rising(pending_ts[w])
  BY <1>1, QueueTypes, Zenon DEF Pending, Ordered
<1>3. /\ Head(pending_ts[w]) \in Queue(w) /\ Elems(Tail(pending_ts[w])) \subseteq Queue(w)
  BY <1>2, QueueTail, Zenon DEF Queue
<1>4. /\ Head(pending_ts[w]).ts \in Nat /\ Head(pending_ts[w]).trx \in Trx
  BY <1>1, <1>3, QueueTypes, Zenon
<1>5. Rising(Tail(pending_ts[w])) /\ \A e \in Elems(Tail(pending_ts[w])) : Head(pending_ts[w]).ts < e.ts
  BY <1>2, RisingTail, Zenon
<1> QED
  BY <1>1, <1>3, <1>4, <1>5, Zenon DEF Pending, Ordered

LEMMA TakenOrdered ==
  ASSUME OneWorker, IInv, SInv, NEW w \in Worker, NEW c \in Nat,
         pending_ts' = [pending_ts EXCEPT ![w] = Tail(pending_ts[w])],
         Rising(Tail(pending_ts[w])), \A e \in Elems(Tail(pending_ts[w])) : e \in Queue(w) /\ c < e.ts,
         \A r \in Trx : bt'[r] \in {bt[r], c} /\ tst'[r].ct \in {tst[r].ct, c, 0}
  PROVE  Ordered'
<1>1. TsTypes /\ Ordered
  BY Zenon DEF IInv, Types, SInv
<1>2. \A x \in Worker : pending_ts'[x] = Tail(pending_ts[w])
  BY <1>1, Zenon DEF TsTypes, OneWorker
<1>3. \A e \in Elems(Tail(pending_ts[w])) : 0 < e.ts
  <2>1. \A e \in Elems(Tail(pending_ts[w])) : e.ts \in Nat
    BY <1>1, QueueTypes, Zenon
  <2> QED
    BY <2>1
<1>4. \A e \in Elems(Tail(pending_ts[w])), r \in Trx : bt'[r] < e.ts /\ tst'[r].ct < e.ts
  BY <1>1, <1>3, Zenon DEF Ordered
<1> QED
  BY <1>2, <1>4, Zenon DEF Ordered, Queue

(* The clock hands out a later time. *)
LEMMA AllocateSafe ==
  ASSUME IInv, SInv, NEW t \in Trx, ProcessTimestampRequest(t)
  PROVE  SInv'
<1> USE DEF rctVars, dataVars, endVars
<1> DEFINE h == Home[t]
<1>1. TsTypes /\ TrxTypes /\ Statuses /\ Phases /\ Pending /\ Handed /\ Ordered
  BY Zenon DEF IInv, Types, SInv
<1>2. PICK type \in {"begin", "commit"} :
        /\ Allocate(t, type, type)
        /\ type = "begin" => plan[t] = "parsed"
        /\ type = "commit" => plan[t] = "request"
  BY Zenon DEF ProcessTimestampRequest
<1> DEFINE a == [trx |-> t, type |-> type, ts |-> clock + 1]
<1>3. /\ pending_ts' = [pending_ts EXCEPT ![h] = Append(pending_ts[h], a)]
      /\ plan' = [plan EXCEPT ![t] = type]
      /\ UNCHANGED <<bt, tst, rct, rct_list, done, versions, tail, from, homo, vote, opt, outcome>>
  BY <1>2, Zenon DEF Allocate
<1>4. h \in Worker /\ a \in Stamp /\ clock \in Nat /\ a.trx = t /\ a.ts = clock + 1
  BY <1>1, PlacementAssumption DEF TsTypes, Stamp
<1> HIDE DEF a, h
<1>5. \A w \in Worker : \A e \in Queue(w) : e.trx \in Trx /\ e.trx # t /\ e.ts < a.ts
  <2>1. \A w \in Worker : \A e \in Queue(w) : e.ts \in Nat /\ e.trx \in Trx /\ e.trx # t /\ e.ts <= clock
    BY <1>1, <1>2, QueueTypes, Zenon DEF Pending
  <2> QED
    BY <1>4, <2>1
<1>6. \A r \in Trx : bt[r] < a.ts /\ tst[r].ct < a.ts
  <2>1. \A r \in Trx : bt[r] \in Nat /\ tst[r].ct \in Nat /\ bt[r] <= clock /\ tst[r].ct <= clock
    BY <1>1, TimeTypes, Zenon DEF Handed
  <2> QED
    BY <1>4, <2>1
<1>7. /\ Elems(Append(pending_ts[h], a)) = Queue(h) \cup {a} /\ Rising(Append(pending_ts[h], a))
  <2>1. pending_ts[h] \in Seq(Stamp) /\ Distinct(pending_ts[h]) /\ Rising(pending_ts[h])
    BY <1>1, <1>4, QueueTypes, Zenon DEF Pending, Ordered
  <2>2. \A e \in Elems(pending_ts[h]) : e.trx # a.trx /\ e.ts < a.ts
    BY <1>4, <1>5, Zenon DEF Queue
  <2> QED
    BY <1>4, <2>1, <2>2, QueueAppend, RisingAppend, Zenon DEF Queue
<1>8. /\ pending_ts'[h] = Append(pending_ts[h], a)
      /\ \A w \in Worker : w # h => pending_ts'[w] = pending_ts[w]
  BY <1>1, <1>3, <1>4, Zenon DEF TsTypes
<1>9. Ordered'
  <2> SUFFICES ASSUME NEW w \in Worker
               PROVE  Rising(pending_ts'[w]) /\ \A e \in Elems(pending_ts'[w]) : \A r \in Trx : bt[r] < e.ts /\ tst[r].ct < e.ts
    BY <1>3, Zenon DEF Ordered, Queue
  <2>1. CASE w = h
    BY <1>1, <1>4, <1>6, <1>7, <1>8, <2>1, Zenon DEF Ordered
  <2>2. CASE w # h
    BY <1>1, <1>8, <2>2, Zenon DEF Ordered, Queue
  <2> QED
    BY <2>1, <2>2, Zenon
<1>10. plan'[t] = type /\ \A r \in Trx : r # t => plan'[r] = plan[r]
  BY <1>1, <1>3, Zenon DEF TrxTypes
<1>11. NoWait'
  <2>1. type = "commit" => tst[t].st = "P"
    BY <1>1, <1>2, Zenon DEF Statuses
  <2> QED
    BY <1>2, <1>3, <1>10, <2>1, Zenon DEF SInv, NoWait
<1>12. Calm
  <2>1. outcome[t] = "none"
    BY <1>1, <1>2, Zenon DEF Phases
  <2>2. ~ Failed(t) /\ ~ Failed(t)' /\ ~ Stamped(t) /\ ~ Stamped(t)'
    BY <1>2, <1>3, <1>10, Zenon DEF Failed, Stamped
  <2>3. \A u \in Trx : (Failed(u)' <=> Failed(u)) /\ (Stamped(u)' <=> Stamped(u))
    BY <1>3, <1>10, <2>2, Zenon DEF Failed, Stamped
  <2>4. \A u \in Trx : (Good(u)' => Good(u)) /\ (Live(u)' => Live(u))
    BY <1>3, <2>3, Zenon DEF Good, Live
  <2> QED
    BY <1>3, <2>3, <2>4, Zenon DEF Calm
<1>13. Apart' /\ Complete'
  <2>1. Apart /\ Complete
    BY Zenon DEF SInv
  <2> QED
    BY <1>3, <1>12, <2>1, Zenon DEF Apart, Complete, Calm
<1>14. Versioned' /\ Standing'
  BY <1>3, <1>12, VersionedFrame, StandingFrame, Zenon DEF Calm
<1>15. Reading'
  <2>1. \A r, f \in Trx : Awaited(f, r) => Awaited(f, r)'
    BY <1>3, Zenon DEF Awaited
  <2> QED
    BY <1>3, <1>12, <2>1, ReadingFrame, Zenon DEF Calm
<1>16. Passed'
  BY <1>3, <1>12, PassedFrame, Zenon DEF IInv, Types, Calm
<1> QED
  BY <1>9, <1>11, <1>13, <1>14, <1>15, <1>16, Zenon DEF SInv

LEMMA BeginTimeSafe ==
  ASSUME OneWorker, IInv, SInv, NEW w \in Worker, BeginTime(w)
  PROVE  SInv'
<1> USE DEF rctVars, dataVars, endVars
<1>1. TsTypes /\ TrxTypes /\ Statuses /\ Phases /\ Apart /\ Complete
  BY Zenon DEF IInv, Types, SInv
<1>2. PICK a \in Queue(w), c \in Nat :
        /\ a = Head(pending_ts[w]) /\ c = a.ts /\ a.trx \in Trx
        /\ \A r \in Trx : bt[r] < c /\ tst[r].ct < c
        /\ a.type = "begin" => plan[a.trx] = "begin"
        /\ Rising(Tail(pending_ts[w])) /\ \A e \in Elems(Tail(pending_ts[w])) : e \in Queue(w) /\ c < e.ts
  BY Earliest, Zenon DEF BeginTime
<1>3. PICK t \in Trx : t = a.trx
  BY <1>2, Zenon
<1>4. /\ bt' = [bt EXCEPT ![t] = c] /\ tst' = [tst EXCEPT ![t] = [st |-> "P", ct |-> 0]]
      /\ plan' = [plan EXCEPT ![t] = "run"]
      /\ pending_ts' = [pending_ts EXCEPT ![w] = Tail(pending_ts[w])]
      /\ UNCHANGED <<rct, rct_list, done, versions, tail, from, homo, vote, opt, outcome>>
      /\ plan[t] = "begin"
  BY <1>2, <1>3, Zenon DEF BeginTime
<1>5. /\ plan'[t] = "run" /\ bt'[t] = c /\ tst'[t].st = "P" /\ tst'[t].ct = 0
      /\ \A r \in Trx : r # t => plan'[r] = plan[r] /\ bt'[r] = bt[r] /\ tst'[r] = tst[r]
  <2>1. /\ plan'[t] = "run" /\ bt'[t] = c /\ tst'[t] = [st |-> "P", ct |-> 0]
        /\ \A r \in Trx : r # t => plan'[r] = plan[r] /\ bt'[r] = bt[r] /\ tst'[r] = tst[r]
    BY <1>1, <1>4, Zenon DEF TrxTypes
  <2> QED
    BY <2>1
<1>6. tst[t].st = "none" /\ done[t] = {} /\ outcome[t] = "none"
  BY <1>1, <1>4, Zenon DEF Statuses, Phases
<1>7. NoWait'
  BY <1>5, Zenon DEF SInv, NoWait
<1>8. Ordered'
  <2>1. \A r \in Trx : bt'[r] \in {bt[r], c} /\ tst'[r].ct \in {tst[r].ct, c, 0}
    BY <1>5, Zenon
  <2> QED
    BY <1>2, <1>4, <2>1, TakenOrdered, Zenon
<1>9. /\ ~ Stamped(t) /\ ~ Stamped(t)' /\ Good(t) /\ ~ Live(t)'
      /\ \A u \in Trx : u # t => /\ Stamped(u)' <=> Stamped(u)
                                 /\ Good(u)' <=> Good(u)
                                 /\ Live(u)' <=> Live(u)
  BY <1>4, <1>5, <1>6, Zenon DEF Stamped, Failed, Good, Live
<1>10. Apart'
  <2> SUFFICES ASSUME NEW u \in Trx, Stamped(u)' PROVE bt'[u] < tst'[u].ct /\ \A r \in Trx : bt'[r] # tst'[u].ct
    BY Zenon DEF Apart
  <2>1. u # t /\ Stamped(u) /\ bt'[u] = bt[u] /\ tst'[u].ct = tst[u].ct
    BY <1>5, <1>9, Zenon
  <2>2. c # tst[u].ct
    BY <1>2, TimeTypes
  <2> QED
    BY <1>1, <1>5, <2>1, <2>2, Zenon DEF Apart
<1>11. Complete'
  BY <1>1, <1>4, <1>5, <1>9, Zenon DEF Complete
<1>12. Versioned' /\ Standing'
  BY <1>4, <1>5, <1>6, <1>9, VersionedFrame, StandingFrame, Zenon
<1>13. Reading'
  <2>1. \A r, f \in Trx : Awaited(f, r) => Awaited(f, r)'
    BY <1>4, Zenon DEF Awaited
  <2>2. \A r \in Trx : Good(r)' => /\ Good(r)
                                   /\ \A k \in Key : <<"read", k>> \in done'[r] => <<"read", k>> \in done[r] /\ bt'[r] = bt[r]
    BY <1>4, <1>5, <1>6, <1>9, Zenon
  <2>3. \A u \in Trx : (Stamped(u) => Stamped(u)' /\ tst'[u].ct = tst[u].ct) /\ (Live(u)' => Live(u))
    BY <1>5, <1>9, Zenon
  <2> QED
    BY <1>4, <2>1, <2>2, <2>3, ReadingFrame, Zenon
<1>14. Passed'
  <2>1. \A u \in Trx : tst[u].st = "A" => tst'[u].st = "A"
    BY <1>5, <1>6, Zenon
  <2> QED
    BY <1>4, <2>1, PassedFrame, Zenon DEF IInv, Types
<1> QED
  BY <1>7, <1>8, <1>10, <1>11, <1>12, <1>13, <1>14, Zenon DEF SInv

(* What the RCT holds between a begin time and a commit time is found. *)
LEMMA QueryFinds ==
  ASSUME NEW table, NEW b \in Nat, NEW c \in Nat, NEW x \in Nat, NEW u, <<x, u>> \in table, b < x, x < c
  PROVE  u \in query_trx(table, b, c - 1)
<1>1. ~ (c - 1 <= b) /\ b <= x /\ x <= c - 1 /\ <<x, u>>[1] = x /\ <<x, u>>[2] = u
  OBVIOUS
<1> QED
  BY <1>1, Zenon DEF query_trx

LEMMA CommitTimeSafe ==
  ASSUME OneWorker, IInv, SInv, NEW w \in Worker, CommitTime(w)
  PROVE  SInv'
<1> USE DEF dataVars
<1>1. /\ TsTypes /\ TrxTypes /\ RctTypes /\ EndTypes /\ Phases /\ Apart /\ Complete /\ Passed
      /\ Asked /\ Recent /\ Owned
  BY Zenon DEF IInv, Types, SInv
<1>2. PICK a \in Queue(w), c \in Nat :
        /\ a = Head(pending_ts[w]) /\ c = a.ts /\ a.trx \in Trx
        /\ \A r \in Trx : bt[r] < c /\ tst[r].ct < c
        /\ a.type = "commit" => plan[a.trx] = "commit" /\ tst[a.trx].st = "P"
        /\ Rising(Tail(pending_ts[w])) /\ \A e \in Elems(Tail(pending_ts[w])) : e \in Queue(w) /\ c < e.ts
  BY Earliest, Zenon DEF CommitTime
<1>3. PICK t \in Trx : t = a.trx
  BY <1>2, Zenon
<1> DEFINE ids == query_trx(rct'[w], bt[t], c - 1)
<1>4. /\ rct' = [rct EXCEPT ![w] = rct[w] \cup {<<c, t>>}]
      /\ tst' = [tst EXCEPT ![t] = [st |-> "V", ct |-> c]]
      /\ InsertQueryRCTResult(t, w, ids)
      /\ pending_ts' = [pending_ts EXCEPT ![w] = Tail(pending_ts[w])]
      /\ UNCHANGED <<bt, done, versions, tail, from, homo>>
      /\ a.type = "commit" /\ plan[t] = "commit" /\ tst[t].st = "P"
  BY <1>2, <1>3, Zenon DEF CommitTime
<1> HIDE DEF ids
<1>5. /\ outcome[t] = "none" /\ collected[t] = {}
  BY <1>1, <1>4, Zenon DEF Phases, Asked, CtFixed
<1>6. /\ SendValidation(t)
      /\ rct_list' = [rct_list EXCEPT ![t] = rct_list[t] \cup ids]
  <2>1. collected[t] \cup {w} = Worker
    BY <1>5, Zenon DEF OneWorker
  <2> QED
    BY <1>4, <2>1, Zenon DEF InsertQueryRCTResult
<1>7. /\ plan'[t] = "validate" /\ \A r \in Trx : r # t => plan'[r] = plan[r]
      /\ UNCHANGED <<opt, outcome>>
  BY <1>1, <1>6, Zenon DEF SendValidation, TrxTypes
<1>8. /\ \A x \in Worker : vote'[x][t] = "start"
      /\ \A x \in Worker, r \in Trx : r # t => vote'[x][r] = vote[x][r]
  <2>1. vote' = [x \in Worker |-> [vote[x] EXCEPT ![t] = "start"]]
    BY <1>6, Zenon DEF SendValidation
  <2>2. vote \in [Worker -> [Trx -> {"none", "start", "step", "opt", "homo", "commit", "abort"}]]
    BY <1>1, Zenon DEF EndTypes
  <2> QED
    BY <2>1, <2>2
<1>9. /\ tst'[t].st = "V" /\ tst'[t].ct = c
      /\ \A r \in Trx : r # t => tst'[r] = tst[r]
  <2>1. tst'[t] = [st |-> "V", ct |-> c] /\ \A r \in Trx : r # t => tst'[r] = tst[r]
    BY <1>1, <1>4, Zenon DEF TrxTypes
  <2> QED
    BY <2>1
<1>10. /\ ids \subseteq rct_list'[t] /\ \A r \in Trx : r # t => rct_list'[r] = rct_list[r]
       /\ rct'[w] = rct[w] \cup {<<c, t>>} /\ \A x \in Worker : x = w
  BY <1>1, <1>4, <1>6, ZenonT(30) DEF RctTypes, OneWorker
<1>11. /\ ~ Stamped(t) /\ Good(t) /\ (Stamped(t)' => ~ ReadOnly(t))
       /\ \A u \in Trx : u # t => /\ Stamped(u)' <=> Stamped(u)
                                  /\ Good(u)' <=> Good(u)
                                  /\ Live(u)' <=> Live(u)
                                  /\ tst'[u].ct = tst[u].ct
  BY <1>4, <1>5, <1>7, <1>9, Zenon DEF Stamped, Failed, Good, Live
<1>12. NoWait'
  BY <1>7, <1>9, Zenon DEF SInv, NoWait
<1>13. Ordered'
  <2>1. \A r \in Trx : bt'[r] \in {bt[r], c} /\ tst'[r].ct \in {tst[r].ct, c, 0}
    BY <1>4, <1>9, Zenon
  <2> QED
    BY <1>2, <1>4, <2>1, TakenOrdered, Zenon
<1>14. Apart'
  <2>1. \A r \in Trx : bt[r] # c
    BY <1>2, TimeTypes
  <2> SUFFICES ASSUME NEW u \in Trx, Stamped(u)' PROVE bt[u] < tst'[u].ct /\ \A r \in Trx : bt[r] # tst'[u].ct
    BY <1>4, Zenon DEF Apart
  <2>2. CASE u = t
    BY <1>2, <1>9, <2>1, <2>2, Zenon
  <2>3. CASE u # t
    BY <1>1, <1>11, <2>3, Zenon DEF Apart
  <2> QED
    BY <2>2, <2>3, ZenonT(30)
<1>15. Complete'
  <2> SUFFICES ASSUME NEW u \in Trx, Stamped(u)'
               PROVE  /\ <<tst'[u].ct, u>> \in rct'[w]
                      /\ \A r \in Trx \ {u} : Stamped(r)' /\ bt[r] <= tst'[u].ct /\ tst'[u].ct < tst'[r].ct
                           => u \in rct_list'[r]
    BY <1>4, <1>10, Zenon DEF Complete
  <2>1. CASE u = t
    <3>1. \A r \in Trx \ {u} : ~ (tst'[u].ct < tst'[r].ct)
      <4>1. \A r \in Trx \ {u} : tst'[r].ct = tst[r].ct /\ tst[r].ct < c /\ tst[r].ct \in Nat
        BY <1>2, <1>11, <2>1, TimeTypes, Zenon
      <4> QED
        BY <1>9, <2>1, <4>1
    <3> QED
      BY <1>9, <1>10, <2>1, <3>1, Zenon
  <2>2. CASE u # t
    <3>1. Stamped(u) /\ tst'[u].ct = tst[u].ct /\ <<tst[u].ct, u>> \in rct[w]
      BY <1>1, <1>11, <2>2, Zenon DEF Complete
    <3>2. ASSUME bt[t] <= tst[u].ct PROVE u \in ids
      <4>1. bt[t] \in Nat /\ tst[u].ct \in Nat /\ bt[t] # tst[u].ct /\ tst[u].ct < c
        BY <1>1, <1>2, <3>1, TimeTypes, Zenon DEF Apart
      <4>2. bt[t] < tst[u].ct
        BY <3>2, <4>1
      <4>3. <<tst[u].ct, u>> \in rct'[w]
        BY <1>10, <3>1, Zenon
      <4> QED
        BY <4>1, <4>2, <4>3, QueryFinds, Zenon DEF ids
    <3>3. \A r \in Trx \ {u} : Stamped(r)' /\ bt[r] <= tst'[u].ct /\ tst'[u].ct < tst'[r].ct => u \in rct_list'[r]
      <4> SUFFICES ASSUME NEW r \in Trx \ {u}, Stamped(r)', bt[r] <= tst'[u].ct, tst'[u].ct < tst'[r].ct
                   PROVE  u \in rct_list'[r]
        BY Zenon
      <4>1. CASE r = t
        BY <1>10, <3>1, <3>2, <4>1, Zenon
      <4>2. CASE r # t
        BY <1>1, <1>10, <1>11, <3>1, <4>2, Zenon DEF Complete
      <4> QED
        BY <4>1, <4>2, Zenon
    <3> QED
      BY <1>10, <3>1, <3>3, Zenon
  <2> QED
    BY <2>1, <2>2, Zenon
<1>16. Versioned' /\ Standing'
  <2>1. \A k \in Key : tail[k] = t => LastCt(k) < tst'[t].ct
    <3> SUFFICES ASSUME NEW k \in Key, tail[k] = t PROVE LastCt(k) < c
      BY <1>9, Zenon
    <3>1. tail[k] # NoTrx
      BY TrxAssumption, Zenon
    <3> QED
      BY <1>1, <1>2, <1>3, <1>4, <3>1, Zenon DEF Owned
  <2>2. \A u \in Trx : /\ Good(u)' => Good(u) /\ \A k \in Key : <<"write", k>> \in done'[u] => <<"write", k>> \in done[u]
                       /\ outcome[u] = "commit" => outcome'[u] = "commit"
                       /\ Stamped(u) => tst'[u].ct = tst[u].ct
                       /\ Stamped(u)' => Stamped(u) \/ \A k \in Key : tail[k] = u => LastCt(k) < tst'[u].ct
    BY <1>4, <1>7, <1>11, <2>1, Zenon
  <2> QED
    BY <1>4, <2>2, VersionedFrame, StandingFrame, Zenon
<1>17. Reading'
  <2>1. \A r, f \in Trx : Awaited(f, r) => Awaited(f, r)'
    BY <1>4, <1>8, ZenonT(30) DEF Awaited
  <2>2. \A r \in Trx : Good(r)' => /\ Good(r)
                                   /\ \A k \in Key : <<"read", k>> \in done'[r] => <<"read", k>> \in done[r] /\ bt'[r] = bt[r]
    BY <1>4, <1>11, Zenon
  <2>3. \A u \in Trx : Stamped(u) => Stamped(u)' /\ tst'[u].ct = tst[u].ct
    BY <1>11, ZenonT(30)
  <2>4. \A r \in Trx : ~ (c < bt[r])
    BY <1>2, TimeTypes
  <2>5. \A u \in Trx : Live(u)' => Live(u) \/ \A r \in Trx : ~ (tst'[u].ct < bt'[r])
    BY <1>4, <1>9, <1>11, <2>4, Zenon
  <2> QED
    BY <1>4, <1>7, <2>1, <2>2, <2>3, <2>5, ReadingFrame, Zenon
<1>18. Passed'
  <2> SUFFICES ASSUME NEW x \in Worker, NEW r \in Trx, ~ ReadOnly(r), vote'[x][r] \in {"opt", "homo", "commit"},
                      NEW q \in Conflicts(x, r)'
               PROVE  tst'[q].st = "A" \/ (vote'[x][r] = "opt" /\ q \in opt'[x][r])
    BY Zenon DEF Passed
  <2>1. r # t
    BY <1>8, Zenon
  <2>2. q \in Conflicts(x, r) /\ q \in Trx /\ vote'[x][r] = vote[x][r]
    BY <1>1, <1>8, <1>10, <2>1, Zenon DEF Conflicts, RctTypes
  <2>3. tst[q].st = "A" \/ (vote[x][r] = "opt" /\ q \in opt[x][r])
    BY <1>1, <2>2, Zenon DEF Passed
  <2>4. tst[q].st = "A" => tst'[q].st = "A"
    BY <1>4, <1>9, <2>2, Zenon
  <2> QED
    BY <1>7, <2>2, <2>3, <2>4, Zenon
<1> QED
  BY <1>12, <1>13, <1>14, <1>15, <1>16, <1>17, <1>18, Zenon DEF SInv

-----------------------------------------------------------------------------
(* The walk of a reader ends at a version, the last one that was committed *)
(* up to its begin time.                                                   *)
Visible(t, k, i) == Ends(versions[k], bt[t], i)

(* Its writer has committed before the begin time, and so has no later one *)
(* among the committed versions.                                           *)
LastWriter(t, k, v) ==
  /\ v.by \in Trx \cup {NoTrx}
  /\ v.by # NoTrx => /\ v.by \in Trx /\ k \in Writes[v.by] /\ Stamped(v.by) /\ tst[v.by].ct < bt[t]
                     /\ outcome[v.by] = "commit" /\ v.ct = tst[v.by].ct
  /\ \A u \in Trx : Live(u) /\ k \in Writes[u] /\ tst[u].ct < bt[t] /\ tail[k] # u
       => v.by # NoTrx /\ tst[u].ct <= tst[v.by].ct

LEMMA VisibleRight ==
  ASSUME IInv, SInv, NEW t \in Trx, NEW k \in Key, NEW i \in 1 .. Len(versions[k]), Visible(t, k, i)
  PROVE  LastWriter(t, k, versions[k][i])
<1> DEFINE f == versions[k][i].by
<1>1. DataTypes /\ Handed /\ Versioned /\ Standing /\ Apart
  BY Zenon DEF IInv, Types, SInv
<1>2. PICK s \in Seq(Version) : s = versions[k]
  BY <1>1, Zenon DEF DataTypes
<1>3. PICK b \in Nat : b = bt[t]
  BY TimeTypes, Zenon
<1>4. /\ Len(s) \in Nat /\ i \in 1 .. Len(s) /\ s[i].ct <= b /\ (i = Len(s) \/ b < s[i + 1].ct)
      /\ \A p, q \in 1 .. Len(s) : p < q => s[p].ct < s[q].ct
  <2>1. /\ i \in 1 .. Len(s) /\ s[i].ct <= b /\ (i = Len(s) \/ b < s[i + 1].ct)
        /\ \A p, q \in 1 .. Len(s) : p < q => s[p].ct < s[q].ct
    BY <1>1, <1>2, <1>3, ZenonT(30) DEF Versioned, Visible, Ends
  <2>2. Len(s) \in Nat
    OBVIOUS
  <2> QED
    BY <2>1, <2>2, ZenonT(30)
<1>5. \A j \in 1 .. Len(s) : s[j].ct \in Nat
  <2>1. \A j \in 1 .. Len(s) : s[j] \in Version
    OBVIOUS
  <2> QED
    BY <2>1, ZenonT(30) DEF Version
<1>6. Sound(k, s[i])
  BY <1>1, <1>2, Zenon DEF Versioned
<1>7. /\ f \in Trx \cup {NoTrx}
      /\ f = NoTrx => s[i].ct = 0
      /\ f # NoTrx => f \in Trx /\ k \in Writes[f] /\ outcome[f] = "commit" /\ s[i].ct = tst[f].ct
  BY <1>2, <1>6, TrxAssumption, Zenon DEF Sound
<1>8. f # NoTrx => Stamped(f) /\ tst[f].ct < bt[t]
  <2> SUFFICES ASSUME f # NoTrx PROVE Stamped(f) /\ tst[f].ct < bt[t]
    BY Zenon
  <2>1. Stamped(f)
    BY <1>7, CommittedLive, Zenon
  <2>2. tst[f].ct \in Nat /\ b # tst[f].ct /\ tst[f].ct <= b
    BY <1>1, <1>3, <1>4, <1>7, <2>1, TimeTypes, ZenonT(30) DEF Apart
  <2>3. tst[f].ct < b
    BY <2>2
  <2> QED
    BY <1>3, <2>1, <2>3, Zenon
<1>9. ASSUME NEW u \in Trx, Live(u), k \in Writes[u], tst[u].ct < bt[t], tail[k] # u
      PROVE  f # NoTrx /\ tst[u].ct <= tst[f].ct
  <2>1. Stamped(u) /\ Good(u)
    BY <1>9, Zenon DEF Live, Stamped, Good
  <2>2. <<"write", k>> \in done[u]
    <3>1. <<"write", k>> \in Ops(u)
      BY <1>9 DEF Ops
    <3> QED
      BY <2>1, <3>1, StampedDone, Zenon
  <2>3. PICK p \in 1 .. Len(s) : s[p] = [by |-> u, ct |-> tst[u].ct]
    BY <1>1, <1>2, <1>9, <2>1, <2>2, Zenon DEF Standing, InList
  <2>4. s[p].ct = tst[u].ct /\ s[p].ct < b
    <3>1. s[p].ct = tst[u].ct
      BY <2>3
    <3> QED
      BY <1>3, <1>9, <3>1, Zenon
  <2>5. s[p].ct <= s[i].ct
    <3>1. CASE p = i
      BY <1>5, <3>1
    <3>2. CASE p < i
      BY <1>4, <1>5, <3>2
    <3>3. CASE i < p
      <4>1. i # Len(s) /\ i + 1 \in 1 .. Len(s) /\ (i + 1 = p \/ i + 1 < p)
        BY <1>4, <3>3
      <4>2. b < s[i + 1].ct
        BY <1>4, <4>1, Zenon
      <4>3. s[i + 1].ct = s[p].ct \/ s[i + 1].ct < s[p].ct
        BY <1>4, <4>1, Zenon
      <4>4. s[i + 1].ct \in Nat /\ s[p].ct \in Nat
        BY <1>5, <4>1, Zenon
      <4> QED
        BY <2>4, <4>2, <4>3, <4>4
    <3> QED
      BY <1>4, <3>1, <3>2, <3>3
  <2>6. bt[u] \in Nat /\ tst[u].ct \in Nat /\ bt[u] < tst[u].ct
    BY <1>1, <2>1, TimeTypes, Zenon DEF Apart
  <2>7. s[i].ct # 0
    BY <1>5, <2>4, <2>5, <2>6
  <2> QED
    BY <1>7, <2>4, <2>5, <2>7, Zenon
<1> QED
  BY <1>2, <1>7, <1>8, <1>9, Zenon DEF LastWriter

(* What an operation may return: the last version before the begin time,   *)
(* of a transaction that has committed or that it will wait for.           *)
Right(t, k, f, newHomo) ==
  /\ f # NoTrx => /\ f \in Trx /\ k \in Writes[f] /\ Stamped(f) /\ tst[f].ct < bt[t]
                  /\ outcome[f] = "commit" \/ f \in newHomo
  /\ \A u \in Trx \ {t} : Live(u) /\ k \in Writes[u] /\ tst[u].ct < bt[t]
       => f # NoTrx /\ tst[u].ct <= tst[f].ct

LEMMA ReturnsSafe ==
  ASSUME OneWorker, IInv, SInv, NEW t \in Trx, NEW k \in Key, EndsOp(t, <<"read", k>>),
         NEW f \in Trx \cup {NoTrx}, NEW newHomo \in SUBSET Trx, NEW newHetero, Returns(t, k, f, newHomo, newHetero),
         f = t \/ Right(t, k, f, newHomo),
         UNCHANGED <<tsVars, bt, tst, rctVars>>
  PROVE  SInv'
<1> USE DEF tsVars, rctVars, endVars
<1>1. /\ UNCHANGED <<pending_ts, bt, tst, rct, rct_list, versions, tail, plan, vote, opt, outcome>>
      /\ from' = [from EXCEPT ![t][k] = f]
      /\ homo' = [homo EXCEPT ![Place[k]][t] = homo[Place[k]][t] \cup newHomo]
  BY Zenon DEF Returns
<1>2. DataTypes /\ Reading /\ Voting /\ Place[k] \in Worker /\ \A x \in Worker : x = Place[k]
  BY PlacementAssumption, Zenon DEF IInv, Types, SInv, OneWorker
<1>3. /\ homo'[Place[k]][t] = homo[Place[k]][t] \cup newHomo
      /\ \A x \in Worker, r \in Trx : homo[x][r] \subseteq homo'[x][r]
  BY <1>1, <1>2, Zenon DEF DataTypes
<1>4. /\ from' \in [Trx -> [Key -> Trx \cup {NoTrx}]] /\ from'[t][k] = f
      /\ \A r \in Trx, j \in Key : ~ (r = t /\ j = k) => from'[r][j] = from[r][j]
  BY <1>1, <1>2, Zenon DEF Reading
<1>5. /\ \A r \in Trx : r # t => done'[r] = done[r]
      /\ \A j \in Key : <<"write", j>> \in done'[t] => <<"write", j>> \in done[t]
      /\ \A j \in Key : j # k /\ <<"read", j>> \in done'[t] => <<"read", j>> \in done[t]
  <2>1. done'[t] = done[t] \cup {<<"read", k>>} /\ \A r \in Trx : r # t => done'[r] = done[r]
    BY EndsOpFacts, Zenon
  <2>2. \A j \in Key : <<"write", j>> # <<"read", k>> /\ (j # k => <<"read", j>> # <<"read", k>>)
    OBVIOUS
  <2> QED
    BY <2>1, <2>2, Zenon
<1>6. Calm
  BY <1>1, CalmSame, Zenon
<1>7. NoWait'
  BY <1>1, Zenon DEF SInv, NoWait
<1>8. Ordered' /\ Apart' /\ Complete'
  BY <1>1, <1>6, TimesFrame, Zenon
<1>9. Versioned' /\ Standing'
  BY <1>1, <1>5, <1>6, VersionedFrame, StandingFrame, Zenon DEF Calm
<1>10. Passed'
  BY <1>1, <1>6, PassedFrame, Zenon DEF IInv, Types, Calm
<1>11. Reading'
  <2> SUFFICES ASSUME NEW r \in Trx, NEW j \in Key, <<"read", j>> \in done'[r], Good(r)', from'[r][j] # r
               PROVE  ReadRight(r, j, from[r][j])'
    BY <1>4, Zenon DEF Reading
  <2>1. PICK g \in Trx \cup {NoTrx} : g = from'[r][j]
    BY <1>4, Zenon
  <2>2. /\ g # NoTrx => /\ g \in Trx /\ j \in Writes[g] /\ Stamped(g) /\ tst[g].ct < bt[r]
                        /\ outcome[g] = "commit" \/ Awaited(g, r)'
        /\ \A u \in Trx \ {r} : Live(u) /\ j \in Writes[u] /\ tst[u].ct < bt[r]
             => g # NoTrx /\ tst[u].ct <= tst[g].ct
    <3>1. CASE r = t /\ j = k
      <4>1. g = f /\ Right(t, k, f, newHomo)
        BY <1>4, <2>1, <3>1, Zenon
      <4>2. \A x \in Worker : vote[x][t] = "none"
        <5>1. plan[t] = "run" /\ outcome[t] = "none"
          BY <1>6, <3>1, Processing, Zenon DEF Calm
        <5> QED
          BY <1>2, <5>1, Zenon DEF Voting
      <4>3. f \in newHomo => Awaited(f, t)'
        BY <1>1, <1>2, <1>3, <4>2, Zenon DEF Awaited
      <4> QED
        BY <3>1, <4>1, <4>3, Zenon DEF Right
    <3>2. CASE ~ (r = t /\ j = k)
      <4>1. from[r][j] = g /\ g # r /\ <<"read", j>> \in done[r] /\ Good(r)
        BY <1>4, <1>5, <1>6, <2>1, <3>2, Zenon DEF Calm
      <4>2. ReadRight(r, j, g)
        BY <1>2, <4>1, Zenon DEF Reading
      <4>3. g \in Trx /\ Awaited(g, r) => Awaited(g, r)'
        BY <1>1, <1>3, Zenon DEF Awaited
      <4> QED
        BY <4>2, <4>3, Zenon DEF ReadRight
    <3> QED
      BY <3>1, <3>2, Zenon
  <2>3. \A u \in Trx : (Stamped(u)' <=> Stamped(u)) /\ (Live(u)' <=> Live(u))
    BY <1>1, Zenon DEF Stamped, Failed, Live
  <2>4. ReadRight(r, j, g)'
    BY <1>1, <2>2, <2>3, Zenon DEF ReadRight
  <2> QED
    BY <2>1, <2>4, Zenon DEF ReadRight, Stamped, Failed, Awaited
<1> QED
  BY <1>7, <1>8, <1>9, <1>10, <1>11, Zenon DEF SInv

(* The status of the owner of an uncommitted version. *)
LEMMA OwnerStatus ==
  ASSUME IInv, SInv, NEW u \in Trx
  PROVE  /\ tst[u].st \in {"V", "C"} /\ ~ ReadOnly(u) => Stamped(u)
         /\ tst[u].st \in {"P", "A"} => ~ Live(u)
<1>1. TrxTypes /\ EndTypes /\ Statuses /\ NoWait /\ Phases
  BY Zenon DEF IInv, Types, SInv
<1>2. tst[u].st \in {"V", "C"} => plan[u] \in {"validate", "end"} /\ ~ Failed(u)
  BY <1>1, Zenon DEF Statuses, NoWait, TrxTypes, EndTypes, Failed, Phases
<1>3. Stamped(u) => tst[u].st # "P"
  BY <1>1 DEF Stamped, Statuses, EndTypes, Failed
<1> QED
  BY <1>2, <1>3 DEF Stamped, Live

LEMMA ReadSafe ==
  ASSUME OneWorker, IInv, SInv, NEW t \in Trx, NEW k \in Key, Read(t, k)
  PROVE  SInv'
<1> DEFINE vs == versions[k]
           i == CHOOSE j \in 1 .. Len(vs) : vs[j].ct <= bt[t] /\ (j = Len(vs) \/ bt[t] < vs[j + 1].ct)
<1>1. EndsOp(t, <<"read", k>>) /\ UNCHANGED <<tsVars, bt, tst, rctVars>>
  BY Zenon DEF Read
<1>2. /\ DataTypes /\ Standing /\ Versioned /\ Owned /\ Handed /\ NoTrx \notin Trx
  BY TrxAssumption, Zenon DEF IInv, Types, SInv
<1>3. i \in 1 .. Len(vs) /\ Visible(t, k, i)
  <2>1. bt[t] \in Nat
    BY TimeTypes, Zenon
  <2>2. \E j \in 1 .. Len(vs) : Ends(vs, bt[t], j)
    BY <1>2, <2>1, Zenon DEF Versioned
  <2> QED
    BY <2>2, Zenon DEF Ends, Visible
<1>4. IF tail[k] = t THEN Returns(t, k, t, {}, {})
      ELSE IF i = Len(vs) /\ tail[k] # NoTrx
           THEN TryPreReadUncommittedTail(t, k, vs[i], tail[k])
      ELSE IF ~ ReadOnly(t) /\ i < Len(vs) THEN AbortProcessing(t)
      ELSE Returns(t, k, vs[i].by, {}, {})
  BY Zenon DEF Read
<1> HIDE DEF i, vs
<1>5. PICK f : f = vs[i].by
  BY Zenon
<1>6. /\ f \in Trx \cup {NoTrx}
      /\ f # NoTrx => /\ f \in Trx /\ k \in Writes[f] /\ Stamped(f) /\ tst[f].ct < bt[t]
                      /\ outcome[f] = "commit" /\ vs[i].ct = tst[f].ct
      /\ \A u \in Trx : Live(u) /\ k \in Writes[u] /\ tst[u].ct < bt[t] /\ tail[k] # u
           => f # NoTrx /\ tst[u].ct <= tst[f].ct
  <2>1. LastWriter(t, k, versions[k][i])
    BY <1>3, VisibleRight, Zenon DEF vs
  <2>2. LastWriter(t, k, vs[i])
    BY <2>1, Zenon DEF vs
  <2> QED
    BY <1>5, <2>2, Zenon DEF LastWriter
<1>7. ASSUME NEW newHetero, Returns(t, k, f, {}, newHetero),
             tail[k] # NoTrx => ~ Live(tail[k]) \/ ~ (tst[tail[k]].ct < bt[t])
      PROVE  SInv'
  <2>1. Right(t, k, f, {})
    BY <1>2, <1>6, <1>7, Zenon DEF Right
  <2>2. {} \in SUBSET Trx
    BY Zenon
  <2> QED
    BY <1>1, <1>6, <1>7, <2>1, <2>2, ReturnsSafe, Zenon
<1>8. CASE AbortProcessing(t)
  BY <1>1, <1>8, FailSafe, Zenon
<1>9. CASE Returns(t, k, t, {}, {})
  <2>1. {} \in SUBSET Trx /\ t \in Trx \cup {NoTrx} /\ t = t
    BY Zenon
  <2> QED
    BY <1>1, <1>9, <2>1, ReturnsSafe, Zenon
<1>10. CASE tail[k] = NoTrx /\ Returns(t, k, f, {}, {})
  BY <1>7, <1>10, Zenon
<1>11. CASE i < Len(vs) /\ Returns(t, k, f, {}, {})
  <2>1. tail[k] # NoTrx /\ Live(tail[k]) => ~ (tst[tail[k]].ct < bt[t])
    <3> SUFFICES ASSUME tail[k] # NoTrx, Live(tail[k]) PROVE ~ (tst[tail[k]].ct < bt[t])
      BY Zenon
    <3>1. tail[k] \in Trx /\ LastCt(k) < tst[tail[k]].ct
      BY <1>2, Zenon DEF Standing, Live, DataTypes
    <3>2. /\ Len(vs) \in Nat /\ vs \in Seq(Version) /\ i \in 1 .. Len(vs)
          /\ LastCt(k) = vs[Len(vs)].ct /\ LastCt(k) \in Nat /\ bt[t] \in Nat /\ tst[tail[k]].ct \in Nat
      BY <1>2, <1>3, <3>1, LastCtType, TimeTypes, Zenon DEF vs, LastCt
    <3>3. i + 1 \in 1 .. Len(vs) /\ Len(vs) \in 1 .. Len(vs) /\ (i + 1 = Len(vs) \/ i + 1 < Len(vs)) /\ i # Len(vs)
      BY <1>11, <3>2
    <3>4. bt[t] < vs[i + 1].ct
      BY <1>3, <3>3, Zenon DEF Visible, Ends, vs
    <3>5. vs[i + 1].ct = LastCt(k) \/ vs[i + 1].ct < LastCt(k)
      BY <1>2, <3>2, <3>3, Zenon DEF Versioned, vs
    <3>6. vs[i + 1].ct \in Nat
      <4>1. vs[i + 1] \in Version
        BY <3>2, <3>3
      <4> QED
        BY <4>1, Zenon DEF Version
    <3> QED
      BY <3>1, <3>2, <3>4, <3>5, <3>6
  <2> QED
    BY <1>7, <1>11, <2>1, Zenon
<1>12. CASE i = Len(vs) /\ tail[k] # NoTrx /\ tail[k] # t /\ TryPreReadUncommittedTail(t, k, vs[i], tail[k])
  <2>1. PICK u \in Trx : u = tail[k]
    BY <1>2, <1>12, Zenon DEF DataTypes
  <2>2. k \in Writes[u] /\ ~ ReadOnly(u) /\ bt[t] \in Nat /\ tst[u].ct \in Nat
    BY <1>2, <1>12, <2>1, TimeTypes, Zenon DEF Owned, ReadOnly
  <2>3. bt[t] > tst[u].ct <=> tst[u].ct < bt[t]
    BY <2>2
  <2>4. \/ AbortProcessing(t)
        \/ tst[u].st \in {"V", "C"} /\ tst[u].ct < bt[t]
             /\ \E newHomo \in {{}, {u}} : (tst[u].st = "V" => newHomo = {u}) /\ Returns(t, k, u, newHomo, {})
        \/ (tst[u].st \in {"P", "A"} \/ ~ (tst[u].ct < bt[t])) /\ \E newHetero : Returns(t, k, f, {}, newHetero)
    BY <1>5, <1>12, <2>1, <2>3, Zenon DEF TryPreReadUncommittedTail
  <2>5. CASE (tst[u].st \in {"P", "A"} \/ ~ (tst[u].ct < bt[t])) /\ \E newHetero : Returns(t, k, f, {}, newHetero)
    BY <1>7, <2>1, <2>5, OwnerStatus, Zenon
  <2>6. CASE tst[u].st \in {"V", "C"} /\ tst[u].ct < bt[t]
             /\ \E newHomo \in {{}, {u}} : (tst[u].st = "V" => newHomo = {u}) /\ Returns(t, k, u, newHomo, {})
    <3>1. PICK newHomo \in {{}, {u}} : (tst[u].st = "V" => newHomo = {u}) /\ Returns(t, k, u, newHomo, {})
      BY <2>6, Zenon
    <3>2. Stamped(u)
      BY <2>2, <2>6, OwnerStatus, Zenon
    <3>3. outcome[u] = "commit" \/ u \in newHomo
      BY <2>6, <3>1, CommittedStatus, Zenon
    <3>4. \A r \in Trx \ {t} : Live(r) /\ k \in Writes[r] /\ tst[r].ct < bt[t] => tst[r].ct <= tst[u].ct
      <4> SUFFICES ASSUME NEW r \in Trx, Live(r), k \in Writes[r], tst[r].ct < bt[t] PROVE tst[r].ct <= tst[u].ct
        BY Zenon
      <4>1. CASE r = u
        BY <2>2, <4>1
      <4>2. CASE r # u
        <5>1. f # NoTrx /\ tst[r].ct <= tst[f].ct /\ vs[i].ct = tst[f].ct /\ f \in Trx
          BY <1>6, <2>1, <4>2, Zenon
        <5>2. vs[i].ct < tst[u].ct
          BY <1>2, <1>12, <2>1, <3>2, Zenon DEF Standing, LastCt, vs
        <5>3. tst[f].ct \in Nat /\ tst[r].ct \in Nat
          BY <5>1, TimeTypes, Zenon
        <5> QED
          BY <2>2, <5>1, <5>2, <5>3
      <4> QED
        BY <4>1, <4>2, Zenon
    <3>5. Right(t, k, u, newHomo)
      BY <1>2, <2>2, <2>6, <3>2, <3>3, <3>4, Zenon DEF Right
    <3>6. newHomo \in SUBSET Trx /\ u \in Trx \cup {NoTrx}
      BY <3>1, Zenon
    <3> QED
      BY <1>1, <3>1, <3>5, <3>6, ReturnsSafe, Zenon
  <2> QED
    BY <1>8, <2>4, <2>5, <2>6, Zenon
<1>13. tail[k] # t /\ ~ (i = Len(vs) /\ tail[k] # NoTrx) => i < Len(vs) \/ tail[k] = NoTrx
  <2>1. i \in 1 .. Len(vs) /\ Len(vs) \in Nat
    BY <1>2, <1>3, LastCtType, Zenon DEF vs
  <2> QED
    BY <2>1
<1> QED
  BY <1>4, <1>5, <1>8, <1>9, <1>10, <1>11, <1>12, <1>13, Zenon

-----------------------------------------------------------------------------
LEMMA StepSafe == OneWorker /\ IInv /\ SInv /\ [Next]_vars => SInv'
<1> SUFFICES ASSUME OneWorker, IInv, SInv, [Next]_vars PROVE SInv'
  BY Zenon
<1>1. CASE UNCHANGED vars \/ Idle
  BY <1>1, UnchangedSafe, Zenon DEF Idle
<1>2. ASSUME NEW t \in Trx, \/ ProcessTimestampRequest(t) \/ RegisterValidation(t)
                            \/ PostValidation(t) \/ ReplyClient(t)
      PROVE  SInv'
  BY <1>2, AllocateSafe, RegisterSafe, PostValidationSafe, ReplyClientSafe, Zenon
<1>3. ASSUME NEW w \in Worker, BeginTime(w) \/ CommitTime(w)
      PROVE  SInv'
  BY <1>3, BeginTimeSafe, CommitTimeSafe, Zenon
<1>4. ASSUME NEW w \in Worker, NEW t \in Trx,
             \/ ProcessQueryRCTRequest(w, t)
             \/ StartValidation(w, t) \/ StepValidation(w, t)
             \/ ValidOptimisticValidation(w, t) \/ ValidOptimisticRead(w, t)
             \/ Exit(w, t)
      PROVE  SInv'
  <2>1. ~ ProcessQueryRCTRequest(w, t)
    BY NeverAsks, Zenon DEF ProcessQueryRCTRequest
  <2> QED
    BY <1>4, <2>1, ValidationSafe, ExitSafe, Zenon
<1>5. ASSUME NEW t \in Trx, NEW op \in Ops(t), Execute(t, op)
      PROVE  SInv'
  BY <1>5, ExecuteSafe, Zenon
<1>6. ASSUME NEW t \in Trx, NEW k \in Key, Read(t, k) \/ Write(t, k) \/ TerminateVersion(t, k)
      PROVE  SInv'
  BY <1>6, ReadSafe, WriteSafe, TerminateVersionSafe, Zenon
<1>7. ASSUME NEW a \in answers, RecvRCTTids(a)
      PROVE  SInv'
  BY <1>7, NeverAsks, Zenon
<1>8. ASSUME NEW u \in updates, ProcessTrxTableWriteReqs(u)
      PROVE  SInv'
  BY <1>8, StatusUpdateSafe, Zenon
<1> QED
  BY <1>1, <1>2, <1>3, <1>4, <1>5, <1>6, <1>7, <1>8, Zenon DEF Next

(* OneWorkerSerializable: with one worker, which takes its timestamps from *)
(* its queue in the order of the clock and puts each commit time into the  *)
(* RCT before it looks there itself (ProcessAllocatedTimestamp), the       *)
(* committed transactions are serializable in the order of their commit    *)
(* times: the validation of a transaction sees every one that committed a  *)
(* version it should have read, and what it pre-read from an uncommitted   *)
(* tail has committed before it commits.  This holds for any transactions  *)
(* and keys, with and without optimistic pre-read, optimistic validation   *)
(* and the locks of the debug build.                                       *)
THEOREM OneWorkerSerializable ==
  ASSUME OneWorker
  PROVE  Spec => []SerializableInCommitOrder
<1>1. Init => SInv
  BY InitSInv
<1>2. IInv /\ SInv /\ [Next]_vars => SInv'
  BY StepSafe, Zenon
<1>3. IInv /\ SInv => SerializableInCommitOrder
  BY SerialOrder, Zenon
<1>4. Spec => []IInv
  BY AlwaysIInv
<1> QED
  BY <1>1, <1>2, <1>3, <1>4, PTL DEF Spec

=============================================================================
