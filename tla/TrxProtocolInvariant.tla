------------------------ MODULE TrxProtocolInvariant ------------------------
(***************************************************************************)
(* The inductive invariant of TrxProtocol, for any workers, transactions   *)
(* and keys, and that the operations, the steps of the validation and of   *)
(* the termination, and those in which a transaction fails, preserve it.   *)
(***************************************************************************)
EXTENDS TrxProtocol, TLAPS

Status == {"none", "P", "V", "C", "A"}
Stamp == [trx : Trx, type : {"begin", "commit"}, ts : Nat]
Version == [by : Trx \cup {NoTrx}, ct : Nat]

(* The types, without a bound on the timestamps. *)
TsTypes ==
  /\ clock \in Nat
  /\ pending_ts \in [Worker -> Seq(Stamp)]

TrxTypes ==
  /\ plan \in [Trx -> {"parsed", "begin", "run", "request", "commit", "validate", "abort", "end"}]
  /\ bt \in [Trx -> Nat]
  /\ tst \in [Trx -> [st : Status, ct : Nat]]
  /\ updates \subseteq Trx \X {"C", "A"}

RctTypes ==
  /\ rct \in [Worker -> SUBSET (Nat \X Trx)]
  /\ queries \subseteq Worker \X Trx
  /\ answers \subseteq Worker \X Trx \X SUBSET Trx
  /\ rct_list \in [Trx -> SUBSET Trx]
  /\ collected \in [Trx -> SUBSET Worker]

DataTypes ==
  /\ executing \in [Trx -> SUBSET ({"read", "write"} \X Key)]
  /\ done \in [Trx -> SUBSET ({"read", "write"} \X Key)]
  /\ versions \in [Key -> Seq(Version)]
  /\ tail \in [Key -> Trx \cup {NoTrx}]
  /\ homo \in [Worker -> [Trx -> SUBSET Trx]]

EndTypes ==
  /\ vote \in [Worker -> [Trx -> {"none", "start", "step", "opt", "homo", "commit", "abort"}]]
  /\ opt \in [Worker -> [Trx -> SUBSET Trx]]
  /\ term \in [Worker -> [Trx -> {"none", "init", "abort", "commit", "exit"}]]
  /\ outcome \in [Trx -> {"none", "commit", "abort"}]

Types == TsTypes /\ TrxTypes /\ RctTypes /\ DataTypes /\ EndTypes

(* An operation runs at most once, and none runs before the begin time is  *)
(* there or after the last one has returned.                               *)
Phases ==
  \A t \in Trx :
    /\ executing[t] \cup done[t] \subseteq Ops(t)
    /\ executing[t] \cap done[t] = {}
    /\ plan[t] \in {"parsed", "begin"} => executing[t] = {} /\ done[t] = {}
    /\ plan[t] \in {"request", "commit", "validate"} => done[t] = Ops(t)
    /\ outcome[t] # "none" => plan[t] \in {"validate", "end"} /\ done[t] = Ops(t)

(* A transaction that failed before its validation. *)
Failed(t) == outcome[t] = "none" /\ plan[t] \in {"abort", "end"}

(* The status table knows where a transaction stands. *)
Statuses ==
  \A t \in Trx :
    /\ plan[t] \in {"parsed", "begin"} => tst[t].st = "none"
    /\ plan[t] \in {"run", "request"} => tst[t].st = "P"
    /\ plan[t] = "commit" => tst[t].st \in {"P", "V"}
    /\ Failed(t) => tst[t].st \in {"P", "A"}
    /\ plan[t] = "validate" /\ outcome[t] = "none" => tst[t].st \in {"V", "A"}
    /\ outcome[t] = "abort" => tst[t].st \in {"V", "A"}
    /\ outcome[t] = "commit" => tst[t].st \in {"V", "C"}

(* The updates under way.  An abort that validation has recorded has a     *)
(* vote against the transaction.                                           *)
Updating ==
  \A t \in Trx :
    /\ <<t, "A">> \in updates
         => plan[t] \in {"validate", "abort", "end"} /\ outcome[t] # "commit"
    /\ <<t, "C">> \in updates => outcome[t] = "commit" /\ tst[t].st = "V"
    /\ plan[t] = "validate" /\ (<<t, "A">> \in updates \/ tst[t].st = "A")
         => \E w \in Worker : vote[w][t] = "abort"

(* Votes are cast in the validation, and the outcome follows from them. *)
Voting ==
  \A t \in Trx :
    /\ outcome[t] = "none" /\ plan[t] # "validate" => \A w \in Worker : vote[w][t] = "none"
    /\ plan[t] = "validate" => \A w \in Worker : vote[w][t] # "none"
    /\ outcome[t] # "none" => \A w \in Worker : vote[w][t] \in {"commit", "abort"}
    /\ outcome[t] = "commit" => \A w \in Worker : vote[w][t] = "commit"

(* Termination follows the outcome or the abort statement. *)
Terminating ==
  \A t \in Trx :
    /\ plan[t] \notin {"abort", "end"} /\ outcome[t] = "none" => \A w \in Worker : term[w][t] = "none"
    /\ plan[t] = "abort" => \A w \in Worker : term[w][t] \in {"init", "exit"}
    /\ outcome[t] # "none" => \A w \in Worker : term[w][t] \in {outcome[t], "exit"}
    /\ plan[t] = "end" => \A w \in Worker : term[w][t] = "exit"

(* A worker that has terminated an aborted transaction has seen its status *)
(* and has waited for its operations.                                      *)
Left ==
  \A t \in Trx : Failed(t) =>
    \A w \in Worker : term[w][t] = "exit"
      => tst[t].st = "A" /\ (Locks => \A op \in executing[t] : Place[op[2]] # w)

(* A timestamp is handed out once, to a transaction that asked for it. *)
Elems(s) == {s[i] : i \in 1 .. Len(s)}
Distinct(s) == \A i, j \in 1 .. Len(s) : s[i].trx = s[j].trx => i = j
Queue(w) == Elems(pending_ts[w])

Pending ==
  \A w \in Worker :
    /\ Distinct(pending_ts[w])
    /\ \A a \in Queue(w) :
         /\ Home[a.trx] = w
         /\ a.ts <= clock
         /\ a.type = "begin" => plan[a.trx] = "begin"
         /\ a.type = "commit" => plan[a.trx] = "commit" /\ tst[a.trx].st = "P"

(* The commit time of the status table does not change any more. *)
CtFixed(t) == plan[t] \in {"validate", "abort", "end"} \/ (plan[t] = "commit" /\ tst[t].st = "V")

(* Each worker answers the RCT query of a transaction once. *)
Asks(w, t) == plan[t] = "commit" /\ tst[t].st = "V" /\ w \notin collected[t]

Asked ==
  /\ \A q \in queries : Asks(q[1], q[2])
  /\ \A a \in answers : Asks(a[1], a[2]) /\ <<a[1], a[2]>> \notin queries
  /\ \A a, b \in answers : a[1] = b[1] /\ a[2] = b[2] => a = b
  /\ \A t \in Trx : collected[t] # {} => CtFixed(t)

(* The RCT holds commit times, and its answers earlier ones. *)
Earlier(s, t) == \A r \in s : CtFixed(r) /\ tst[r].ct < tst[t].ct

Recent ==
  /\ \A w \in Worker : \A e \in rct[w] : CtFixed(e[2]) /\ tst[e[2]].ct = e[1]
  /\ \A a \in answers : Earlier(a[3], a[2])
  /\ \A t \in Trx : rct_list[t] # {} => CtFixed(t) /\ Earlier(rct_list[t], t)
  /\ \A w \in Worker, t \in Trx : opt[w][t] \subseteq rct_list[t]

(* Versions read ahead of their commit have earlier commit times. *)
ReadAhead ==
  \A w \in Worker, t \in Trx : homo[w][t] # {} =>
    /\ plan[t] \notin {"parsed", "begin"}
    /\ \A r \in homo[w][t] : CtFixed(r) /\ tst[r].ct < bt[t]

(* Every time is one the clock has handed out. *)
LastCt(k) == versions[k][Len(versions[k])].ct

Handed ==
  /\ \A t \in Trx : bt[t] <= clock /\ tst[t].ct <= clock
  /\ \A k \in Key : Len(versions[k]) >= 1 /\ LastCt(k) <= clock

(* A transaction whose versions are committed with the time in the table. *)
Timed(t) == plan[t] = "validate" \/ (plan[t] = "commit" /\ tst[t].st = "V")

(* An uncommitted version was written by a transaction with that write,    *)
(* before it had a commit time, after the last committed version.          *)
Owned ==
  \A k \in Key : tail[k] # NoTrx =>
    /\ k \in Writes[tail[k]]
    /\ Timed(tail[k]) => LastCt(k) < tst[tail[k]].ct
    /\ \A w \in Worker : \A a \in Queue(w) :
         a.trx = tail[k] /\ a.type = "commit" => LastCt(k) < a.ts

Orphans == Locks => NoOrphanVersion

IInv ==
  /\ Types
  /\ Phases /\ Statuses /\ Updating /\ Voting /\ Terminating /\ Left
  /\ Pending /\ Asked /\ Recent /\ ReadAhead /\ Handed
  /\ Owned /\ VersionsInCommitOrder /\ Orphans

-----------------------------------------------------------------------------
LEMMA InitInv == Init => IInv
<1> SUFFICES ASSUME Init PROVE IInv
  BY Zenon
<1> USE DEF Init
<1>1. Types
  <2>1. <<[by |-> NoTrx, ct |-> 0]>> \in Seq(Version)
    BY DEF Version
  <2> QED
    BY <2>1 DEF Types, TsTypes, TrxTypes, RctTypes, DataTypes, EndTypes, Status
<1>2. Phases /\ Statuses /\ Updating
  BY Zenon DEF Phases, Statuses, Updating, Failed
<1>3. Voting /\ Terminating /\ Left
  BY Zenon DEF Voting, Terminating, Left, Failed
<1>4. \A w \in Worker : Queue(w) = {} /\ Distinct(pending_ts[w])
  BY DEF Queue, Elems, Distinct
<1>5. Pending
  BY <1>4, Zenon DEF Pending
<1>6. Asked /\ Recent /\ ReadAhead /\ Handed
  BY DEF Asked, Recent, ReadAhead, Handed, LastCt
<1>7. Owned /\ VersionsInCommitOrder /\ Orphans
  BY DEF Owned, VersionsInCommitOrder, Orphans, NoOrphanVersion
<1> QED
  BY <1>1, <1>2, <1>3, <1>5, <1>6, <1>7, Zenon DEF IInv

-----------------------------------------------------------------------------
(* The queue of timestamps. *)
LEMMA QueueAppend ==
  ASSUME NEW s \in Seq(Stamp), NEW a \in Stamp, Distinct(s), \A e \in Elems(s) : e.trx # a.trx
  PROVE  /\ Append(s, a) \in Seq(Stamp)
         /\ Elems(Append(s, a)) = Elems(s) \cup {a}
         /\ Distinct(Append(s, a))
<1> DEFINE n == Len(s)
           r == Append(s, a)
<1>1. /\ r \in Seq(Stamp) /\ n \in Nat /\ Len(r) = n + 1 /\ r[n + 1] = a
      /\ \A i \in 1 .. n : r[i] = s[i]
  OBVIOUS
<1>2. \A i \in 1 .. n : s[i] \in Elems(s)
  BY Zenon DEF Elems
<1> HIDE DEF n, r
<1>3. \A i \in 1 .. n + 1 : i \in 1 .. n \/ i = n + 1
  BY <1>1
<1>4. \A i \in 1 .. n : i \in 1 .. n + 1
  BY <1>1
<1>5. n + 1 \in 1 .. n + 1
  BY <1>1
<1>6. Elems(r) = Elems(s) \cup {a}
  BY <1>1, <1>3, <1>4, <1>5, Zenon DEF Elems, n
<1>7. Distinct(r)
  <2> SUFFICES ASSUME NEW i \in 1 .. n + 1, NEW j \in 1 .. n + 1, r[i].trx = r[j].trx PROVE i = j
    BY <1>1, Zenon DEF Distinct
  <2> QED
    BY <1>1, <1>2, <1>3, Zenon DEF Distinct, n
<1> QED
  BY <1>1, <1>6, <1>7, Zenon DEF r

LEMMA QueueTail ==
  ASSUME NEW s \in Seq(Stamp), s # <<>>, Distinct(s)
  PROVE  /\ Tail(s) \in Seq(Stamp) /\ Head(s) \in Elems(s)
         /\ Elems(Tail(s)) \subseteq Elems(s) /\ Distinct(Tail(s))
         /\ \A e \in Elems(Tail(s)) : e.trx # Head(s).trx
<1>1. /\ Tail(s) \in Seq(Stamp) /\ Len(s) \in Nat /\ Len(s) >= 1 /\ Len(Tail(s)) = Len(s) - 1
      /\ \A i \in 1 .. Len(s) - 1 : Tail(s)[i] = s[i + 1] /\ i + 1 \in 1 .. Len(s) /\ i + 1 # 1
      /\ Head(s) = s[1] /\ 1 \in 1 .. Len(s)
  OBVIOUS
<1>2. Head(s) \in Elems(s) /\ Elems(Tail(s)) \subseteq Elems(s)
  BY <1>1 DEF Elems
<1>3. Distinct(Tail(s))
  <2> SUFFICES ASSUME NEW i \in 1 .. Len(s) - 1, NEW j \in 1 .. Len(s) - 1, Tail(s)[i].trx = Tail(s)[j].trx
               PROVE  i = j
    BY <1>1, Zenon DEF Distinct
  <2>1. i + 1 = j + 1
    BY <1>1 DEF Distinct
  <2> QED
    BY <1>1, <2>1
<1>4. \A e \in Elems(Tail(s)) : e.trx # Head(s).trx
  BY <1>1 DEF Elems, Distinct
<1> QED
  BY <1>1, <1>2, <1>3, <1>4, Zenon

LEMMA QueueTypes ==
  ASSUME TsTypes, NEW w \in Worker
  PROVE  /\ pending_ts[w] \in Seq(Stamp)
         /\ \A a \in Queue(w) : a \in Stamp /\ a.trx \in Trx /\ a.type \in {"begin", "commit"} /\ a.ts \in Nat
<1>1. pending_ts[w] \in Seq(Stamp)
  BY Zenon DEF TsTypes
<1>2. \A i \in 1 .. Len(pending_ts[w]) : pending_ts[w][i] \in Stamp
  BY <1>1
<1> QED
  BY <1>1, <1>2, Zenon DEF Queue, Elems, Stamp

LEMMA LastCtType ==
  ASSUME DataTypes, Handed, NEW k \in Key
  PROVE  /\ versions[k] \in Seq(Version) /\ Len(versions[k]) \in Nat /\ Len(versions[k]) >= 1
         /\ LastCt(k) \in Nat
<1>1. versions[k] \in Seq(Version) /\ Len(versions[k]) \in Nat /\ Len(versions[k]) >= 1
  BY DEF DataTypes, Handed
<1>2. versions[k][Len(versions[k])] \in Version
  BY <1>1
<1> QED
  BY <1>1, <1>2, Zenon DEF Version, LastCt

-----------------------------------------------------------------------------
(* The commit times of the status table stay. *)
FixedStays == \A t \in Trx : CtFixed(t) => CtFixed(t)' /\ tst'[t].ct = tst[t].ct

LEMMA EarlierStays ==
  ASSUME FixedStays, NEW s \in SUBSET Trx, NEW t \in Trx, CtFixed(t), Earlier(s, t)
  PROVE  CtFixed(t)' /\ Earlier(s, t)'
BY Zenon DEF FixedStays, Earlier

LEMMA AnswerTypes ==
  ASSUME RctTypes, Asked, NEW a \in answers
  PROVE  a[1] \in Worker /\ a[2] \in Trx /\ a[3] \in SUBSET Trx /\ CtFixed(a[2])
BY Zenon DEF RctTypes, Asked, Asks, CtFixed

LEMMA RecentFrame ==
  ASSUME RctTypes, Asked, Recent, FixedStays, UNCHANGED <<rct, answers, rct_list>>,
         \A w \in Worker, t \in Trx : opt'[w][t] \subseteq rct_list[t]
  PROVE  Recent'
<1>1. \A w \in Worker : \A e \in rct[w] : CtFixed(e[2])' /\ tst'[e[2]].ct = e[1]
  BY DEF RctTypes, Recent, FixedStays
<1>2. \A a \in answers : Earlier(a[3], a[2])'
  BY AnswerTypes, EarlierStays, Zenon DEF Recent
<1>3. \A t \in Trx : rct_list[t] # {} => CtFixed(t)' /\ Earlier(rct_list[t], t)'
  BY EarlierStays, Zenon DEF Recent, RctTypes
<1> QED
  BY <1>1, <1>2, <1>3, Zenon DEF Recent, Earlier

LEMMA ReadAheadFrame ==
  ASSUME DataTypes, ReadAhead, FixedStays, UNCHANGED bt,
         \A w \in Worker, t \in Trx : homo'[w][t] \subseteq homo[w][t],
         \A t \in Trx : plan[t] \notin {"parsed", "begin"} => plan'[t] \notin {"parsed", "begin"}
  PROVE  ReadAhead'
<1> SUFFICES ASSUME NEW w \in Worker, NEW t \in Trx, homo'[w][t] # {}
             PROVE  /\ plan'[t] \notin {"parsed", "begin"}
                    /\ \A r \in homo'[w][t] : CtFixed(r)' /\ tst'[r].ct < bt'[t]
  BY Zenon DEF ReadAhead
<1>1. homo[w][t] \subseteq Trx
  BY DEF DataTypes
<1> QED
  BY <1>1, Zenon DEF ReadAhead, FixedStays

(* A step that allocates no time and collects no answer. *)
Steady ==
  /\ UNCHANGED <<clock, pending_ts, bt, rct, queries, answers, rct_list, collected>>
  /\ \A t \in Trx : plan[t] \in {"begin", "commit"} => plan'[t] = plan[t] /\ tst'[t] = tst[t]
  /\ \A t \in Trx : plan[t] \in {"validate", "abort", "end"}
       => plan'[t] \in {"validate", "abort", "end"} /\ tst'[t].ct = tst[t].ct
  /\ \A t \in Trx : plan[t] \in {"run", "request"} => plan'[t] \notin {"parsed", "begin"}

LEMMA SteadyTimes ==
  ASSUME IInv, Steady,
         \A w \in Worker, t \in Trx : opt'[w][t] \subseteq rct_list[t],
         \A w \in Worker, t \in Trx : homo'[w][t] \subseteq homo[w][t]
  PROVE  Pending' /\ Asked' /\ Recent' /\ ReadAhead'
<1>1. Types /\ TsTypes /\ TrxTypes /\ RctTypes /\ DataTypes /\ Pending /\ Asked /\ Recent /\ ReadAhead
  BY Zenon DEF IInv, Types
<1>2. FixedStays
  BY Zenon DEF FixedStays, CtFixed, Steady
<1>3. \A w \in Worker : Queue(w)' = Queue(w) /\ pending_ts'[w] = pending_ts[w]
  BY Zenon DEF Steady, Queue
<1>4. Pending'
  BY <1>1, <1>3, QueueTypes DEF Pending, Steady
<1>5. \A w \in Worker, t \in Trx : Asks(w, t) => Asks(w, t)'
  BY Zenon DEF Asks, Steady
<1>6. Asked'
  BY <1>1, <1>2, <1>5, Zenon DEF Asked, Steady, RctTypes, FixedStays
<1>7. Recent'
  BY <1>1, <1>2, RecentFrame, Zenon DEF Steady
<1>8. \A t \in Trx : plan[t] \notin {"parsed", "begin"} => plan'[t] \notin {"parsed", "begin"}
  BY <1>1, Zenon DEF Steady, TrxTypes
<1>9. ReadAhead'
  BY <1>1, <1>2, <1>8, ReadAheadFrame, Zenon DEF Steady
<1> QED
  BY <1>4, <1>6, <1>7, <1>9, Zenon

(* What a step leaves alone stays as it was. *)
LEMMA TypeFrames ==
  /\ TsTypes /\ UNCHANGED <<clock, pending_ts>> => TsTypes'
  /\ TrxTypes /\ UNCHANGED <<plan, bt, tst, updates>> => TrxTypes'
  /\ RctTypes /\ UNCHANGED <<rct, queries, answers, rct_list, collected>> => RctTypes'
  /\ DataTypes /\ UNCHANGED <<executing, done, versions, tail, homo>> => DataTypes'
  /\ EndTypes /\ UNCHANGED <<vote, opt, term, outcome>> => EndTypes'
<1>1. TsTypes /\ UNCHANGED <<clock, pending_ts>> => TsTypes'
  BY Zenon DEF TsTypes
<1>2. TrxTypes /\ UNCHANGED <<plan, bt, tst, updates>> => TrxTypes'
  BY Zenon DEF TrxTypes
<1>3. RctTypes /\ UNCHANGED <<rct, queries, answers, rct_list, collected>> => RctTypes'
  BY Zenon DEF RctTypes
<1>4. DataTypes /\ UNCHANGED <<executing, done, versions, tail, homo>> => DataTypes'
  BY Zenon DEF DataTypes
<1>5. EndTypes /\ UNCHANGED <<vote, opt, term, outcome>> => EndTypes'
  BY Zenon DEF EndTypes
<1> QED
  BY <1>1, <1>2, <1>3, <1>4, <1>5, Zenon

LEMMA PlanFrames ==
  /\ Phases /\ UNCHANGED <<executing, done, plan, outcome>> => Phases'
  /\ Statuses /\ UNCHANGED <<plan, outcome, tst>> => Statuses'
  /\ Updating /\ UNCHANGED <<updates, plan, outcome, tst, vote>> => Updating'
  /\ Voting /\ UNCHANGED <<outcome, plan, vote>> => Voting'
  /\ Terminating /\ UNCHANGED <<plan, outcome, term>> => Terminating'
  /\ Left /\ UNCHANGED <<plan, outcome, term, tst, executing>> => Left'
<1>1. Phases /\ UNCHANGED <<executing, done, plan, outcome>> => Phases'
  BY Zenon DEF Phases
<1>2. Statuses /\ UNCHANGED <<plan, outcome, tst>> => Statuses'
  BY Zenon DEF Statuses, Failed
<1>3. Updating /\ UNCHANGED <<updates, plan, outcome, tst, vote>> => Updating'
  BY Zenon DEF Updating
<1>4. Voting /\ UNCHANGED <<outcome, plan, vote>> => Voting'
  BY Zenon DEF Voting
<1>5. Terminating /\ UNCHANGED <<plan, outcome, term>> => Terminating'
  BY DEF Terminating
<1>6. Left /\ UNCHANGED <<plan, outcome, term, tst, executing>> => Left'
  BY Zenon DEF Left, Failed
<1> QED
  BY <1>1, <1>2, <1>3, <1>4, <1>5, <1>6, Zenon

LEMMA ListFrames ==
  /\ Handed /\ UNCHANGED <<clock, bt, tst, versions>> => Handed'
  /\ Owned /\ UNCHANGED <<tail, versions, plan, tst, pending_ts>> => Owned'
  /\ VersionsInCommitOrder /\ UNCHANGED versions => VersionsInCommitOrder'
  /\ Orphans /\ UNCHANGED <<tail, term>> => Orphans'
<1>1. Handed /\ UNCHANGED <<clock, bt, tst, versions>> => Handed'
  BY Zenon DEF Handed, LastCt
<1>2. Owned /\ UNCHANGED <<tail, versions, plan, tst, pending_ts>> => Owned'
  BY Zenon DEF Owned, Timed, LastCt, Queue
<1>3. VersionsInCommitOrder /\ UNCHANGED versions => VersionsInCommitOrder'
  BY Zenon DEF VersionsInCommitOrder
<1>4. Orphans /\ UNCHANGED <<tail, term>> => Orphans'
  BY Zenon DEF Orphans, NoOrphanVersion
<1> QED
  BY <1>1, <1>2, <1>3, <1>4, Zenon

LEMMA SteadyFrame ==
  ASSUME IInv, Steady, UNCHANGED <<opt, homo>>
  PROVE  Pending' /\ Asked' /\ Recent' /\ ReadAhead'
<1>1. \A w \in Worker, t \in Trx : opt'[w][t] \subseteq rct_list[t]
  BY Zenon DEF IInv, Recent
<1> QED
  BY <1>1, SteadyTimes, Zenon

LEMMA SteadyStep ==
  ASSUME UNCHANGED <<clock, pending_ts, plan, bt, tst, rct, queries, answers, rct_list, collected>>
  PROVE  Steady
BY Zenon DEF Steady

(* A step that leaves the version lists alone. *)
LEMMA ListsFrame ==
  ASSUME IInv, UNCHANGED <<clock, pending_ts, bt, versions, tail>>,
         \A t \in Trx : tst'[t].ct = tst[t].ct,
         \A t \in Trx : Timed(t)' => Timed(t),
         \A w \in Worker, t \in Trx : term'[w][t] = "exit" => term[w][t] = "exit"
  PROVE  Handed' /\ Owned' /\ VersionsInCommitOrder' /\ Orphans'
<1>1. DataTypes /\ Handed /\ Owned /\ VersionsInCommitOrder /\ Orphans
  BY Zenon DEF IInv, Types
<1>2. \A k \in Key : LastCt(k)' = LastCt(k)
  BY Zenon DEF LastCt
<1>3. \A w \in Worker : Queue(w)' = Queue(w)
  BY Zenon DEF Queue
<1>4. Handed'
  BY <1>1, <1>2, Zenon DEF Handed
<1>5. Owned'
  <2> SUFFICES ASSUME NEW k \in Key, tail[k] # NoTrx
               PROVE  /\ k \in Writes[tail[k]]
                      /\ Timed(tail[k])' => LastCt(k) < tst'[tail[k]].ct
                      /\ \A w \in Worker : \A a \in Queue(w) :
                           a.trx = tail[k] /\ a.type = "commit" => LastCt(k) < a.ts
    BY <1>2, <1>3 DEF Owned, Timed
  <2>1. tail[k] \in Trx
    BY <1>1, Zenon DEF DataTypes
  <2> QED
    BY <1>1, <2>1, Zenon DEF Owned
<1>6. Orphans'
  BY <1>1, PlacementAssumption, Zenon DEF Orphans, NoOrphanVersion, DataTypes
<1> QED
  BY <1>1, <1>4, <1>5, <1>6, Zenon DEF VersionsInCommitOrder

-----------------------------------------------------------------------------
(* The end of an operation. *)
LEMMA EndsOpFacts ==
  ASSUME IInv, NEW t \in Trx, NEW op, EndsOp(t, op)
  PROVE  /\ op \in Ops(t) /\ op \in executing[t]
         /\ executing' \in [Trx -> SUBSET ({"read", "write"} \X Key)]
         /\ done' \in [Trx -> SUBSET ({"read", "write"} \X Key)]
         /\ executing'[t] = executing[t] \ {op} /\ done'[t] = done[t] \cup {op}
         /\ \A r \in Trx : r # t => executing'[r] = executing[r] /\ done'[r] = done[r]
         /\ plan[t] = "run" \/ Failed(t)
         /\ \A w \in Worker : Locks /\ Place[op[2]] = w => term[w][t] # "exit"
<1>1. DataTypes /\ TrxTypes /\ EndTypes /\ Phases /\ Terminating /\ Left
  BY Zenon DEF IInv, Types
<1>2. op \in executing[t] /\ op \in Ops(t) /\ op \notin done[t]
  BY <1>1, Zenon DEF EndsOp, Phases
<1>3. plan[t] = "run" \/ Failed(t)
  BY <1>1, <1>2, Zenon DEF Phases, Failed, TrxTypes
<1>4. \A w \in Worker : Locks /\ Place[op[2]] = w => term[w][t] # "exit"
  <2>1. CASE plan[t] = "run"
    BY <1>1, <2>1, Zenon DEF Terminating, Phases
  <2>2. CASE Failed(t)
    BY <1>1, <1>2, <2>2, Zenon DEF Left
  <2> QED
    BY <1>3, <2>1, <2>2, Zenon
<1>5. op \in {"read", "write"} \X Key
  BY <1>1, <1>2, Zenon DEF DataTypes
<1> QED
  BY <1>1, <1>2, <1>3, <1>4, <1>5, Zenon DEF EndsOp, DataTypes

(* An operation fails: the status is updated, and the abort statement goes *)
(* to every worker once.                                                   *)
LEMMA FailInv ==
  ASSUME IInv, NEW t \in Trx, NEW op, EndsOp(t, op), AbortProcessing(t),
         UNCHANGED <<tsVars, bt, tst, rctVars>>
  PROVE  IInv'
<1> USE DEF tsVars, rctVars
<1>1. /\ TsTypes /\ TrxTypes /\ RctTypes /\ DataTypes /\ EndTypes
      /\ Phases /\ Statuses /\ Updating /\ Voting /\ Terminating /\ Left /\ Recent
  BY Zenon DEF IInv, Types
<1>2. UNCHANGED <<versions, tail, from, homo, hetero, vote, opt, outcome>>
  BY Zenon DEF AbortProcessing
<1>3. /\ op \in Ops(t) /\ op \in executing[t]
      /\ executing' \in [Trx -> SUBSET ({"read", "write"} \X Key)]
      /\ done' \in [Trx -> SUBSET ({"read", "write"} \X Key)]
      /\ executing'[t] = executing[t] \ {op} /\ done'[t] = done[t] \cup {op}
      /\ \A r \in Trx : r # t => executing'[r] = executing[r] /\ done'[r] = done[r]
      /\ plan[t] = "run" \/ Failed(t)
  BY EndsOpFacts, Zenon
<1>4. /\ plan' \in [Trx -> {"parsed", "begin", "run", "request", "commit", "validate", "abort", "end"}]
      /\ plan'[t] = IF plan[t] = "run" THEN "abort" ELSE plan[t]
      /\ \A r \in Trx : r # t => plan'[r] = plan[r]
  BY <1>1, Zenon DEF AbortProcessing, TrxTypes
<1>5. /\ term' \in [Worker -> [Trx -> {"none", "init", "abort", "commit", "exit"}]]
      /\ \A w \in Worker : term'[w][t] = IF plan[t] = "run" THEN "init" ELSE term[w][t]
      /\ \A w \in Worker, r \in Trx : r # t => term'[w][r] = term[w][r]
  BY <1>1, Zenon DEF AbortProcessing, EndTypes
<1>6. /\ updates' \subseteq Trx \X {"C", "A"}
      /\ \A r \in Trx : <<r, "A">> \in updates' => <<r, "A">> \in updates \/ r = t
      /\ \A r \in Trx : <<r, "C">> \in updates' => <<r, "C">> \in updates
  BY <1>1 DEF AbortProcessing, TrxTypes
<1>7. outcome[t] = "none"
  BY <1>1, <1>3, Zenon DEF Phases, Failed, EndTypes
<1>8. Types'
  <2>1. TsTypes' /\ RctTypes'
    BY <1>1, TypeFrames, Zenon
  <2>2. TrxTypes'
    BY <1>1, <1>4, <1>6, Zenon DEF TrxTypes
  <2>3. DataTypes'
    BY <1>1, <1>2, <1>3, Zenon DEF DataTypes
  <2>4. EndTypes'
    BY <1>1, <1>2, <1>5, Zenon DEF EndTypes
  <2> QED
    BY <2>1, <2>2, <2>3, <2>4, Zenon DEF Types
<1>9. Phases'
  BY <1>1, <1>2, <1>3, <1>4, <1>7 DEF Phases, Failed
<1>10. Statuses'
  BY <1>1, <1>2, <1>3, <1>4, <1>7 DEF Statuses, Failed
<1>11. Updating'
  <2> SUFFICES ASSUME NEW r \in Trx
               PROVE  /\ <<r, "A">> \in updates'
                           => plan'[r] \in {"validate", "abort", "end"} /\ outcome[r] # "commit"
                      /\ <<r, "C">> \in updates' => outcome[r] = "commit" /\ tst[r].st = "V"
                      /\ plan'[r] = "validate" /\ (<<r, "A">> \in updates' \/ tst[r].st = "A")
                           => \E w \in Worker : vote[w][r] = "abort"
    BY <1>2, Zenon DEF Updating
  <2>1. CASE r = t
    <3>1. plan'[t] \in {"abort", "end"}
      BY <1>3, <1>4, Zenon DEF Failed
    <3>2. <<t, "C">> \notin updates
      BY <1>1, <1>7, Zenon DEF Updating
    <3> QED
      BY <1>6, <1>7, <2>1, <3>1, <3>2, Zenon
  <2>2. CASE r # t
    BY <1>1, <1>4, <1>6, <2>2, Zenon DEF Updating
  <2> QED
    BY <2>1, <2>2, Zenon
<1>12. Voting' /\ Terminating'
  <2>1. Voting'
    BY <1>1, <1>2, <1>3, <1>4, <1>7 DEF Voting, Failed
  <2>2. Terminating'
    <3> SUFFICES ASSUME NEW r \in Trx
                 PROVE  /\ plan'[r] \notin {"abort", "end"} /\ outcome[r] = "none"
                             => \A w \in Worker : term'[w][r] = "none"
                        /\ plan'[r] = "abort" => \A w \in Worker : term'[w][r] \in {"init", "exit"}
                        /\ outcome[r] # "none" => \A w \in Worker : term'[w][r] \in {outcome[r], "exit"}
                        /\ plan'[r] = "end" => \A w \in Worker : term'[w][r] = "exit"
      BY <1>2, Zenon DEF Terminating
    <3>1. CASE r = t
      BY <1>1, <1>3, <1>4, <1>5, <1>7, <3>1 DEF Terminating, Failed
    <3>2. CASE r # t
      BY <1>1, <1>4, <1>5, <3>2 DEF Terminating
    <3> QED
      BY <3>1, <3>2, Zenon
  <2> QED
    BY <2>1, <2>2, Zenon
<1>13. Left'
  BY <1>1, <1>2, <1>3, <1>4, <1>5, <1>7 DEF Left, Failed
<1>14. Steady
  BY <1>1, <1>3, <1>4, <1>7, Zenon DEF Steady, Failed
<1>15. Pending' /\ Asked' /\ Recent' /\ ReadAhead'
  BY <1>2, <1>14, SteadyFrame, Zenon
<1>16. \A r \in Trx : Timed(r)' => Timed(r)
  BY <1>3, <1>4, Zenon DEF Timed, Failed
<1>17. \A w \in Worker, r \in Trx : term'[w][r] = "exit" => term[w][r] = "exit"
  BY <1>5, Zenon
<1>18. Handed' /\ Owned' /\ VersionsInCommitOrder' /\ Orphans'
  BY <1>2, <1>16, <1>17, ListsFrame, Zenon
<1> QED
  BY <1>8, <1>9, <1>10, <1>11, <1>12, <1>13, <1>15, <1>18, Zenon DEF IInv

(* An operation starts: the status is not ABORT, so no worker has          *)
(* terminated the transaction.                                             *)
LEMMA ExecuteInv ==
  ASSUME IInv, NEW t \in Trx, NEW op \in Ops(t), Execute(t, op)
  PROVE  IInv'
<1> USE DEF tsVars, rctVars, endVars
<1>1. /\ TsTypes /\ TrxTypes /\ RctTypes /\ DataTypes /\ EndTypes
      /\ Phases /\ Statuses /\ Updating /\ Voting /\ Terminating /\ Left
      /\ Handed /\ Owned /\ VersionsInCommitOrder /\ Orphans
  BY Zenon DEF IInv, Types
<1>2. /\ plan[t] \in {"run", "abort"} /\ op \notin executing[t] \cup done[t] /\ tst[t].st # "A"
      /\ UNCHANGED <<tsVars, plan, bt, tst, updates, rctVars, done, versions, tail, from, homo, hetero,
                     endVars>>
  BY Zenon DEF Execute
<1>3. op \in {"read", "write"} \X Key
  BY PlacementAssumption, Zenon DEF Ops
<1>4. /\ executing' \in [Trx -> SUBSET ({"read", "write"} \X Key)]
      /\ executing'[t] = executing[t] \cup {op}
      /\ \A r \in Trx : r # t => executing'[r] = executing[r]
  BY <1>1, <1>3, Zenon DEF Execute, DataTypes
<1>5. Types'
  <2>1. TsTypes' /\ TrxTypes' /\ RctTypes' /\ EndTypes'
    BY <1>1, <1>2, TypeFrames, Zenon
  <2>2. DataTypes'
    BY <1>1, <1>2, <1>4, Zenon DEF DataTypes
  <2> QED
    BY <2>1, <2>2, Zenon DEF Types
<1>6. Phases'
  BY <1>1, <1>2, <1>4 DEF Phases
<1>7. Statuses' /\ Updating' /\ Voting' /\ Terminating'
  BY <1>1, <1>2, PlanFrames, Zenon
<1>8. Left'
  BY <1>1, <1>2, <1>4, ZenonT(30) DEF Left, Failed
<1>9. Pending' /\ Asked' /\ Recent' /\ ReadAhead'
  BY <1>2, SteadyStep, SteadyFrame, Zenon
<1>10. Handed' /\ Owned' /\ VersionsInCommitOrder' /\ Orphans'
  BY <1>1, <1>2, ListFrames, Zenon
<1> QED
  BY <1>5, <1>6, <1>7, <1>8, <1>9, <1>10, Zenon DEF IInv

-----------------------------------------------------------------------------
(* DataStorage::Commit and Abort of one list: the version of a committed   *)
(* transaction is younger than the ones in front of it.                    *)
LEMMA TerminateVersionInv ==
  ASSUME IInv, NEW t \in Trx, NEW k \in Key, TerminateVersion(t, k)
  PROVE  IInv'
<1> USE DEF tsVars, rctVars, endVars
<1>1. /\ TsTypes /\ TrxTypes /\ RctTypes /\ DataTypes /\ EndTypes
      /\ Phases /\ Statuses /\ Updating /\ Voting /\ Terminating /\ Left /\ Recent
      /\ Handed /\ Owned /\ VersionsInCommitOrder /\ Orphans
  BY Zenon DEF IInv, Types
<1>2. /\ tail[k] = t /\ tail' = [tail EXCEPT ![k] = NoTrx] /\ MayTerminate(Place[k], t)
      /\ UNCHANGED <<tsVars, plan, bt, tst, updates, rctVars, executing, done, from, homo, hetero,
                     endVars>>
      /\ versions' = IF term[Place[k]][t] = "commit"
                     THEN [versions EXCEPT ![k] = Append(@, [by |-> t, ct |-> tst[t].ct])]
                     ELSE versions
  BY Zenon DEF TerminateVersion
<1>3. Place[k] \in Worker /\ t # NoTrx /\ tst[t].ct \in Nat
  BY <1>1, PlacementAssumption, TrxAssumption, Zenon DEF TrxTypes
<1>4. term[Place[k]][t] = "commit" => plan[t] = "validate"
  BY <1>1, <1>3, Zenon DEF Terminating, TrxTypes, EndTypes, Phases
<1>5. term[Place[k]][t] = "commit" => LastCt(k) < tst[t].ct /\ tst[t].ct <= clock
  BY <1>1, <1>2, <1>3, <1>4, Zenon DEF Owned, Timed, Handed
<1>6. /\ versions[k] \in Seq(Version) /\ Len(versions[k]) \in Nat /\ Len(versions[k]) >= 1
      /\ LastCt(k) \in Nat
  BY <1>1, LastCtType, Zenon
<1> DEFINE a == [by |-> t, ct |-> tst[t].ct]
           n == Len(versions[k])
<1>7. a \in Version /\ a.ct = tst[t].ct
  BY <1>3, Zenon DEF Version
<1> HIDE DEF a
<1>8. /\ Handed' /\ VersionsInCommitOrder' /\ versions' \in [Key -> Seq(Version)]
      /\ \A j \in Key : j # k => LastCt(j)' = LastCt(j)
  <2>1. CASE term[Place[k]][t] = "commit"
    <3>1. versions' = [versions EXCEPT ![k] = Append(versions[k], a)]
      BY <1>2, <2>1, Zenon DEF a
    <3>2. /\ Append(versions[k], a) \in Seq(Version) /\ Len(Append(versions[k], a)) = n + 1
          /\ Append(versions[k], a)[n + 1] = a
          /\ \A i \in 1 .. n : Append(versions[k], a)[i] = versions[k][i]
      BY <1>6, <1>7
    <3>3. /\ versions'[k] = Append(versions[k], a)
          /\ \A j \in Key : j # k => versions'[j] = versions[j]
          /\ versions' \in [Key -> Seq(Version)]
      BY <1>1, <3>1, <3>2, Zenon DEF DataTypes
    <3>4. versions[k][n].ct = LastCt(k) /\ LastCt(k) < a.ct /\ a.ct <= clock
      BY <1>5, <1>7, <2>1, Zenon DEF LastCt
    <3>5. Len(versions'[k]) >= 1 /\ LastCt(k)' = a.ct
      BY <1>6, <3>2, <3>3 DEF LastCt
    <3>6. \A j \in Key : j # k => LastCt(j)' = LastCt(j)
      BY <3>3, Zenon DEF LastCt
    <3>7. Handed'
      BY <1>1, <1>2, <3>3, <3>4, <3>5, <3>6, Zenon DEF Handed
    <3>8. \A i \in 1 .. n : versions'[k][i].ct < versions'[k][i + 1].ct
      <4> SUFFICES ASSUME NEW i \in 1 .. n PROVE versions'[k][i].ct < versions'[k][i + 1].ct
        BY Zenon
      <4>1. CASE i = n
        BY <1>6, <3>2, <3>3, <3>4, <4>1, Zenon
      <4>2. CASE i # n
        <5>1. i + 1 \in 1 .. n /\ i \in 1 .. n - 1
          BY <1>6, <4>2
        <5>2. versions'[k][i] = versions[k][i] /\ versions'[k][i + 1] = versions[k][i + 1]
          BY <3>2, <3>3, <5>1, Zenon
        <5> QED
          BY <1>1, <5>1, <5>2, Zenon DEF VersionsInCommitOrder
      <4> QED
        BY <4>1, <4>2, Zenon
    <3>9. Len(versions'[k]) - 1 = n
      BY <1>6, <3>2, <3>3
    <3>10. VersionsInCommitOrder'
      BY <1>1, <3>3, <3>8, <3>9, Zenon DEF VersionsInCommitOrder
    <3> QED
      BY <3>3, <3>6, <3>7, <3>10, Zenon
  <2>2. CASE term[Place[k]][t] # "commit"
    <3>1. versions' = versions
      BY <1>2, <2>2, Zenon
    <3> QED
      BY <1>1, <1>2, <3>1, ListFrames, Zenon DEF LastCt, DataTypes
  <2> QED
    BY <2>1, <2>2, Zenon
<1>9. /\ tail' \in [Key -> Trx \cup {NoTrx}] /\ tail'[k] = NoTrx
      /\ \A j \in Key : j # k => tail'[j] = tail[j]
  BY <1>1, <1>2, Zenon DEF DataTypes
<1>10. Types'
  <2>1. DataTypes'
    BY <1>1, <1>2, <1>8, <1>9, Zenon DEF DataTypes
  <2> QED
    BY <1>1, <1>2, <2>1, TypeFrames, Zenon DEF Types
<1>11. Phases' /\ Statuses' /\ Updating' /\ Voting' /\ Terminating' /\ Left'
  BY <1>1, <1>2, PlanFrames, Zenon
<1>12. Pending' /\ Asked' /\ Recent' /\ ReadAhead'
  BY <1>2, SteadyStep, SteadyFrame, Zenon
<1>13. Owned'
  BY <1>1, <1>2, <1>8, <1>9 DEF Owned, Timed, Queue
<1>14. Orphans'
  BY <1>1, <1>2, <1>9, Zenon DEF Orphans, NoOrphanVersion
<1> QED
  BY <1>8, <1>10, <1>11, <1>12, <1>13, <1>14, Zenon DEF IInv

(* The exit of the terminate expert on one worker: no version of the       *)
(* transaction is left there, and none of its operations runs there.       *)
LEMMA ExitInv ==
  ASSUME IInv, NEW w \in Worker, NEW t \in Trx, Exit(w, t)
  PROVE  IInv'
<1> USE DEF tsVars, rctVars
<1>1. /\ TsTypes /\ TrxTypes /\ RctTypes /\ DataTypes /\ EndTypes
      /\ Phases /\ Statuses /\ Updating /\ Voting /\ Terminating /\ Left /\ Recent
      /\ Handed /\ Owned /\ VersionsInCommitOrder /\ Orphans
  BY Zenon DEF IInv, Types
<1>2. /\ MayTerminate(w, t) /\ \A k \in Key : Place[k] = w => tail[k] # t
      /\ UNCHANGED <<tsVars, plan, bt, tst, updates, rctVars, executing, done, versions, tail,
                     from, vote, opt, outcome>>
  BY Zenon DEF Exit
<1>3. /\ term' \in [Worker -> [Trx -> {"none", "init", "abort", "commit", "exit"}]]
      /\ \A x \in Worker, r \in Trx : term'[x][r] = IF x = w /\ r = t THEN "exit" ELSE term[x][r]
  BY <1>1, Zenon DEF Exit, EndTypes
<1>4. /\ homo' \in [Worker -> [Trx -> SUBSET Trx]]
      /\ \A x \in Worker, r \in Trx : homo'[x][r] \subseteq homo[x][r]
  BY <1>1, Zenon DEF Exit, DataTypes
<1>5. term[w][t] # "none"
  BY <1>2, Zenon DEF MayTerminate
<1>6. Failed(t) => term[w][t] \in {"init", "exit"}
  BY <1>1, Zenon DEF Terminating, Failed
<1>7. Failed(t) => tst[t].st = "A" /\ (Locks => \A op \in executing[t] : Place[op[2]] # w)
  BY <1>2, <1>6, Zenon DEF MayTerminate
<1>8. Types'
  <2>1. TsTypes' /\ TrxTypes' /\ RctTypes'
    BY <1>1, <1>2, TypeFrames, Zenon
  <2>2. DataTypes'
    BY <1>1, <1>2, <1>4, Zenon DEF DataTypes
  <2>3. EndTypes'
    BY <1>1, <1>2, <1>3, Zenon DEF EndTypes
  <2> QED
    BY <2>1, <2>2, <2>3, Zenon DEF Types
<1>9. Phases' /\ Statuses' /\ Updating' /\ Voting'
  BY <1>1, <1>2, PlanFrames, Zenon
<1>10. Terminating'
  BY <1>1, <1>2, <1>3, <1>5 DEF Terminating
<1>11. Left'
  BY <1>1, <1>2, <1>3, <1>7 DEF Left, Failed
<1>12. Pending' /\ Asked' /\ Recent' /\ ReadAhead'
  <2>1. \A x \in Worker, r \in Trx : opt'[x][r] \subseteq rct_list[r]
    BY <1>1, <1>2, Zenon DEF Recent
  <2> QED
    BY <1>2, <1>4, <2>1, SteadyStep, SteadyTimes, Zenon
<1>13. Handed' /\ Owned' /\ VersionsInCommitOrder'
  BY <1>1, <1>2, ListFrames, Zenon
<1>14. Orphans'
  BY <1>1, <1>2, <1>3, PlacementAssumption, ZenonT(30) DEF Orphans, NoOrphanVersion, DataTypes
<1> QED
  BY <1>8, <1>9, <1>10, <1>11, <1>12, <1>13, <1>14, Zenon DEF IInv

-----------------------------------------------------------------------------
(* A queued update reaches the status table. *)
LEMMA StatusUpdateInv ==
  ASSUME IInv, NEW u \in updates, ProcessTrxTableWriteReqs(u)
  PROVE  IInv'
<1> USE DEF tsVars, rctVars, dataVars, endVars
<1>1. /\ TsTypes /\ TrxTypes /\ RctTypes /\ DataTypes /\ EndTypes
      /\ Phases /\ Statuses /\ Updating /\ Voting /\ Terminating /\ Left /\ Recent
  BY Zenon DEF IInv, Types
<1>2. PICK t \in Trx, s \in {"C", "A"} : u = <<t, s>>
  BY <1>1 DEF TrxTypes
<1>3. /\ updates' = updates \ {<<t, s>>} /\ <<t, s>> \in updates /\ u[1] = t /\ u[2] = s
      /\ UNCHANGED <<tsVars, plan, bt, rctVars, dataVars, endVars>>
  BY <1>2, Zenon DEF ProcessTrxTableWriteReqs
<1>4. /\ tst' \in [Trx -> [st : Status, ct : Nat]]
      /\ tst'[t].st = s /\ tst'[t].ct = tst[t].ct
      /\ \A r \in Trx : r # t => tst'[r] = tst[r]
  BY <1>1, <1>2, <1>3 DEF ProcessTrxTableWriteReqs, TrxTypes, Status
<1>5. /\ s = "C" => outcome[t] = "commit"
      /\ s = "A" => plan[t] \in {"validate", "abort", "end"} /\ outcome[t] # "commit"
  BY <1>1, <1>3, Zenon DEF Updating
<1>6. plan[t] \in {"validate", "abort", "end"}
  BY <1>1, <1>5, Zenon DEF Phases
<1>7. Types'
  <2>1. TsTypes' /\ RctTypes' /\ DataTypes' /\ EndTypes'
    BY <1>1, <1>3, TypeFrames, Zenon
  <2>2. TrxTypes'
    BY <1>1, <1>3, <1>4, Zenon DEF TrxTypes
  <2> QED
    BY <2>1, <2>2, Zenon DEF Types
<1>8. Phases' /\ Voting' /\ Terminating'
  BY <1>1, <1>3, PlanFrames, Zenon
<1>9. Statuses'
  BY <1>1, <1>3, <1>4, <1>5, <1>6 DEF Statuses, Failed, EndTypes
<1>10. Updating'
  <2> SUFFICES ASSUME NEW r \in Trx
               PROVE  /\ <<r, "A">> \in updates'
                           => plan[r] \in {"validate", "abort", "end"} /\ outcome[r] # "commit"
                      /\ <<r, "C">> \in updates' => outcome[r] = "commit" /\ tst'[r].st = "V"
                      /\ plan[r] = "validate" /\ (<<r, "A">> \in updates' \/ tst'[r].st = "A")
                           => \E w \in Worker : vote[w][r] = "abort"
    BY <1>3, Zenon DEF Updating
  <2>1. <<r, "A">> \in updates' => <<r, "A">> \in updates
    BY <1>3, Zenon
  <2>2. <<r, "C">> \in updates' => <<r, "C">> \in updates /\ (r # t \/ s # "C")
    BY <1>3, Zenon
  <2>3. CASE r = t
    BY <1>1, <1>3, <1>4, <1>5, <2>1, <2>2, <2>3, Zenon DEF Updating
  <2>4. CASE r # t
    BY <1>1, <1>4, <2>1, <2>2, <2>4, Zenon DEF Updating
  <2> QED
    BY <2>3, <2>4, Zenon
<1>11. Left'
  BY <1>1, <1>3, <1>4, <1>5, ZenonT(30) DEF Left, Failed
<1>12. Pending' /\ Asked' /\ Recent' /\ ReadAhead'
  <2>1. Steady
    BY <1>3, <1>4, <1>6, Zenon DEF Steady
  <2> QED
    BY <1>3, <2>1, SteadyFrame, Zenon
<1>13. Handed' /\ Owned' /\ VersionsInCommitOrder' /\ Orphans'
  BY <1>3, <1>4, <1>6, ListsFrame, Zenon DEF Timed
<1> QED
  BY <1>7, <1>8, <1>9, <1>10, <1>11, <1>12, <1>13, Zenon DEF IInv

(* PostValidationExpert::do_work: the votes agree with the status. *)
LEMMA PostValidationInv ==
  ASSUME IInv, NEW t \in Trx, PostValidation(t)
  PROVE  IInv'
<1> USE DEF tsVars, rctVars, dataVars
<1>1. /\ TsTypes /\ TrxTypes /\ RctTypes /\ DataTypes /\ EndTypes
      /\ Phases /\ Statuses /\ Updating /\ Voting /\ Terminating /\ Left /\ Recent
  BY Zenon DEF IInv, Types
<1>2. /\ plan[t] = "validate" /\ outcome[t] = "none"
      /\ \A w \in Worker : vote[w][t] \in {"commit", "abort"}
      /\ UNCHANGED <<tsVars, plan, bt, tst, rctVars, dataVars, vote, opt>>
  BY Zenon DEF PostValidation
<1>3. PICK o \in {"commit", "abort"} :
        /\ o = "commit" <=> \A w \in Worker : vote[w][t] # "abort"
        /\ outcome' = [outcome EXCEPT ![t] = o]
        /\ term' = [w \in Worker |-> [term[w] EXCEPT ![t] = o]]
        /\ updates' = IF o = "commit" THEN updates \cup {<<t, "C">>} ELSE updates
  BY Zenon DEF PostValidation, update_status
<1>4. /\ outcome' \in [Trx -> {"none", "commit", "abort"}]
      /\ \A r \in Trx : outcome'[r] = IF r = t THEN o ELSE outcome[r]
  BY <1>1, <1>3, Zenon DEF EndTypes
<1>5. /\ term' \in [Worker -> [Trx -> {"none", "init", "abort", "commit", "exit"}]]
      /\ \A w \in Worker, r \in Trx : term'[w][r] = IF r = t THEN o ELSE term[w][r]
  BY <1>1, <1>3, Zenon DEF EndTypes
<1>6. /\ updates' \subseteq Trx \X {"C", "A"}
      /\ \A r \in Trx : <<r, "A">> \in updates' <=> <<r, "A">> \in updates
      /\ \A r \in Trx : <<r, "C">> \in updates' => <<r, "C">> \in updates \/ (r = t /\ o = "commit")
  BY <1>1, <1>3 DEF TrxTypes
<1>7. o = "commit" => tst[t].st = "V" /\ <<t, "A">> \notin updates
  BY <1>1, <1>2, <1>3, Zenon DEF Updating, Statuses
<1>8. Types'
  <2>1. TsTypes' /\ RctTypes' /\ DataTypes'
    BY <1>1, <1>2, TypeFrames, Zenon
  <2>2. TrxTypes'
    BY <1>1, <1>2, <1>6, Zenon DEF TrxTypes
  <2>3. EndTypes'
    BY <1>1, <1>2, <1>4, <1>5, Zenon DEF EndTypes
  <2> QED
    BY <2>1, <2>2, <2>3, Zenon DEF Types
<1>9. Phases' /\ Statuses'
  <2>1. Phases'
    BY <1>1, <1>2, <1>4, Zenon DEF Phases
  <2>2. Statuses'
    BY <1>1, <1>2, <1>4, <1>7, Zenon DEF Statuses, Failed
  <2> QED
    BY <2>1, <2>2, Zenon
<1>10. Updating'
  BY <1>1, <1>2, <1>4, <1>6, <1>7, ZenonT(30) DEF Updating
<1>11. Voting' /\ Terminating'
  <2>1. Voting'
    BY <1>1, <1>2, <1>3, <1>4 DEF Voting
  <2>2. Terminating'
    BY <1>1, <1>2, <1>3, <1>4, <1>5 DEF Terminating
  <2> QED
    BY <2>1, <2>2, Zenon
<1>12. Left'
  BY <1>1, <1>2, <1>4, <1>5 DEF Left, Failed
<1>13. Pending' /\ Asked' /\ Recent' /\ ReadAhead'
  BY <1>2, SteadyStep, SteadyFrame, Zenon
<1>14. Handed' /\ Owned' /\ VersionsInCommitOrder' /\ Orphans'
  BY <1>2, <1>5, ListsFrame, Zenon DEF Timed
<1> QED
  BY <1>8, <1>9, <1>10, <1>11, <1>12, <1>13, <1>14, Zenon DEF IInv

(* The main loop answers the client. *)
LEMMA ReplyClientInv ==
  ASSUME IInv, NEW t \in Trx, ReplyClient(t)
  PROVE  IInv'
<1> USE DEF tsVars, rctVars, dataVars, endVars
<1>1. /\ TsTypes /\ TrxTypes /\ RctTypes /\ DataTypes /\ EndTypes
      /\ Phases /\ Statuses /\ Updating /\ Voting /\ Terminating /\ Left /\ Recent
  BY Zenon DEF IInv, Types
<1>2. /\ plan[t] \in {"validate", "abort"} /\ \A w \in Worker : term[w][t] = "exit"
      /\ UNCHANGED <<tsVars, bt, tst, updates, rctVars, dataVars, endVars>>
  BY Zenon DEF ReplyClient
<1>3. /\ plan' \in [Trx -> {"parsed", "begin", "run", "request", "commit", "validate", "abort", "end"}]
      /\ \A r \in Trx : plan'[r] = IF r = t THEN "end" ELSE plan[r]
  BY <1>1, Zenon DEF ReplyClient, TrxTypes
<1>4. Home[t] \in Worker
  BY PlacementAssumption, Zenon
<1>5. plan[t] = "validate" => outcome[t] # "none"
  BY <1>1, <1>2, <1>4, Zenon DEF Terminating
<1>6. Types'
  <2>1. TsTypes' /\ RctTypes' /\ DataTypes' /\ EndTypes'
    BY <1>1, <1>2, TypeFrames, Zenon
  <2>2. TrxTypes'
    BY <1>1, <1>2, <1>3, Zenon DEF TrxTypes
  <2> QED
    BY <2>1, <2>2, Zenon DEF Types
<1>7. Phases' /\ Statuses' /\ Updating'
  <2>1. Phases'
    BY <1>1, <1>2, <1>3, <1>5, Zenon DEF Phases
  <2>2. Statuses'
    BY <1>1, <1>2, <1>3, <1>5, Zenon DEF Statuses, Failed
  <2>3. Updating'
    BY <1>1, <1>2, <1>3, Zenon DEF Updating
  <2> QED
    BY <2>1, <2>2, <2>3, Zenon
<1>8. Voting' /\ Terminating'
  <2>1. Voting'
    BY <1>1, <1>2, <1>3, <1>5 DEF Voting
  <2>2. Terminating'
    BY <1>1, <1>2, <1>3 DEF Terminating
  <2> QED
    BY <2>1, <2>2, Zenon
<1>9. Left'
  BY <1>1, <1>2, <1>3, <1>5 DEF Left, Failed, Phases
<1>10. Pending' /\ Asked' /\ Recent' /\ ReadAhead'
  <2>1. Steady
    BY <1>2, <1>3, Zenon DEF Steady
  <2> QED
    BY <1>2, <2>1, SteadyFrame, Zenon
<1>11. Handed' /\ Owned' /\ VersionsInCommitOrder' /\ Orphans'
  BY <1>2, <1>3, ListsFrame, Zenon DEF Timed
<1> QED
  BY <1>6, <1>7, <1>8, <1>9, <1>10, <1>11, Zenon DEF IInv

-----------------------------------------------------------------------------
(* A step of a validation on one worker: a vote, perhaps the status ABORT  *)
(* with a vote against, perhaps the transactions to wait for.              *)
LEMMA VoteInv ==
  ASSUME IInv, NEW w \in Worker, NEW t \in Trx, NEW v \in {"step", "opt", "homo", "commit", "abort"},
         vote[w][t] \in {"start", "step", "opt", "homo"}, Vote(w, t, v),
         updates' = updates \/ (v = "abort" /\ update_status(t, "A")),
         opt' = opt \/ \E s \in SUBSET rct_list[t] : opt' = [opt EXCEPT ![w][t] = s],
         UNCHANGED <<tsVars, plan, bt, tst, rctVars, dataVars, term, outcome>>
  PROVE  IInv'
<1> USE DEF tsVars, rctVars, dataVars
<1>1. /\ TsTypes /\ TrxTypes /\ RctTypes /\ DataTypes /\ EndTypes
      /\ Phases /\ Statuses /\ Updating /\ Voting /\ Terminating /\ Left /\ Recent
  BY Zenon DEF IInv, Types
<1>2. plan[t] = "validate" /\ outcome[t] = "none"
  BY <1>1, Zenon DEF Voting, EndTypes
<1>3. /\ vote' \in [Worker -> [Trx -> {"none", "start", "step", "opt", "homo", "commit", "abort"}]]
      /\ vote'[w][t] = v
      /\ \A x \in Worker, r \in Trx : x # w \/ r # t => vote'[x][r] = vote[x][r]
  BY <1>1, Zenon DEF Vote, EndTypes
<1>4. /\ opt' \in [Worker -> [Trx -> SUBSET Trx]]
      /\ \A x \in Worker, r \in Trx : opt'[x][r] \subseteq rct_list[r]
  <2>1. CASE opt' = opt
    BY <1>1, <2>1, Zenon DEF EndTypes, Recent
  <2>2. CASE \E s \in SUBSET rct_list[t] : opt' = [opt EXCEPT ![w][t] = s]
    <3>1. PICK s \in SUBSET rct_list[t] : opt' = [opt EXCEPT ![w][t] = s]
      BY <2>2, Zenon
    <3>2. opt \in [Worker -> [Trx -> SUBSET Trx]] /\ s \in SUBSET Trx /\ s \subseteq rct_list[t]
      BY <1>1, Zenon DEF EndTypes, RctTypes
    <3>3. opt' \in [Worker -> [Trx -> SUBSET Trx]]
      BY <3>1, <3>2, Zenon
    <3>4. \A x \in Worker, r \in Trx : opt'[x][r] = IF x = w /\ r = t THEN s ELSE opt[x][r]
      BY <3>1, <3>2, Zenon
    <3> QED
      BY <1>1, <3>2, <3>3, <3>4 DEF Recent
  <2> QED
    BY <2>1, <2>2, Zenon
<1>5. /\ updates' \subseteq Trx \X {"C", "A"}
      /\ \A u \in Trx \X {"C", "A"} : u \in updates' => u \in updates \/ (u = <<t, "A">> /\ v = "abort")
  BY <1>1 DEF update_status, TrxTypes
<1>6. Types'
  <2>1. TsTypes' /\ RctTypes' /\ DataTypes'
    BY <1>1, TypeFrames, Zenon
  <2>2. TrxTypes'
    BY <1>1, <1>5, Zenon DEF TrxTypes
  <2>3. EndTypes'
    BY <1>1, <1>3, <1>4, Zenon DEF EndTypes
  <2> QED
    BY <2>1, <2>2, <2>3, Zenon DEF Types
<1>7. Phases' /\ Statuses' /\ Terminating' /\ Left'
  BY <1>1, PlanFrames, Zenon
<1>8. Voting'
  BY <1>1, <1>2, <1>3 DEF Voting
<1>9. Updating'
  <2> SUFFICES ASSUME NEW r \in Trx
               PROVE  /\ <<r, "A">> \in updates'
                           => plan[r] \in {"validate", "abort", "end"} /\ outcome[r] # "commit"
                      /\ <<r, "C">> \in updates' => outcome[r] = "commit" /\ tst[r].st = "V"
                      /\ plan[r] = "validate" /\ (<<r, "A">> \in updates' \/ tst[r].st = "A")
                           => \E x \in Worker : vote'[x][r] = "abort"
    BY Zenon DEF Updating
  <2>1. <<r, "A">> \in updates' => <<r, "A">> \in updates \/ (r = t /\ v = "abort")
    BY <1>5, Zenon
  <2>2. <<r, "C">> \in updates' => <<r, "C">> \in updates
    BY <1>5, Zenon
  <2>3. \A x \in Worker : vote[x][r] = "abort" => vote'[x][r] = "abort"
    BY <1>3, Zenon
  <2> QED
    BY <1>1, <1>2, <1>3, <2>1, <2>2, <2>3, ZenonT(30) DEF Updating
<1>10. Pending' /\ Asked' /\ Recent' /\ ReadAhead'
  BY <1>4, SteadyStep, SteadyTimes, Zenon
<1>11. Handed' /\ Owned' /\ VersionsInCommitOrder' /\ Orphans'
  <2>1. Handed /\ Owned /\ VersionsInCommitOrder /\ Orphans
    BY Zenon DEF IInv
  <2> QED
    BY <2>1, ListFrames, Zenon
<1> QED
  BY <1>6, <1>7, <1>8, <1>9, <1>10, <1>11, Zenon DEF IInv

(* ValidationExpert::process, validate, valid_optimistic_validation and    *)
(* valid_optimistic_read.                                                  *)
LEMMA ValidationInv ==
  ASSUME IInv, NEW w \in Worker, NEW t \in Trx,
         \/ StartValidation(w, t) \/ StepValidation(w, t)
         \/ ValidOptimisticValidation(w, t) \/ ValidOptimisticRead(w, t)
  PROVE  IInv'
<1>1. CASE StartValidation(w, t)
  <2>1. PICK v \in {"homo", "step", "abort"} :
          /\ Vote(w, t, v) /\ (updates' = updates \/ (v = "abort" /\ update_status(t, "A")))
          /\ vote[w][t] = "start" /\ opt' = opt
          /\ UNCHANGED <<tsVars, plan, bt, tst, rctVars, dataVars, term, outcome>>
    BY <1>1, Zenon DEF StartValidation
  <2> QED
    BY <2>1, VoteInv, Zenon
<1>2. CASE StepValidation(w, t)
  <2>1. {r \in Conflicts(w, t) : tst[r].st = "V"} \subseteq rct_list[t]
    BY Zenon DEF Conflicts
  <2>2. PICK v \in {"opt", "abort"} :
          /\ Vote(w, t, v) /\ (updates' = updates \/ (v = "abort" /\ update_status(t, "A")))
          /\ opt' = opt \/ \E s \in SUBSET rct_list[t] : opt' = [opt EXCEPT ![w][t] = s]
          /\ vote[w][t] = "step"
          /\ UNCHANGED <<tsVars, plan, bt, tst, rctVars, dataVars, term, outcome>>
    BY <1>2, <2>1, Zenon DEF StepValidation
  <2> QED
    BY <2>2, VoteInv, Zenon
<1>3. CASE ValidOptimisticValidation(w, t)
  <2>1. PICK v \in {"homo", "abort"} :
          /\ Vote(w, t, v) /\ updates' = updates /\ opt' = opt /\ vote[w][t] = "opt"
          /\ UNCHANGED <<tsVars, plan, bt, tst, rctVars, dataVars, term, outcome>>
    BY <1>3, Zenon DEF ValidOptimisticValidation
  <2> QED
    BY <2>1, VoteInv, Zenon
<1>4. CASE ValidOptimisticRead(w, t)
  <2>1. PICK v \in {"commit", "abort"} :
          /\ Vote(w, t, v) /\ (updates' = updates \/ (v = "abort" /\ update_status(t, "A")))
          /\ opt' = opt /\ vote[w][t] = "homo"
          /\ UNCHANGED <<tsVars, plan, bt, tst, rctVars, dataVars, term, outcome>>
    BY <1>4, Zenon DEF ValidOptimisticRead
  <2> QED
    BY <2>1, VoteInv, Zenon
<1> QED
  BY <1>1, <1>2, <1>3, <1>4, Zenon
=============================================================================
