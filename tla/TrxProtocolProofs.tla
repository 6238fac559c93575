------------------------- MODULE TrxProtocolProofs --------------------------
(***************************************************************************)
(* The other steps of TrxProtocol preserve the invariant, and what follows *)
(* from it.                                                                *)
(***************************************************************************)
EXTENDS TrxProtocolInvariant

(* Coordinator::ProcessTimestampRequest. *)
LEMMA AllocateInv ==
  ASSUME IInv, NEW t \in Trx, ProcessTimestampRequest(t)
  PROVE  IInv'
<1> USE DEF rctVars, dataVars, endVars
<1> DEFINE h == Home[t]
<1>1. /\ TsTypes /\ TrxTypes /\ RctTypes /\ DataTypes /\ EndTypes
      /\ Phases /\ Statuses /\ Updating /\ Voting /\ Terminating /\ Left
      /\ Pending /\ Asked /\ Recent /\ ReadAhead
      /\ Handed /\ Owned /\ VersionsInCommitOrder /\ Orphans
  BY Zenon DEF IInv, Types
<1>2. PICK type \in {"begin", "commit"} :
        /\ Allocate(t, type, type)
        /\ type = "begin" => plan[t] = "parsed"
        /\ type = "commit" => plan[t] = "request"
  BY Zenon DEF ProcessTimestampRequest
<1> DEFINE a == [trx |-> t, type |-> type, ts |-> clock + 1]
<1>3. /\ clock' = clock + 1 /\ pending_ts' = [pending_ts EXCEPT ![h] = Append(pending_ts[h], a)]
      /\ plan' = [plan EXCEPT ![t] = type]
      /\ UNCHANGED <<bt, tst, updates, rctVars, dataVars, endVars>>
  BY <1>2, Zenon DEF Allocate
<1>4. h \in Worker /\ a \in Stamp /\ clock \in Nat /\ a.trx = t /\ a.type = type /\ a.ts = clock + 1
  BY <1>1, PlacementAssumption DEF TsTypes, Stamp
<1> HIDE DEF a, h
<1>5. \A w \in Worker : \A e \in Queue(w) : e \in Stamp /\ e.trx \in Trx /\ e.trx # t /\ e.ts \in Nat
  BY <1>1, <1>2, QueueTypes, Zenon DEF Pending
<1>6. /\ Append(pending_ts[h], a) \in Seq(Stamp) /\ Distinct(Append(pending_ts[h], a))
      /\ Elems(Append(pending_ts[h], a)) = Queue(h) \cup {a}
  BY <1>1, <1>4, <1>5, QueueTypes, QueueAppend DEF Queue, Pending
<1>7. /\ pending_ts' \in [Worker -> Seq(Stamp)]
      /\ pending_ts'[h] = Append(pending_ts[h], a)
      /\ \A w \in Worker : w # h => pending_ts'[w] = pending_ts[w]
  BY <1>1, <1>3, <1>4, <1>6, Zenon DEF TsTypes
<1>8. /\ Queue(h)' = Queue(h) \cup {a}
      /\ \A w \in Worker : w # h => Queue(w)' = Queue(w)
      /\ \A w \in Worker : Distinct(pending_ts'[w])
  <2>1. Queue(h)' = Queue(h) \cup {a}
    BY <1>6, <1>7, Zenon DEF Queue, h
  <2>2. \A w \in Worker : w # h => Queue(w)' = Queue(w)
    BY <1>7, Zenon DEF Queue
  <2> QED
    BY <1>1, <1>6, <1>7, <2>1, <2>2, Zenon DEF Pending
<1>9. /\ plan' \in [Trx -> {"parsed", "begin", "run", "request", "commit", "validate", "abort", "end"}]
      /\ plan'[t] = type
      /\ \A r \in Trx : r # t => plan'[r] = plan[r]
  BY <1>1, <1>2, <1>3, Zenon DEF TrxTypes
<1>10. Types'
  <2>1. RctTypes' /\ DataTypes' /\ EndTypes'
    BY <1>1, <1>3, TypeFrames, Zenon
  <2>2. TsTypes'
    BY <1>3, <1>4, <1>7 DEF TsTypes
  <2>3. TrxTypes'
    BY <1>1, <1>3, <1>9, Zenon DEF TrxTypes
  <2> QED
    BY <2>1, <2>2, <2>3, Zenon DEF Types
<1>11. Phases' /\ Statuses' /\ Updating'
  <2>1. Phases'
    BY <1>1, <1>2, <1>3, <1>9, Zenon DEF Phases
  <2>2. Statuses'
    BY <1>1, <1>2, <1>3, <1>9, ZenonT(30) DEF Statuses, Failed
  <2>3. Updating'
    BY <1>1, <1>2, <1>3, <1>9, ZenonT(30) DEF Updating
  <2> QED
    BY <2>1, <2>2, <2>3, Zenon
<1>12. Voting' /\ Terminating' /\ Left'
  <2>1. Voting'
    BY <1>1, <1>2, <1>3, <1>9 DEF Voting
  <2>2. Terminating'
    BY <1>1, <1>2, <1>3, <1>9 DEF Terminating
  <2>3. Left'
    BY <1>1, <1>2, <1>3, <1>9 DEF Left, Failed
  <2> QED
    BY <2>1, <2>2, <2>3, Zenon
<1>13. type = "commit" => tst[t].st = "P"
  BY <1>1, <1>2, Zenon DEF Statuses
<1>14. Pending'
  <2> SUFFICES ASSUME NEW w \in Worker, NEW e \in Queue(w)'
               PROVE  /\ Home[e.trx] = w /\ e.ts <= clock'
                      /\ e.type = "begin" => plan'[e.trx] = "begin"
                      /\ e.type = "commit" => plan'[e.trx] = "commit" /\ tst'[e.trx].st = "P"
    BY <1>8, Zenon DEF Pending
  <2>1. CASE e \in Queue(w)
    BY <1>1, <1>3, <1>4, <1>5, <1>9, <2>1 DEF Pending
  <2>2. CASE e \notin Queue(w)
    <3>1. w = h /\ e = a
      BY <1>8, <2>2, Zenon
    <3> QED
      BY <1>3, <1>4, <1>9, <1>13, <3>1 DEF h
  <2> QED
    BY <2>1, <2>2, Zenon
<1>15. FixedStays
  BY <1>2, <1>3, <1>9, Zenon DEF FixedStays, CtFixed
<1>16. Asked'
  BY <1>1, <1>2, <1>3, <1>9, <1>15, Zenon DEF Asked, Asks, RctTypes, FixedStays
<1>17. Recent' /\ ReadAhead'
  <2>1. Recent'
    BY <1>1, <1>3, <1>15, RecentFrame, Zenon DEF Recent
  <2>2. \A r \in Trx : plan[r] \notin {"parsed", "begin"} => plan'[r] \notin {"parsed", "begin"}
    BY <1>2, <1>9, Zenon
  <2> QED
    BY <1>1, <1>3, <1>15, <2>1, <2>2, ReadAheadFrame, Zenon
<1>18. \A k \in Key : LastCt(k)' = LastCt(k) /\ LastCt(k) \in Nat /\ LastCt(k) < clock + 1
  BY <1>1, <1>3, <1>4, LastCtType DEF LastCt, Handed
<1>19. Handed'
  BY <1>1, <1>3, <1>4, <1>18 DEF Handed, TrxTypes
<1>20. Owned'
  <2> SUFFICES ASSUME NEW k \in Key, tail[k] # NoTrx
               PROVE  /\ k \in Writes[tail[k]]
                      /\ Timed(tail[k])' => LastCt(k) < tst[tail[k]].ct
                      /\ \A w \in Worker : \A e \in Queue(w)' :
                           e.trx = tail[k] /\ e.type = "commit" => LastCt(k) < e.ts
    BY <1>3, <1>18, Zenon DEF Owned
  <2>1. tail[k] \in Trx
    BY <1>1, Zenon DEF DataTypes
  <2>2. Timed(tail[k])' => Timed(tail[k])
    BY <1>2, <1>3, <1>9, <1>13, <2>1, Zenon DEF Timed
  <2>3. \A w \in Worker : \A e \in Queue(w)' : e \in Queue(w) \/ e = a
    BY <1>8, Zenon
  <2> QED
    BY <1>1, <1>4, <1>18, <2>2, <2>3, Zenon DEF Owned
<1>21. VersionsInCommitOrder' /\ Orphans'
  BY <1>1, <1>3, ListFrames, Zenon
<1> QED
  BY <1>10, <1>11, <1>12, <1>14, <1>16, <1>17, <1>19, <1>20, <1>21, Zenon DEF IInv

(* Worker::ProcessAllocatedTimestamp, BEGIN_TIME. *)
LEMMA BeginTimeInv ==
  ASSUME IInv, NEW w \in Worker, BeginTime(w)
  PROVE  IInv'
<1> USE DEF rctVars, dataVars, endVars
<1>1. /\ TsTypes /\ TrxTypes /\ RctTypes /\ DataTypes /\ EndTypes
      /\ Phases /\ Statuses /\ Updating /\ Voting /\ Terminating /\ Left
      /\ Pending /\ Asked /\ Recent /\ ReadAhead
      /\ Handed /\ Owned /\ VersionsInCommitOrder /\ Orphans
  BY Zenon DEF IInv, Types
<1>2. /\ pending_ts[w] \in Seq(Stamp) /\ pending_ts[w] # <<>> /\ Distinct(pending_ts[w])
      /\ Head(pending_ts[w]).type = "begin"
  BY <1>1, QueueTypes, Zenon DEF BeginTime, Pending
<1>3. PICK a \in Queue(w) : a = Head(pending_ts[w])
  BY <1>2, QueueTail, Zenon DEF Queue
<1>4. /\ a \in Stamp /\ a.trx \in Trx /\ a.ts \in Nat /\ a.ts <= clock /\ a.type = "begin"
      /\ plan[a.trx] = "begin"
  BY <1>1, <1>2, <1>3, QueueTypes, ZenonT(30) DEF Pending
<1>5. PICK t \in Trx : t = a.trx
  BY <1>4, Zenon
<1>6. /\ bt' = [bt EXCEPT ![t] = a.ts] /\ tst' = [tst EXCEPT ![t] = [st |-> "P", ct |-> 0]]
      /\ plan' = [plan EXCEPT ![t] = "run"]
      /\ pending_ts' = [pending_ts EXCEPT ![w] = Tail(pending_ts[w])]
      /\ UNCHANGED <<clock, updates, rctVars, dataVars, endVars>>
  BY <1>3, <1>5, Zenon DEF BeginTime
<1>7. /\ pending_ts' \in [Worker -> Seq(Stamp)] /\ pending_ts'[w] = Tail(pending_ts[w])
      /\ \A x \in Worker : x # w => pending_ts'[x] = pending_ts[x]
  BY <1>1, <1>2, <1>6, QueueTail, Zenon DEF TsTypes
<1>8. \A x \in Worker : Distinct(pending_ts'[x]) /\ Queue(x)' \subseteq Queue(x)
  <2>1. /\ Distinct(Tail(pending_ts[w]))
        /\ Elems(Tail(pending_ts[w])) \subseteq Elems(pending_ts[w])
    BY <1>2, QueueTail, Zenon
  <2>2. \A x \in Worker : Distinct(pending_ts[x])
    BY <1>1, Zenon DEF Pending
  <2> QED
    BY <1>7, <2>1, <2>2, Zenon DEF Queue
<1>9. \A x \in Worker : \A e \in Queue(x)' : e.trx \in Trx /\ e.trx # t
  <2> SUFFICES ASSUME NEW x \in Worker, NEW e \in Queue(x)' PROVE e.trx \in Trx /\ e.trx # t
    BY Zenon
  <2>1. e \in Queue(x) /\ e.trx \in Trx
    BY <1>1, <1>8, QueueTypes, Zenon
  <2>2. CASE x = w
    BY <1>2, <1>3, <1>5, <1>7, <2>1, <2>2, QueueTail, Zenon DEF Queue
  <2>3. CASE x # w
    BY <1>1, <1>3, <1>5, <2>1, <2>3 DEF Pending
  <2> QED
    BY <2>1, <2>2, <2>3, Zenon
<1>10. /\ plan' \in [Trx -> {"parsed", "begin", "run", "request", "commit", "validate", "abort", "end"}]
       /\ plan[t] = "begin" /\ plan'[t] = "run"
       /\ \A r \in Trx : r # t => plan'[r] = plan[r]
  BY <1>1, <1>4, <1>5, <1>6, Zenon DEF TrxTypes
<1>11. /\ tst' \in [Trx -> [st : Status, ct : Nat]] /\ tst'[t].st = "P" /\ tst'[t].ct = 0
       /\ \A r \in Trx : r # t => tst'[r] = tst[r]
  BY <1>1, <1>6, Zenon DEF TrxTypes, Status
<1>12. /\ bt' \in [Trx -> Nat] /\ bt'[t] = a.ts
       /\ \A r \in Trx : r # t => bt'[r] = bt[r]
  BY <1>1, <1>4, <1>6, Zenon DEF TrxTypes
<1>13. Types'
  <2>1. RctTypes' /\ DataTypes' /\ EndTypes'
    BY <1>1, <1>6, TypeFrames, Zenon
  <2>2. TsTypes'
    BY <1>1, <1>6, <1>7, Zenon DEF TsTypes
  <2>3. TrxTypes'
    BY <1>1, <1>6, <1>10, <1>11, <1>12, Zenon DEF TrxTypes
  <2> QED
    BY <2>1, <2>2, <2>3, Zenon DEF Types
<1>14. Phases' /\ Statuses'
  <2>1. Phases'
    BY <1>1, <1>6, <1>10, Zenon DEF Phases
  <2>2. Statuses'
    BY <1>1, <1>6, <1>10, <1>11 DEF Statuses, Failed
  <2> QED
    BY <2>1, <2>2, Zenon
<1>15. Updating'
  <2>1. <<t, "A">> \notin updates /\ <<t, "C">> \notin updates
    BY <1>1, <1>10, Zenon DEF Updating, Phases
  <2> SUFFICES ASSUME NEW r \in Trx
               PROVE  /\ <<r, "A">> \in updates
                           => plan'[r] \in {"validate", "abort", "end"} /\ outcome[r] # "commit"
                      /\ <<r, "C">> \in updates => outcome[r] = "commit" /\ tst'[r].st = "V"
                      /\ plan'[r] = "validate" /\ (<<r, "A">> \in updates \/ tst'[r].st = "A")
                           => \E x \in Worker : vote[x][r] = "abort"
    BY <1>6, Zenon DEF Updating
  <2>2. CASE r = t
    BY <1>10, <2>1, <2>2, Zenon
  <2>3. CASE r # t
    BY <1>1, <1>10, <1>11, <2>3, Zenon DEF Updating
  <2> QED
    BY <2>2, <2>3, Zenon
<1>16. Voting' /\ Terminating' /\ Left'
  <2>1. Voting'
    BY <1>1, <1>6, <1>10 DEF Voting
  <2>2. Terminating'
    BY <1>1, <1>6, <1>10 DEF Terminating
  <2>3. Left'
    BY <1>1, <1>6, <1>10, <1>11 DEF Left, Failed
  <2> QED
    BY <2>1, <2>2, <2>3, Zenon
<1>17. Pending'
  BY <1>1, <1>6, <1>8, <1>9, <1>10, <1>11 DEF Pending
<1>18. FixedStays
  BY <1>10, <1>11, Zenon DEF FixedStays, CtFixed
<1>19. Asked'
  BY <1>1, <1>6, <1>10, <1>11, <1>18 DEF Asked, Asks, RctTypes, FixedStays
<1>20. Recent'
  BY <1>1, <1>6, <1>18, RecentFrame, Zenon DEF Recent
<1>21. ReadAhead'
  <2>1. \A x \in Worker : homo[x][t] = {} /\ \A r \in Trx : homo[x][r] \subseteq Trx
    BY <1>1, <1>10 DEF ReadAhead, DataTypes
  <2>2. SUFFICES ASSUME NEW x \in Worker, NEW r \in Trx, homo[x][r] # {}
                 PROVE  /\ plan'[r] \notin {"parsed", "begin"}
                        /\ \A y \in homo[x][r] : CtFixed(y)' /\ tst'[y].ct < bt'[r]
    BY <1>6, Zenon DEF ReadAhead
  <2>3. r # t /\ plan'[r] = plan[r] /\ bt'[r] = bt[r]
    BY <1>10, <1>12, <2>1, <2>2, Zenon
  <2>4. /\ plan[r] \notin {"parsed", "begin"}
        /\ \A y \in homo[x][r] : CtFixed(y) /\ tst[y].ct < bt[r]
    BY <1>1, <2>2, Zenon DEF ReadAhead
  <2>5. \A y \in homo[x][r] : CtFixed(y)' /\ tst'[y].ct = tst[y].ct
    BY <1>18, <2>1, <2>4, Zenon DEF FixedStays
  <2> QED
    BY <2>3, <2>4, <2>5, Zenon
<1>22. Handed'
  BY <1>1, <1>4, <1>6, <1>11, <1>12 DEF Handed, LastCt, TsTypes
<1>23. Owned'
  <2> SUFFICES ASSUME NEW k \in Key, tail[k] # NoTrx
               PROVE  /\ k \in Writes[tail[k]]
                      /\ Timed(tail[k])' => LastCt(k) < tst'[tail[k]].ct
                      /\ \A x \in Worker : \A e \in Queue(x)' :
                           e.trx = tail[k] /\ e.type = "commit" => LastCt(k) < e.ts
    BY <1>6, Zenon DEF Owned, LastCt, Timed
  <2>1. tail[k] \in Trx
    BY <1>1, Zenon DEF DataTypes
  <2>2. Timed(tail[k])' => Timed(tail[k]) /\ tst'[tail[k]] = tst[tail[k]]
    BY <1>6, <1>10, <1>11, <2>1, Zenon DEF Timed
  <2> QED
    BY <1>1, <1>8, <2>2, Zenon DEF Owned
<1>24. VersionsInCommitOrder' /\ Orphans'
  BY <1>1, <1>6, ListFrames, Zenon
<1> QED
  BY <1>13, <1>14, <1>15, <1>16, <1>17, <1>19, <1>20, <1>21, <1>22, <1>23, <1>24, Zenon DEF IInv

-----------------------------------------------------------------------------
(* All queries have returned. *)
LEMMA RegisterInv ==
  ASSUME IInv, NEW t \in Trx, RegisterValidation(t)
  PROVE  IInv'
<1> USE DEF tsVars, rctVars, dataVars, endVars
<1>1. /\ TsTypes /\ TrxTypes /\ RctTypes /\ DataTypes /\ EndTypes
      /\ Phases /\ Statuses /\ Updating /\ Voting /\ Terminating /\ Left /\ Recent
      /\ Handed /\ Owned /\ VersionsInCommitOrder /\ Orphans
  BY Zenon DEF IInv, Types
<1>2. /\ plan[t] = "run" /\ done[t] = Ops(t)
      /\ UNCHANGED <<tsVars, bt, updates, rctVars, dataVars>>
  BY Zenon DEF RegisterValidation
<1>3. outcome[t] = "none" /\ <<t, "A">> \notin updates /\ <<t, "C">> \notin updates /\ tst[t].st = "P"
  BY <1>1, <1>2, Zenon DEF Phases, Updating, Statuses
<1>4. CASE ReadOnly(t)
  <2>1. /\ tst' = [tst EXCEPT ![t] = [st |-> "V", ct |-> bt[t]]]
        /\ plan' = [plan EXCEPT ![t] = "validate"]
        /\ vote' = [w \in Worker |-> [vote[w] EXCEPT ![t] = "start"]]
        /\ UNCHANGED <<opt, term, outcome>>
    BY <1>4, Zenon DEF RegisterValidation, SendValidation
  <2>2. /\ tst' \in [Trx -> [st : Status, ct : Nat]]
        /\ tst'[t].st = "V" /\ tst'[t].ct = bt[t]
        /\ \A r \in Trx : r # t => tst'[r] = tst[r]
    BY <1>1, <2>1, Zenon DEF TrxTypes, Status
  <2>3. /\ plan' \in [Trx -> {"parsed", "begin", "run", "request", "commit", "validate", "abort", "end"}]
        /\ plan'[t] = "validate"
        /\ \A r \in Trx : r # t => plan'[r] = plan[r]
    BY <1>1, <2>1, Zenon DEF TrxTypes
  <2>4. /\ vote' \in [Worker -> [Trx -> {"none", "start", "step", "opt", "homo", "commit", "abort"}]]
        /\ \A w \in Worker, r \in Trx : vote'[w][r] = IF r = t THEN "start" ELSE vote[w][r]
    BY <1>1, <2>1, Zenon DEF EndTypes
  <2>5. Types'
    <3>1. TsTypes' /\ RctTypes' /\ DataTypes'
      BY <1>1, <1>2, TypeFrames, Zenon
    <3>2. TrxTypes'
      BY <1>1, <1>2, <2>2, <2>3, Zenon DEF TrxTypes
    <3>3. EndTypes'
      BY <1>1, <2>1, <2>4, Zenon DEF EndTypes
    <3> QED
      BY <3>1, <3>2, <3>3, Zenon DEF Types
  <2>6. Phases' /\ Statuses'
    <3>1. Phases'
      BY <1>1, <1>2, <2>1, <2>3, Zenon DEF Phases
    <3>2. Statuses'
      BY <1>1, <1>3, <2>1, <2>2, <2>3 DEF Statuses, Failed
    <3> QED
      BY <3>1, <3>2, Zenon
  <2>7. Updating'
    <3> SUFFICES ASSUME NEW r \in Trx
                 PROVE  /\ <<r, "A">> \in updates
                             => plan'[r] \in {"validate", "abort", "end"} /\ outcome[r] # "commit"
                        /\ <<r, "C">> \in updates => outcome[r] = "commit" /\ tst'[r].st = "V"
                        /\ plan'[r] = "validate" /\ (<<r, "A">> \in updates \/ tst'[r].st = "A")
                             => \E w \in Worker : vote'[w][r] = "abort"
      BY <1>2, <2>1, Zenon DEF Updating
    <3>1. CASE r = t
      BY <1>3, <2>2, <3>1, Zenon
    <3>2. CASE r # t
      BY <1>1, <2>2, <2>3, <2>4, <3>2 DEF Updating
    <3> QED
      BY <3>1, <3>2, Zenon
  <2>8. Voting'
    BY <1>1, <1>2, <1>3, <2>1, <2>3, <2>4 DEF Voting
  <2>9. Terminating' /\ Left'
    <3>1. Terminating'
      BY <1>1, <1>2, <1>3, <2>1, <2>3 DEF Terminating
    <3>2. Left'
      BY <1>1, <1>2, <2>1, <2>2, <2>3 DEF Left, Failed
    <3> QED
      BY <3>1, <3>2, Zenon
  <2>10. Steady
    BY <1>1, <1>2, <2>2, <2>3, Zenon DEF Steady
  <2>11. Pending' /\ Asked' /\ Recent' /\ ReadAhead'
    BY <1>2, <2>1, <2>10, SteadyFrame, Zenon
  <2>12. Handed' /\ VersionsInCommitOrder' /\ Orphans'
    <3>1. Handed'
      BY <1>1, <1>2, <2>2, Zenon DEF Handed, LastCt
    <3>2. VersionsInCommitOrder' /\ Orphans'
      BY <1>1, <1>2, <2>1, ListFrames, Zenon
    <3> QED
      BY <3>1, <3>2, Zenon
  <2>13. \A k \in Key : tail[k] # t
    BY <1>1, <1>4, TrxAssumption, Zenon DEF Owned, ReadOnly
  <2>14. Owned'
    <3> SUFFICES ASSUME NEW k \in Key, tail[k] # NoTrx
                 PROVE  /\ k \in Writes[tail[k]]
                        /\ Timed(tail[k])' => LastCt(k) < tst'[tail[k]].ct
                        /\ \A w \in Worker : \A a \in Queue(w) :
                             a.trx = tail[k] /\ a.type = "commit" => LastCt(k) < a.ts
      BY <1>2, Zenon DEF Owned, LastCt, Timed, Queue
    <3>1. tail[k] \in Trx /\ tail[k] # t
      BY <1>1, <2>13, Zenon DEF DataTypes
    <3>2. Timed(tail[k])' => Timed(tail[k])
      BY <1>2, <2>2, <2>3, <3>1, Zenon DEF Timed
    <3> QED
      BY <1>1, <2>2, <3>1, <3>2, Zenon DEF Owned
  <2> QED
    BY <2>5, <2>6, <2>7, <2>8, <2>9, <2>11, <2>12, <2>14, Zenon DEF IInv
<1>5. CASE ~ ReadOnly(t)
  <2>1. plan' = [plan EXCEPT ![t] = "request"] /\ UNCHANGED <<tst, endVars>>
    BY <1>5, Zenon DEF RegisterValidation
  <2>2. /\ plan' \in [Trx -> {"parsed", "begin", "run", "request", "commit", "validate", "abort", "end"}]
        /\ plan'[t] = "request"
        /\ \A r \in Trx : r # t => plan'[r] = plan[r]
    BY <1>1, <2>1, Zenon DEF TrxTypes
  <2>3. Types'
    <3>1. TsTypes' /\ RctTypes' /\ DataTypes' /\ EndTypes'
      BY <1>1, <1>2, <2>1, TypeFrames, Zenon
    <3>2. TrxTypes'
      BY <1>1, <1>2, <2>1, <2>2, Zenon DEF TrxTypes
    <3> QED
      BY <3>1, <3>2, Zenon DEF Types
  <2>4. Phases' /\ Statuses' /\ Updating'
    <3>1. Phases'
      BY <1>1, <1>2, <1>3, <2>1, <2>2, Zenon DEF Phases
    <3>2. Statuses'
      BY <1>1, <1>2, <1>3, <2>1, <2>2, Zenon DEF Statuses, Failed
    <3>3. Updating'
      BY <1>1, <1>2, <1>3, <2>1, <2>2, ZenonT(30) DEF Updating
    <3> QED
      BY <3>1, <3>2, <3>3, Zenon
  <2>5. Voting' /\ Terminating' /\ Left'
    <3>1. Voting'
      BY <1>1, <1>2, <1>3, <2>1, <2>2 DEF Voting
    <3>2. Terminating'
      BY <1>1, <1>2, <1>3, <2>1, <2>2 DEF Terminating
    <3>3. Left'
      BY <1>1, <1>2, <2>1, <2>2 DEF Left, Failed
    <3> QED
      BY <3>1, <3>2, <3>3, Zenon
  <2>6. Pending' /\ Asked' /\ Recent' /\ ReadAhead'
    <3>1. Steady
      BY <1>2, <2>1, <2>2, Zenon DEF Steady
    <3> QED
      BY <1>2, <2>1, <3>1, SteadyFrame, Zenon
  <2>7. Handed' /\ Owned' /\ VersionsInCommitOrder' /\ Orphans'
    BY <1>2, <2>1, <2>2, ListsFrame, Zenon DEF Timed
  <2> QED
    BY <2>3, <2>4, <2>5, <2>6, <2>7, Zenon DEF IInv
<1> QED
  BY <1>4, <1>5, Zenon

-----------------------------------------------------------------------------

(* The parts of the invariant that an operation that succeeds touches only *)
(* through the sets of operations.                                         *)
LEMMA OpSucceeds ==
  ASSUME IInv, NEW t \in Trx, NEW op, EndsOp(t, op),
         UNCHANGED <<tsVars, plan, bt, tst, updates, rctVars, endVars>>
  PROVE  /\ TsTypes' /\ TrxTypes' /\ RctTypes' /\ EndTypes'
         /\ Phases' /\ Statuses' /\ Updating' /\ Voting' /\ Terminating' /\ Left'
<1> USE DEF tsVars, rctVars, endVars
<1>1. /\ Types /\ TsTypes /\ TrxTypes /\ RctTypes /\ DataTypes /\ EndTypes
      /\ Phases /\ Statuses /\ Updating /\ Voting /\ Terminating /\ Left
  BY Zenon DEF IInv, Types
<1>2. /\ op \in Ops(t) /\ op \in executing[t]
      /\ executing'[t] = executing[t] \ {op} /\ done'[t] = done[t] \cup {op}
      /\ \A r \in Trx : r # t => executing'[r] = executing[r] /\ done'[r] = done[r]
      /\ plan[t] = "run" \/ Failed(t)
  BY EndsOpFacts, Zenon
<1>3. outcome[t] = "none"
  BY <1>1, <1>2, Zenon DEF Phases, Failed, EndTypes
<1>4. Phases'
  BY <1>1, <1>2, <1>3, Zenon DEF Phases, Failed
<1>5. Left'
  BY <1>1, <1>2, <1>3 DEF Left, Failed
<1> QED
  BY <1>1, <1>4, <1>5, TypeFrames, PlanFrames, Zenon

LEMMA ValidatingFixed ==
  ASSUME IInv, NEW u \in Trx, tst[u].st = "V"
  PROVE  CtFixed(u)
<1>1. TrxTypes /\ EndTypes /\ Statuses
  BY Zenon DEF IInv, Types
<1> QED
  BY <1>1, Zenon DEF Statuses, CtFixed, TrxTypes

(* An operation reads: a dependency that it records is on a transaction    *)
(* with a commit time before the begin time.                               *)
LEMMA ReturnsInv ==
  ASSUME IInv, NEW t \in Trx, NEW k \in Key, EndsOp(t, <<"read", k>>),
         NEW v, NEW newHomo \in SUBSET Trx, NEW newHetero, Returns(t, k, v, newHomo, newHetero),
         \A r \in newHomo : CtFixed(r) /\ tst[r].ct < bt[t],
         UNCHANGED <<tsVars, bt, tst, rctVars>>
  PROVE  IInv'
<1> USE DEF tsVars, rctVars, endVars
<1>1. /\ Types /\ TrxTypes /\ RctTypes /\ DataTypes /\ EndTypes /\ Recent /\ ReadAhead
      /\ Handed /\ Owned /\ VersionsInCommitOrder /\ Orphans
  BY Zenon DEF IInv, Types
<1>2. UNCHANGED <<versions, tail, updates, plan, endVars>>
  BY Zenon DEF Returns
<1>3. /\ TsTypes' /\ TrxTypes' /\ RctTypes' /\ EndTypes'
      /\ Phases' /\ Statuses' /\ Updating' /\ Voting' /\ Terminating' /\ Left'
  BY <1>2, OpSucceeds, Zenon
<1>4. /\ executing' \in [Trx -> SUBSET ({"read", "write"} \X Key)]
      /\ done' \in [Trx -> SUBSET ({"read", "write"} \X Key)]
      /\ plan[t] = "run" \/ Failed(t)
  BY EndsOpFacts, Zenon
<1>5. Place[k] \in Worker
  BY PlacementAssumption, Zenon
<1>6. /\ homo' \in [Worker -> [Trx -> SUBSET Trx]]
      /\ \A w \in Worker, r \in Trx :
           homo'[w][r] = IF w = Place[k] /\ r = t THEN homo[w][r] \cup newHomo ELSE homo[w][r]
  BY <1>1, <1>5, Zenon DEF Returns, DataTypes
<1>7. DataTypes'
  BY <1>1, <1>2, <1>4, <1>6, Zenon DEF DataTypes
<1>8. Pending' /\ Asked' /\ Recent'
  <2>1. /\ TsTypes /\ Pending /\ Asked
    BY Zenon DEF IInv, Types
  <2>2. Pending'
    BY <1>2, <2>1, Zenon DEF Pending, Queue
  <2>3. Asked'
    BY <1>2, <2>1, Zenon DEF Asked, Asks, CtFixed
  <2>4. Recent'
    BY <1>1, <1>2 DEF Recent, Earlier, CtFixed
  <2> QED
    BY <2>2, <2>3, <2>4, Zenon
<1>9. ReadAhead'
  <2> SUFFICES ASSUME NEW w \in Worker, NEW r \in Trx, homo'[w][r] # {}
               PROVE  /\ plan[r] \notin {"parsed", "begin"}
                      /\ \A x \in homo'[w][r] : CtFixed(x) /\ tst[x].ct < bt[r]
    BY <1>2, Zenon DEF ReadAhead, CtFixed
  <2>1. CASE w = Place[k] /\ r = t
    BY <1>1, <1>4, <1>6, <2>1, ZenonT(30) DEF ReadAhead, Failed
  <2>2. CASE ~ (w = Place[k] /\ r = t)
    BY <1>1, <1>6, <2>2, Zenon DEF ReadAhead
  <2> QED
    BY <2>1, <2>2, Zenon
<1>10. Handed' /\ Owned' /\ VersionsInCommitOrder' /\ Orphans'
  BY <1>1, <1>2, ListFrames, Zenon
<1> QED
  BY <1>3, <1>7, <1>8, <1>9, <1>10, Zenon DEF IInv, Types

LEMMA ReadInv ==
  ASSUME IInv, NEW t \in Trx, NEW k \in Key, Read(t, k)
  PROVE  IInv'
<1> DEFINE u == tail[k]
<1>1. EndsOp(t, <<"read", k>>) /\ UNCHANGED <<tsVars, bt, tst, rctVars>>
  BY Zenon DEF Read
<1>2. \/ AbortProcessing(t)
      \/ \E v : Returns(t, k, v, {}, {})
      \/ u # NoTrx /\ \E v, newHetero : Returns(t, k, v, {}, newHetero)
      \/ u # NoTrx /\ tst[u].st = "V" /\ bt[t] > tst[u].ct /\ Returns(t, k, u, {u}, {})
  BY Zenon DEF Read, TryPreReadUncommittedTail
<1>3. CASE AbortProcessing(t)
  BY <1>1, <1>3, FailInv, Zenon
<1>4. CASE \E v, newHetero : Returns(t, k, v, {}, newHetero)
  BY <1>1, <1>4, ReturnsInv
<1>5. CASE u # NoTrx /\ tst[u].st = "V" /\ bt[t] > tst[u].ct /\ Returns(t, k, u, {u}, {})
  <2>1. u \in Trx /\ tst[u].ct \in Nat /\ bt[t] \in Nat
    BY <1>5, Zenon DEF IInv, Types, DataTypes, TrxTypes
  <2>2. CtFixed(u) /\ tst[u].ct < bt[t]
    BY <1>5, <2>1, ValidatingFixed, Zenon
  <2> QED
    BY <1>1, <1>5, <2>1, <2>2, ReturnsInv
<1> QED
  BY <1>2, <1>3, <1>4, <1>5, Zenon

(* AppendVersion: the list has no other uncommitted version, and the       *)
(* writer has no commit time yet.                                          *)
LEMMA WriteInv ==
  ASSUME IInv, NEW t \in Trx, NEW k \in Key, Write(t, k)
  PROVE  IInv'
<1> USE DEF tsVars, rctVars, endVars
<1> DEFINE op == <<"write", k>>
<1>1. EndsOp(t, op) /\ UNCHANGED <<tsVars, bt, tst, rctVars>>
  BY Zenon DEF Write
<1>2. CASE AbortProcessing(t)
  BY <1>1, <1>2, FailInv, Zenon
<1>3. CASE ~ AbortProcessing(t)
  <2>1. /\ tail[k] \in {NoTrx, t} /\ tail' = [tail EXCEPT ![k] = t]
        /\ UNCHANGED <<versions, from, homo, hetero, updates, plan, endVars>>
    BY <1>3, Zenon DEF Write
  <2>2. /\ TsTypes' /\ TrxTypes' /\ RctTypes' /\ EndTypes'
        /\ Phases' /\ Statuses' /\ Updating' /\ Voting' /\ Terminating' /\ Left'
    BY <1>1, <2>1, OpSucceeds, Zenon
  <2>3. /\ executing' \in [Trx -> SUBSET ({"read", "write"} \X Key)]
        /\ done' \in [Trx -> SUBSET ({"read", "write"} \X Key)]
        /\ op \in Ops(t) /\ (plan[t] = "run" \/ Failed(t))
    BY <1>1, EndsOpFacts, Zenon
  <2>4. op \in Ops(t) /\ \A w \in Worker : Locks /\ Place[op[2]] = w => term[w][t] # "exit"
    BY <1>1, EndsOpFacts, Zenon
  <2>5. /\ Types /\ TsTypes /\ DataTypes /\ Pending /\ Recent
        /\ Handed /\ Owned /\ VersionsInCommitOrder /\ Orphans
    BY Zenon DEF IInv, Types
  <2>6. /\ tail' \in [Key -> Trx \cup {NoTrx}] /\ tail'[k] = t
        /\ \A j \in Key : j # k => tail'[j] = tail[j]
    BY <2>1, <2>5, Zenon DEF DataTypes
  <2>7. DataTypes'
    BY <2>1, <2>3, <2>5, <2>6, Zenon DEF DataTypes
  <2>8. Pending' /\ Asked' /\ Recent' /\ ReadAhead'
    BY <1>1, <2>1, SteadyStep, SteadyFrame, Zenon
  <2>9. Handed' /\ VersionsInCommitOrder'
    BY <1>1, <2>1, <2>5, ListFrames, Zenon
  <2>10. k \in Writes[t]
    BY <2>4, Zenon DEF Ops
  <2>11. ~ Timed(t) /\ \A w \in Worker : \A a \in Queue(w) : ~ (a.trx = t /\ a.type = "commit")
    BY <2>3, <2>5, Zenon DEF Timed, Pending, Failed
  <2>12. Owned'
    <3> SUFFICES ASSUME NEW j \in Key, tail'[j] # NoTrx
                 PROVE  /\ j \in Writes[tail'[j]]
                        /\ Timed(tail'[j]) => LastCt(j) < tst[tail'[j]].ct
                        /\ \A w \in Worker : \A a \in Queue(w) :
                             a.trx = tail'[j] /\ a.type = "commit" => LastCt(j) < a.ts
      BY <1>1, <2>1, Zenon DEF Owned, LastCt, Timed, Queue
    <3>1. CASE j = k
      BY <2>6, <2>10, <2>11, <3>1, Zenon
    <3>2. CASE j # k
      BY <2>5, <2>6, <3>2, Zenon DEF Owned
    <3> QED
      BY <3>1, <3>2, Zenon
  <2>13. Orphans'
    <3>1. op[2] = k /\ Place[k] \in Worker
      BY PlacementAssumption, Zenon
    <3> QED
      BY <2>1, <2>4, <2>5, <2>6, <3>1, Zenon DEF Orphans, NoOrphanVersion
  <2> QED
    BY <2>2, <2>7, <2>8, <2>9, <2>12, <2>13, Zenon DEF IInv, Types
<1> QED
  BY <1>2, <1>3, Zenon

-----------------------------------------------------------------------------
(* Worker::InsertQueryRCTResult, of a validating transaction. *)
LEMMA ResultInserted ==
  ASSUME IInv, NEW t \in Trx, NEW w \in Worker, NEW ids \in SUBSET Trx,
         InsertQueryRCTResult(t, w, ids), plan[t] = "commit",
         tst' \in [Trx -> [st : Status, ct : Nat]], tst'[t].st = "V",
         \A r \in Trx : r # t => tst'[r] = tst[r],
         UNCHANGED <<bt, updates, dataVars>>
  PROVE  /\ TrxTypes' /\ DataTypes' /\ EndTypes' /\ Phases' /\ Statuses'
         /\ Updating' /\ Voting' /\ Terminating' /\ Left'
         /\ rct_list' \in [Trx -> SUBSET Trx] /\ collected' \in [Trx -> SUBSET Worker]
         /\ rct_list'[t] = rct_list[t] \cup ids /\ collected'[t] = collected[t] \cup {w}
         /\ \A r \in Trx : r # t => /\ plan'[r] = plan[r] /\ rct_list'[r] = rct_list[r]
                                    /\ collected'[r] = collected[r]
         /\ plan'[t] = IF collected'[t] = Worker THEN "validate" ELSE "commit"
         /\ UNCHANGED <<opt, term, outcome>>
<1> USE DEF dataVars, endVars
<1>1. /\ TrxTypes /\ RctTypes /\ DataTypes /\ EndTypes
      /\ Phases /\ Statuses /\ Updating /\ Voting /\ Terminating /\ Left
  BY Zenon DEF IInv, Types
<1>2. /\ rct_list' \in [Trx -> SUBSET Trx] /\ collected' \in [Trx -> SUBSET Worker]
      /\ rct_list'[t] = rct_list[t] \cup ids /\ collected'[t] = collected[t] \cup {w}
      /\ \A r \in Trx : r # t => rct_list'[r] = rct_list[r] /\ collected'[r] = collected[r]
  BY <1>1, Zenon DEF InsertQueryRCTResult, RctTypes
<1>3. UNCHANGED <<opt, term, outcome>>
  BY Zenon DEF InsertQueryRCTResult, SendValidation
<1>4. /\ plan' \in [Trx -> {"parsed", "begin", "run", "request", "commit", "validate", "abort", "end"}]
      /\ plan'[t] = IF collected'[t] = Worker THEN "validate" ELSE "commit"
      /\ \A r \in Trx : r # t => plan'[r] = plan[r]
  BY <1>1, <1>2 DEF InsertQueryRCTResult, SendValidation, TrxTypes
<1>5. /\ vote' \in [Worker -> [Trx -> {"none", "start", "step", "opt", "homo", "commit", "abort"}]]
      /\ \A x \in Worker, r \in Trx : r # t => vote'[x][r] = vote[x][r]
      /\ plan'[t] = "validate" => \A x \in Worker : vote'[x][t] = "start"
      /\ plan'[t] = "commit" => \A x \in Worker : vote'[x][t] = vote[x][t]
  BY <1>1, <1>2, <1>4 DEF InsertQueryRCTResult, SendValidation, EndTypes
<1>6. TrxTypes' /\ DataTypes' /\ EndTypes'
  <2>1. DataTypes'
    BY <1>1, TypeFrames, Zenon
  <2>2. TrxTypes'
    BY <1>1, <1>4, Zenon DEF TrxTypes
  <2>3. EndTypes'
    BY <1>1, <1>3, <1>5, Zenon DEF EndTypes
  <2> QED
    BY <2>1, <2>2, <2>3, Zenon
<1>7. /\ outcome[t] = "none" /\ plan'[t] \in {"commit", "validate"}
      /\ <<t, "A">> \notin updates /\ <<t, "C">> \notin updates
  BY <1>1, <1>4, Zenon DEF Phases, Updating
<1>8. Phases'
  BY <1>1, <1>3, <1>4, <1>7, Zenon DEF Phases
<1>9. Statuses'
  BY <1>1, <1>3, <1>4, <1>7 DEF Statuses, Failed
<1>10. Updating'
  <2> SUFFICES ASSUME NEW r \in Trx
               PROVE  /\ <<r, "A">> \in updates
                           => plan'[r] \in {"validate", "abort", "end"} /\ outcome[r] # "commit"
                      /\ <<r, "C">> \in updates => outcome[r] = "commit" /\ tst'[r].st = "V"
                      /\ plan'[r] = "validate" /\ (<<r, "A">> \in updates \/ tst'[r].st = "A")
                           => \E x \in Worker : vote'[x][r] = "abort"
    BY <1>3, Zenon DEF Updating
  <2>1. CASE r = t
    BY <1>7, <2>1, Zenon
  <2>2. CASE r # t
    BY <1>1, <1>4, <1>5, <2>2 DEF Updating
  <2> QED
    BY <2>1, <2>2, Zenon
<1>11. Voting'
  <2> SUFFICES ASSUME NEW r \in Trx
               PROVE  /\ outcome[r] = "none" /\ plan'[r] # "validate" => \A x \in Worker : vote'[x][r] = "none"
                      /\ plan'[r] = "validate" => \A x \in Worker : vote'[x][r] # "none"
                      /\ outcome[r] # "none" => \A x \in Worker : vote'[x][r] \in {"commit", "abort"}
                      /\ outcome[r] = "commit" => \A x \in Worker : vote'[x][r] = "commit"
    BY <1>3, Zenon DEF Voting
  <2>1. CASE r = t
    <3>1. plan'[t] = "commit" => \A x \in Worker : vote'[x][t] = "none"
      BY <1>1, <1>5, <1>7 DEF Voting
    <3> QED
      BY <1>5, <1>7, <2>1, <3>1, Zenon
  <2>2. CASE r # t
    <3>1. plan'[r] = plan[r] /\ \A x \in Worker : vote'[x][r] = vote[x][r]
      BY <1>4, <1>5, <2>2, ZenonT(30)
    <3> QED
      BY <1>1, <3>1 DEF Voting
  <2> QED
    BY <2>1, <2>2, Zenon
<1>12. Terminating' /\ Left'
  <2>1. Terminating'
    BY <1>1, <1>3, <1>4, <1>7 DEF Terminating
  <2>2. Left'
    BY <1>1, <1>3, <1>4, <1>7, ZenonT(30) DEF Left, Failed
  <2> QED
    BY <2>1, <2>2, Zenon
<1> QED
  BY <1>2, <1>3, <1>4, <1>6, <1>8, <1>9, <1>10, <1>11, <1>12, Zenon

(* The owner of an uncommitted version stays timed. *)
LEMMA OwnedFrame ==
  ASSUME IInv, NEW t \in Trx, Timed(t), Timed(t)',
         UNCHANGED <<pending_ts, tst, versions, tail>>,
         \A r \in Trx : r # t => plan'[r] = plan[r]
  PROVE  Owned'
<1>1. DataTypes /\ Owned
  BY Zenon DEF IInv, Types
<1> SUFFICES ASSUME NEW k \in Key, tail[k] # NoTrx
             PROVE  /\ k \in Writes[tail[k]]
                    /\ Timed(tail[k])' => LastCt(k) < tst[tail[k]].ct
                    /\ \A w \in Worker : \A a \in Queue(w) :
                         a.trx = tail[k] /\ a.type = "commit" => LastCt(k) < a.ts
  BY Zenon DEF Owned, LastCt, Timed, Queue
<1>2. PICK r \in Trx : r = tail[k]
  BY <1>1, Zenon DEF DataTypes
<1>3. Timed(r)' => Timed(r)
  BY Zenon DEF Timed
<1>4. Timed(tail[k])' => Timed(tail[k])
  BY <1>2, <1>3, Zenon DEF Timed
<1> QED
  BY <1>1, <1>4, Zenon DEF Owned

(* Worker::RecvNotification, RCT_TIDS. *)
LEMMA RecvRCTTidsInv ==
  ASSUME IInv, NEW a \in answers, RecvRCTTids(a)
  PROVE  IInv'
<1> USE DEF tsVars, dataVars
<1>1. /\ TsTypes /\ TrxTypes /\ RctTypes /\ DataTypes /\ EndTypes
      /\ Pending /\ Asked /\ Recent /\ ReadAhead
      /\ Handed /\ Owned /\ VersionsInCommitOrder /\ Orphans
  BY Zenon DEF IInv, Types
<1>2. PICK w \in Worker, t \in Trx, ids \in SUBSET Trx : w = a[1] /\ t = a[2] /\ ids = a[3]
  BY <1>1, AnswerTypes, Zenon
<1>3. /\ plan[t] = "commit" /\ tst[t].st = "V" /\ w \notin collected[t] /\ <<w, t>> \notin queries
      /\ Earlier(ids, t) /\ CtFixed(t)
      /\ \A b \in answers : b[1] = w /\ b[2] = t => b = a
  BY <1>1, <1>2, Zenon DEF Asked, Asks, Recent, CtFixed
<1>4. /\ answers' = answers \ {a} /\ InsertQueryRCTResult(t, w, ids)
      /\ UNCHANGED <<tsVars, bt, tst, updates, rct, queries, dataVars>>
  BY <1>2, Zenon DEF RecvRCTTids
<1>5. /\ TrxTypes' /\ DataTypes' /\ EndTypes' /\ Phases' /\ Statuses'
      /\ Updating' /\ Voting' /\ Terminating' /\ Left'
      /\ rct_list' \in [Trx -> SUBSET Trx] /\ collected' \in [Trx -> SUBSET Worker]
      /\ rct_list'[t] = rct_list[t] \cup ids /\ collected'[t] = collected[t] \cup {w}
      /\ \A r \in Trx : r # t => /\ plan'[r] = plan[r] /\ rct_list'[r] = rct_list[r]
                                 /\ collected'[r] = collected[r]
      /\ plan'[t] = IF collected'[t] = Worker THEN "validate" ELSE "commit"
      /\ UNCHANGED <<opt, term, outcome>>
  BY <1>1, <1>3, <1>4, ResultInserted, Zenon DEF TrxTypes
<1>6. Types'
  <2>1. RctTypes'
    BY <1>1, <1>4, <1>5, Zenon DEF RctTypes
  <2> QED
    BY <1>1, <1>4, <1>5, <2>1, TypeFrames, Zenon DEF Types
<1>7. FixedStays
  BY <1>3, <1>4, <1>5, Zenon DEF FixedStays, CtFixed
<1>8. Pending'
  <2>1. \A x \in Worker : Queue(x)' = Queue(x) /\ pending_ts'[x] = pending_ts[x]
    BY <1>4, Zenon DEF Queue
  <2>2. \A x \in Worker : \A e \in Queue(x) : e.trx \in Trx /\ e.type \in {"begin", "commit"} /\ e.trx # t
    BY <1>1, <1>3, QueueTypes DEF Pending
  <2>3. \A x \in Worker : \A e \in Queue(x) : plan'[e.trx] = plan[e.trx]
    BY <1>5, <2>2, Zenon
  <2> QED
    BY <1>1, <1>4, <2>1, <2>3 DEF Pending
<1>9. \A x \in Worker, r \in Trx : Asks(x, r) /\ ~ (x = w /\ r = t) => Asks(x, r)'
  BY <1>4, <1>5, Zenon DEF Asks
<1>10. Asked'
  <2>1. \A q \in queries : Asks(q[1], q[2])'
    BY <1>1, <1>3, <1>9 DEF Asked, RctTypes
  <2>2. \A b \in answers' : Asks(b[1], b[2])'
    BY <1>1, <1>3, <1>4, <1>9, AnswerTypes, Zenon DEF Asked
  <2>3. \A r \in Trx : collected'[r] # {} => CtFixed(r)'
    BY <1>1, <1>3, <1>5, <1>7, Zenon DEF Asked, FixedStays
  <2> QED
    BY <1>1, <1>4, <2>1, <2>2, <2>3, Zenon DEF Asked
<1>11. Recent'
  <2>1. \A x \in Worker : \A e \in rct[x] : CtFixed(e[2])' /\ tst'[e[2]].ct = e[1]
    BY <1>1, <1>7 DEF RctTypes, Recent, FixedStays
  <2>2. \A b \in answers' : Earlier(b[3], b[2])'
    BY <1>1, <1>4, <1>7, AnswerTypes, EarlierStays, Zenon DEF Recent
  <2>3. \A r \in Trx : rct_list'[r] # {} => CtFixed(r)' /\ Earlier(rct_list[r], r)'
    <3> SUFFICES ASSUME NEW r \in Trx, rct_list'[r] # {} PROVE CtFixed(r)' /\ Earlier(rct_list[r], r)'
      BY Zenon
    <3>1. CASE r # t
      <4>1. /\ rct_list'[r] = rct_list[r] /\ CtFixed(r)
            /\ \A s \in rct_list[r] : s \in Trx /\ CtFixed(s) /\ tst[s].ct < tst[r].ct
        BY <1>1, <1>5, <3>1, Zenon DEF Recent, RctTypes, Earlier
      <4>2. CtFixed(r)' /\ \A s \in rct_list[r] : CtFixed(s)' /\ tst'[s].ct < tst'[r].ct
        BY <1>7, <4>1, Zenon DEF FixedStays
      <4> QED
        BY <4>1, <4>2, Zenon DEF Earlier
    <3>2. CASE r = t
      <4>1. \A s \in rct_list[t] \cup ids : s \in Trx /\ CtFixed(s) /\ tst[s].ct < tst[t].ct
        BY <1>1, <1>3, Zenon DEF Recent, RctTypes, Earlier
      <4>2. CtFixed(t)' /\ \A s \in rct_list[t] \cup ids : CtFixed(s)' /\ tst'[s].ct < tst'[t].ct
        BY <1>3, <1>4, <1>7, <4>1, Zenon DEF FixedStays
      <4> QED
        BY <1>5, <3>2, <4>2, Zenon DEF Earlier
    <3> QED
      BY <3>1, <3>2, Zenon
  <2>4. \A x \in Worker, r \in Trx : opt'[x][r] \subseteq rct_list'[r]
    BY <1>1, <1>5, Zenon DEF Recent
  <2> QED
    BY <1>4, <2>1, <2>2, <2>3, <2>4, Zenon DEF Recent
<1>12. ReadAhead'
  <2>1. \A r \in Trx : plan[r] \notin {"parsed", "begin"} => plan'[r] \notin {"parsed", "begin"}
    BY <1>5, Zenon
  <2> QED
    BY <1>1, <1>4, <1>7, <2>1, ReadAheadFrame, Zenon
<1>13. Handed' /\ VersionsInCommitOrder' /\ Orphans'
  BY <1>1, <1>4, <1>5, ListFrames, Zenon
<1>14. Owned'
  BY <1>3, <1>4, <1>5, OwnedFrame, Zenon DEF Timed
<1> QED
  BY <1>5, <1>6, <1>8, <1>10, <1>11, <1>12, <1>13, <1>14, Zenon DEF IInv

(* RCTable::query_trx returns transactions that committed before. *)
LEMMA QueryResult ==
  ASSUME RctTypes, Recent, NEW w \in Worker, NEW b \in Nat, NEW c \in Nat
  PROVE  /\ query_trx(rct[w], b, c - 1) \in SUBSET Trx
         /\ \A r \in query_trx(rct[w], b, c - 1) : CtFixed(r) /\ tst[r].ct < c
<1>1. \A e \in rct[w] : e[1] \in Nat /\ e[2] \in Trx /\ CtFixed(e[2]) /\ tst[e[2]].ct = e[1]
  BY DEF RctTypes, Recent
<1> QED
  BY <1>1 DEF query_trx

(* Coordinator::ProcessQueryRCTRequest. *)
LEMMA QueryRCTInv ==
  ASSUME IInv, NEW w \in Worker, NEW t \in Trx, ProcessQueryRCTRequest(w, t)
  PROVE  IInv'
<1> USE DEF tsVars, dataVars, endVars
<1>1. /\ TsTypes /\ TrxTypes /\ RctTypes /\ DataTypes /\ EndTypes
      /\ Phases /\ Statuses /\ Updating /\ Voting /\ Terminating /\ Left
      /\ Pending /\ Asked /\ Recent /\ ReadAhead
      /\ Handed /\ Owned /\ VersionsInCommitOrder /\ Orphans
  BY Zenon DEF IInv, Types
<1>2. bt[t] \in Nat /\ tst[t].ct \in Nat
  BY <1>1, Zenon DEF TrxTypes
<1>3. PICK ids \in SUBSET Trx :
        /\ answers' = answers \cup {<<w, t, ids>>}
        /\ \A r \in ids : CtFixed(r) /\ tst[r].ct < tst[t].ct
  BY <1>1, <1>2, QueryResult, Zenon DEF ProcessQueryRCTRequest
<1>4. /\ <<w, t>> \in queries /\ queries' = queries \ {<<w, t>>}
      /\ UNCHANGED <<tsVars, plan, bt, tst, updates, rct, rct_list, collected, dataVars, endVars>>
  BY Zenon DEF ProcessQueryRCTRequest
<1>5. Types'
  <2>1. TsTypes' /\ TrxTypes' /\ DataTypes' /\ EndTypes'
    BY <1>1, <1>4, TypeFrames, Zenon
  <2>2. RctTypes'
    BY <1>1, <1>3, <1>4 DEF RctTypes
  <2> QED
    BY <2>1, <2>2, Zenon DEF Types
<1>6. Phases' /\ Statuses' /\ Updating'
  BY <1>1, <1>4, PlanFrames, Zenon
<1>7. Voting' /\ Terminating' /\ Left'
  BY <1>1, <1>4, PlanFrames, Zenon
<1>8. Pending'
  BY <1>1, <1>4, Zenon DEF Pending, Queue
<1>9. \A b \in answers : ~ (b[1] = w /\ b[2] = t)
  BY <1>1, <1>4, Zenon DEF Asked
<1>10. Asked'
  BY <1>1, <1>3, <1>4, <1>9 DEF Asked, Asks, CtFixed
<1>11. Recent'
  BY <1>1, <1>3, <1>4 DEF Recent, Earlier, CtFixed
<1>12. ReadAhead'
  BY <1>1, <1>4, Zenon DEF ReadAhead, CtFixed
<1>13. Handed' /\ Owned' /\ VersionsInCommitOrder' /\ Orphans'
  BY <1>1, <1>4, ListFrames, Zenon
<1> QED
  BY <1>5, <1>6, <1>7, <1>8, <1>10, <1>11, <1>12, <1>13, Zenon DEF IInv

(* Worker::ProcessAllocatedTimestamp, COMMIT_TIME. *)
LEMMA CommitTimeInv ==
  ASSUME IInv, NEW w \in Worker, CommitTime(w)
  PROVE  IInv'
<1> USE DEF dataVars
<1>1. /\ TsTypes /\ TrxTypes /\ RctTypes /\ DataTypes /\ EndTypes
      /\ Pending /\ Asked /\ Recent /\ ReadAhead
      /\ Handed /\ Owned /\ VersionsInCommitOrder /\ Orphans
  BY Zenon DEF IInv, Types
<1>2. /\ pending_ts[w] \in Seq(Stamp) /\ pending_ts[w] # <<>> /\ Distinct(pending_ts[w])
      /\ Head(pending_ts[w]).type = "commit"
  BY <1>1, QueueTypes, Zenon DEF CommitTime, Pending
<1>3. PICK a \in Queue(w) : a = Head(pending_ts[w])
  BY <1>2, QueueTail, Zenon DEF Queue
<1>4. /\ a.trx \in Trx /\ a.ts \in Nat /\ a.ts <= clock /\ a.type = "commit"
      /\ plan[a.trx] = "commit" /\ tst[a.trx].st = "P"
  BY <1>1, <1>2, <1>3, QueueTypes, Zenon DEF Pending
<1>5. PICK t \in Trx, c \in Nat : t = a.trx /\ c = a.ts
  BY <1>4, Zenon
<1>6. /\ plan[t] = "commit" /\ ~ CtFixed(t) /\ collected[t] = {} /\ rct_list[t] = {} /\ bt[t] \in Nat
  BY <1>1, <1>4, <1>5, Zenon DEF CtFixed, Asked, Recent, TrxTypes
<1>7. /\ rct' = [rct EXCEPT ![w] = rct[w] \cup {<<c, t>>}]
      /\ tst' = [tst EXCEPT ![t] = [st |-> "V", ct |-> c]]
      /\ InsertQueryRCTResult(t, w, query_trx(rct'[w], bt[t], c - 1))
      /\ queries' = queries \cup ((Worker \ {w}) \X {t})
      /\ pending_ts' = [pending_ts EXCEPT ![w] = Tail(pending_ts[w])]
      /\ UNCHANGED <<clock, bt, updates, answers, dataVars>>
  BY <1>3, <1>5, Zenon DEF CommitTime
<1>8. /\ pending_ts' \in [Worker -> Seq(Stamp)] /\ pending_ts'[w] = Tail(pending_ts[w])
      /\ \A x \in Worker : x # w => pending_ts'[x] = pending_ts[x]
  BY <1>1, <1>2, <1>7, QueueTail, Zenon DEF TsTypes
<1>9. \A x \in Worker : Distinct(pending_ts'[x]) /\ Queue(x)' \subseteq Queue(x)
  <2>1. /\ Distinct(Tail(pending_ts[w]))
        /\ Elems(Tail(pending_ts[w])) \subseteq Elems(pending_ts[w])
    BY <1>2, QueueTail, Zenon
  <2>2. \A x \in Worker : Distinct(pending_ts[x])
    BY <1>1, Zenon DEF Pending
  <2> QED
    BY <1>8, <2>1, <2>2, Zenon DEF Queue
<1>10. \A x \in Worker : \A e \in Queue(x)' : e.trx \in Trx /\ e.trx # t
  <2> SUFFICES ASSUME NEW x \in Worker, NEW e \in Queue(x)' PROVE e.trx \in Trx /\ e.trx # t
    BY Zenon
  <2>1. e \in Queue(x) /\ e.trx \in Trx
    BY <1>1, <1>9, QueueTypes, Zenon
  <2>2. CASE x = w
    BY <1>2, <1>3, <1>5, <1>8, <2>1, <2>2, QueueTail, Zenon DEF Queue
  <2>3. CASE x # w
    BY <1>1, <1>3, <1>5, <2>1, <2>3 DEF Pending
  <2> QED
    BY <2>1, <2>2, <2>3, Zenon
<1>11. /\ tst' \in [Trx -> [st : Status, ct : Nat]] /\ tst'[t].st = "V" /\ tst'[t].ct = c
       /\ \A r \in Trx : r # t => tst'[r] = tst[r]
  BY <1>1, <1>7, Zenon DEF TrxTypes, Status
<1>12. /\ rct' \in [Worker -> SUBSET (Nat \X Trx)] /\ rct'[w] = rct[w] \cup {<<c, t>>}
       /\ \A x \in Worker : x # w => rct'[x] = rct[x]
  BY <1>1, <1>7 DEF RctTypes
<1>13. query_trx(rct'[w], bt[t], c - 1) = query_trx(rct[w], bt[t], c - 1)
  <2>1. {y \in rct'[w] : bt[t] <= y[1] /\ y[1] <= c - 1} = {y \in rct[w] : bt[t] <= y[1] /\ y[1] <= c - 1}
    <3>1. ~ (c <= c - 1) /\ <<c, t>>[1] = c
      OBVIOUS
    <3> QED
      BY <1>12, <3>1, Zenon
  <2> QED
    BY <2>1, Zenon DEF query_trx
<1>14. PICK ids \in SUBSET Trx :
         /\ InsertQueryRCTResult(t, w, ids)
         /\ \A r \in ids : CtFixed(r) /\ tst[r].ct < c
  BY <1>1, <1>6, <1>7, <1>13, QueryResult, Zenon
<1>15. /\ TrxTypes' /\ DataTypes' /\ EndTypes' /\ Phases' /\ Statuses'
       /\ Updating' /\ Voting' /\ Terminating' /\ Left'
       /\ rct_list' \in [Trx -> SUBSET Trx] /\ collected' \in [Trx -> SUBSET Worker]
       /\ rct_list'[t] = rct_list[t] \cup ids /\ collected'[t] = collected[t] \cup {w}
       /\ \A r \in Trx : r # t => /\ plan'[r] = plan[r] /\ rct_list'[r] = rct_list[r]
                                  /\ collected'[r] = collected[r]
       /\ plan'[t] = IF collected'[t] = Worker THEN "validate" ELSE "commit"
       /\ UNCHANGED <<opt, term, outcome>>
  BY <1>6, <1>7, <1>11, <1>14, ResultInserted, Zenon
<1>16. Types'
  <2>1. TsTypes'
    BY <1>1, <1>7, <1>8, Zenon DEF TsTypes
  <2>2. RctTypes'
    BY <1>1, <1>7, <1>12, <1>15 DEF RctTypes
  <2> QED
    BY <1>15, <2>1, <2>2, Zenon DEF Types
<1>17. FixedStays /\ CtFixed(t)'
  BY <1>6, <1>11, <1>15, ZenonT(30) DEF FixedStays, CtFixed
<1>18. Pending'
  <2>1. \A x \in Worker : \A e \in Queue(x)' : plan'[e.trx] = plan[e.trx] /\ tst'[e.trx] = tst[e.trx]
    BY <1>10, <1>11, <1>15, Zenon
  <2> QED
    BY <1>1, <1>7, <1>9, <2>1 DEF Pending
<1>19. \A x \in Worker, r \in Trx : Asks(x, r) => r # t /\ Asks(x, r)'
  BY <1>6, <1>11, <1>15, Zenon DEF Asks, CtFixed
<1>20. Asked'
  <2>1. \A q \in queries' : Asks(q[1], q[2])'
    <3> SUFFICES ASSUME NEW q \in queries' PROVE Asks(q[1], q[2])'
      BY Zenon
    <3>1. CASE q \in queries
      BY <1>1, <1>19, <3>1, Zenon DEF Asked, RctTypes
    <3>2. CASE q \notin queries
      <4>1. q[1] \in Worker /\ q[1] # w /\ q[2] = t
        BY <1>7, <3>2, Zenon
      <4>2. q[1] \notin collected'[t]
        BY <1>6, <1>15, <4>1, Zenon
      <4>3. plan'[t] = "commit" /\ tst'[t].st = "V"
        BY <1>11, <1>15, <4>1, <4>2, Zenon
      <4> QED
        BY <4>1, <4>2, <4>3, Zenon DEF Asks
    <3> QED
      BY <3>1, <3>2, Zenon
  <2>2. \A b \in answers : Asks(b[1], b[2])' /\ <<b[1], b[2]>> \notin queries'
    BY <1>1, <1>7, <1>19, AnswerTypes, Zenon DEF Asked
  <2>3. \A r \in Trx : collected'[r] # {} => CtFixed(r)'
    BY <1>1, <1>15, <1>17, Zenon DEF Asked, FixedStays
  <2> QED
    BY <1>1, <1>7, <2>1, <2>2, <2>3, Zenon DEF Asked
<1>21. Recent'
  <2>1. \A x \in Worker : \A e \in rct'[x] : CtFixed(e[2])' /\ tst'[e[2]].ct = e[1]
    <3>1. \A x \in Worker : \A e \in rct'[x] : e \in rct[x] \/ e = <<c, t>>
      BY <1>12, Zenon
    <3>2. \A x \in Worker : \A e \in rct[x] : CtFixed(e[2])' /\ tst'[e[2]].ct = e[1]
      BY <1>1, <1>17 DEF RctTypes, Recent, FixedStays
    <3> QED
      BY <1>11, <1>17, <3>1, <3>2
  <2>2. \A b \in answers : Earlier(b[3], b[2])'
    BY <1>1, <1>17, AnswerTypes, EarlierStays, Zenon DEF Recent
  <2>3. \A r \in Trx : rct_list'[r] # {} => CtFixed(r)' /\ Earlier(rct_list[r], r)'
    <3> SUFFICES ASSUME NEW r \in Trx, rct_list'[r] # {} PROVE CtFixed(r)' /\ Earlier(rct_list[r], r)'
      BY Zenon
    <3>1. CASE r # t
      <4>1. /\ rct_list'[r] = rct_list[r] /\ CtFixed(r)
            /\ \A s \in rct_list[r] : s \in Trx /\ CtFixed(s) /\ tst[s].ct < tst[r].ct
        BY <1>1, <1>15, <3>1, Zenon DEF Recent, RctTypes, Earlier
      <4>2. CtFixed(r)' /\ \A s \in rct_list[r] : CtFixed(s)' /\ tst'[s].ct < tst'[r].ct
        BY <1>17, <4>1, Zenon DEF FixedStays
      <4> QED
        BY <4>1, <4>2, Zenon DEF Earlier
    <3>2. CASE r = t
      <4>1. \A s \in ids : CtFixed(s)' /\ tst'[s].ct < tst'[t].ct
        BY <1>11, <1>14, <1>17, Zenon DEF FixedStays
      <4> QED
        BY <1>6, <1>15, <1>17, <3>2, <4>1, Zenon DEF Earlier
    <3> QED
      BY <3>1, <3>2, Zenon
  <2>4. \A x \in Worker, r \in Trx : opt'[x][r] \subseteq rct_list'[r]
    BY <1>1, <1>15, Zenon DEF Recent
  <2> QED
    BY <1>7, <2>1, <2>2, <2>3, <2>4, Zenon DEF Recent
<1>22. ReadAhead'
  <2>1. \A r \in Trx : plan[r] \notin {"parsed", "begin"} => plan'[r] \notin {"parsed", "begin"}
    BY <1>15, Zenon
  <2> QED
    BY <1>1, <1>7, <1>17, <2>1, ReadAheadFrame, Zenon
<1>23. Handed'
  BY <1>1, <1>4, <1>5, <1>7, <1>11, Zenon DEF Handed, LastCt, TsTypes
<1>24. Owned'
  <2> SUFFICES ASSUME NEW k \in Key, tail[k] # NoTrx
               PROVE  /\ k \in Writes[tail[k]]
                      /\ Timed(tail[k])' => LastCt(k) < tst'[tail[k]].ct
                      /\ \A x \in Worker : \A e \in Queue(x)' :
                           e.trx = tail[k] /\ e.type = "commit" => LastCt(k) < e.ts
    BY <1>7, Zenon DEF Owned, LastCt, Timed
  <2>1. PICK r \in Trx : r = tail[k]
    BY <1>1, Zenon DEF DataTypes
  <2>2. CASE r = t
    <3>1. LastCt(k) < c
      BY <1>1, <1>3, <1>4, <1>5, <2>1, <2>2, Zenon DEF Owned
    <3> QED
      BY <1>1, <1>9, <1>11, <2>1, <2>2, <3>1, Zenon DEF Owned
  <2>3. CASE r # t
    <3>1. Timed(r)' => Timed(r)
      BY <1>11, <1>15, <2>3, Zenon DEF Timed
    <3>2. Timed(tail[k])' => Timed(tail[k])
      BY <1>7, <2>1, <3>1, Zenon DEF Timed
    <3> QED
      BY <1>1, <1>9, <1>11, <2>1, <2>3, <3>2, Zenon DEF Owned
  <2> QED
    BY <2>2, <2>3, Zenon
<1>25. VersionsInCommitOrder' /\ Orphans'
  BY <1>1, <1>7, <1>15, ListFrames, Zenon
<1> QED
  BY <1>15, <1>16, <1>18, <1>20, <1>21, <1>22, <1>23, <1>24, <1>25, Zenon DEF IInv

-----------------------------------------------------------------------------
LEMMA StepInv == IInv /\ [Next]_vars => IInv'
<1> SUFFICES ASSUME IInv, [Next]_vars PROVE IInv'
  BY Zenon
<1>1. CASE UNCHANGED vars
  <2>1. /\ TsTypes /\ TrxTypes /\ RctTypes /\ DataTypes /\ EndTypes
        /\ Phases /\ Statuses /\ Updating /\ Voting /\ Terminating /\ Left
        /\ Handed /\ Owned /\ VersionsInCommitOrder /\ Orphans
    BY Zenon DEF IInv, Types
  <2>2. Types'
    BY <1>1, <2>1, TypeFrames, Zenon DEF vars, Types
  <2>3. Phases' /\ Statuses' /\ Updating' /\ Voting' /\ Terminating' /\ Left'
    BY <1>1, <2>1, PlanFrames, Zenon DEF vars
  <2>4. Pending' /\ Asked' /\ Recent' /\ ReadAhead'
    BY <1>1, SteadyStep, SteadyFrame, Zenon DEF vars
  <2>5. Handed' /\ Owned' /\ VersionsInCommitOrder' /\ Orphans'
    BY <1>1, <2>1, ListFrames, Zenon DEF vars
  <2> QED
    BY <2>2, <2>3, <2>4, <2>5, Zenon DEF IInv
<1>2. CASE \E t \in Trx : \/ ProcessTimestampRequest(t) \/ RegisterValidation(t)
                          \/ PostValidation(t) \/ ReplyClient(t)
  BY <1>2, AllocateInv, RegisterInv, PostValidationInv, ReplyClientInv, Zenon
<1>3. CASE \E w \in Worker : BeginTime(w) \/ CommitTime(w)
  BY <1>3, BeginTimeInv, CommitTimeInv, Zenon
<1>4. CASE \E w \in Worker, t \in Trx :
             \/ ProcessQueryRCTRequest(w, t)
             \/ StartValidation(w, t) \/ StepValidation(w, t)
             \/ ValidOptimisticValidation(w, t) \/ ValidOptimisticRead(w, t)
             \/ Exit(w, t)
  BY <1>4, QueryRCTInv, ValidationInv, ExitInv, Zenon
<1>5. CASE \E t \in Trx : \E op \in Ops(t) : Execute(t, op)
  BY <1>5, ExecuteInv, Zenon
<1>6. CASE \E t \in Trx, k \in Key : Read(t, k) \/ Write(t, k) \/ TerminateVersion(t, k)
  BY <1>6, ReadInv, WriteInv, TerminateVersionInv, Zenon
<1>7. CASE \E a \in answers : RecvRCTTids(a)
  BY <1>7, RecvRCTTidsInv, Zenon
<1>8. CASE \E u \in updates : ProcessTrxTableWriteReqs(u)
  BY <1>8, StatusUpdateInv, Zenon
<1> QED
  BY <1>1, <1>2, <1>3, <1>4, <1>5, <1>6, <1>7, <1>8, Zenon DEF Next, Idle

LEMMA AlwaysIInv == Spec => []IInv
<1>1. Init => IInv
  BY InitInv, Zenon
<1>2. IInv /\ [Next]_vars => IInv'
  BY StepInv, Zenon
<1> QED
  BY <1>1, <1>2, PTL DEF Spec

-----------------------------------------------------------------------------
(* Versions of a key are committed in the order of their commit times,     *)
(* whatever the workers, the transactions and their keys.                  *)
THEOREM VersionsAlwaysInCommitOrder == Spec => []VersionsInCommitOrder
<1>1. IInv => VersionsInCommitOrder
  BY Zenon DEF IInv
<1> QED
  BY <1>1, AlwaysIInv, PTL

(* With locks that lock, a terminated transaction leaves no uncommitted    *)
(* version behind: the terminate expert has waited for its operations, and *)
(* none starts after the status says ABORT.                                *)
THEOREM NoVersionOrphaned ==
  ASSUME Locks
  PROVE  Spec => []NoOrphanVersion
<1>1. IInv => NoOrphanVersion
  BY Zenon DEF IInv, Orphans
<1> QED
  BY <1>1, AlwaysIInv, PTL

(* The CHECKs of the status table never fail, although the updates reach   *)
(* it asynchronously and in any order.                                     *)
THEOREM StatusChecksAlwaysHold == Spec => []StatusChecksHold
<1>1. IInv => StatusChecksHold
  <2> SUFFICES ASSUME IInv, NEW u \in updates
               PROVE  /\ u[2] = "C" => tst[u[1]].st = "V" /\ <<u[1], "A">> \notin updates
                      /\ u[2] = "A" => tst[u[1]].st \in {"P", "V", "A"}
    BY Zenon DEF StatusChecksHold
  <2>1. PICK t \in Trx, s \in {"C", "A"} : u = <<t, s>> /\ t = u[1] /\ s = u[2]
    BY DEF IInv, Types, TrxTypes
  <2>2. /\ <<t, "A">> \in updates => plan[t] \in {"validate", "abort", "end"} /\ outcome[t] # "commit"
        /\ <<t, "C">> \in updates => outcome[t] = "commit" /\ tst[t].st = "V"
    BY Zenon DEF IInv, Updating
  <2>3. /\ Failed(t) => tst[t].st \in {"P", "A"}
        /\ plan[t] = "validate" /\ outcome[t] = "none" => tst[t].st \in {"V", "A"}
        /\ outcome[t] = "abort" => tst[t].st \in {"V", "A"}
    BY Zenon DEF IInv, Statuses
  <2>4. outcome[t] \in {"none", "commit", "abort"}
    BY Zenon DEF IInv, Types, EndTypes
  <2> QED
    BY <2>1, <2>2, <2>3, <2>4, Zenon DEF Failed
<1> QED
  BY <1>1, AlwaysIInv, PTL

(* The waits of optimistic validation and of optimistic reads go back in   *)
(* time, so validations never wait for each other in a circle.             *)
THEOREM WaitsAlwaysForOlder == Spec => []WaitsForOlder
<1>1. IInv => WaitsForOlder
  <2> SUFFICES ASSUME IInv, NEW w \in Worker, NEW t \in Trx
               PROVE  /\ \A r \in opt[w][t] : tst[r].ct < tst[t].ct
                      /\ \A r \in homo[w][t] : tst[r].ct < bt[t]
    BY Zenon DEF WaitsForOlder
  <2>1. \A r \in opt[w][t] : tst[r].ct < tst[t].ct
    BY Zenon DEF IInv, Recent, Earlier
  <2>2. \A r \in homo[w][t] : tst[r].ct < bt[t]
    BY Zenon DEF IInv, ReadAhead
  <2> QED
    BY <2>1, <2>2, Zenon
<1> QED
  BY <1>1, AlwaysIInv, PTL

=============================================================================
