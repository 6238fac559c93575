---------------------------- MODULE VersionChain ----------------------------
(***************************************************************************)
(* What one multi-version list promises to the transactions of the system, *)
(* with no pointers: the committed versions in commit order, at most one   *)
(* transaction writing, and a floor: what a transaction finds that began   *)
(* at or after it is kept.  MVCCList is shown to implement this.           *)
(***************************************************************************)
EXTENDS Integers, Sequences

CONSTANTS Trx,      \* transaction identifiers
          NoTrx,    \* no transaction is writing
          Value,    \* values, Empty among them
          Empty,    \* the value of a deleted version
          MaxTime   \* timestamps are below MaxTime

(* What the theorems assume of them. *)
ConstantsOK == NoTrx \notin Trx /\ Empty \in Value /\ MaxTime \in Nat \ {0}

VARIABLES versions,  \* committed versions: [begin, val], oldest first
          writer,    \* the transaction with an uncommitted version, or NoTrx
          wval,      \* the value of the uncommitted version
          floor      \* collection keeps what is found from here on

vars == <<versions, writer, wval, floor>>

Time == 0 .. MaxTime - 1

Version == [begin : Time, val : Value]

(* TypeOK: every version began at a time below MaxTime. *)
TypeOK ==
  /\ versions \in Seq(Version)
  /\ writer \in Trx \cup {NoTrx}
  /\ wval \in Value
  /\ floor \in Time

Init ==
  /\ \/ versions = <<>>
     \/ \E v \in Value \ {Empty} : versions = <<[begin |-> 0, val |-> v]>>
  /\ writer = NoTrx
  /\ wval = Empty
  /\ floor = 0

(* v is what a transaction that began at ts finds in the versions vs: the  *)
(* value of the last version not younger than ts; nothing and a deleted    *)
(* version are the same to it.                                             *)
Finds(vs, ts, v) ==
  \/ \E i \in 1 .. Len(vs) :
       /\ vs[i].begin <= ts
       /\ i = Len(vs) \/ ts < vs[i + 1].begin
       /\ v = vs[i].val
  \/ /\ vs = <<>> \/ ts < vs[1].begin
     /\ v = Empty

-----------------------------------------------------------------------------
(* A version of t; a tail of another transaction refuses it. *)
Append_(t, v) ==
  /\ writer \in {NoTrx, t}
  /\ writer' = t
  /\ wval' = v
  /\ UNCHANGED <<versions, floor>>

(* The writer commits at ts, later than every version committed so far. *)
Commit(ts) ==
  /\ writer # NoTrx
  /\ \A i \in 1 .. Len(versions) : versions[i].begin < ts
  /\ versions' = Append(versions, [begin |-> ts, val |-> wval])
  /\ writer' = NoTrx
  /\ wval' = Empty
  /\ UNCHANGED floor

Abort ==
  /\ writer # NoTrx
  /\ writer' = NoTrx
  /\ wval' = Empty
  /\ UNCHANGED <<versions, floor>>

(* Garbage collection drops a prefix that no begin time from the floor on  *)
(* finds.                                                                  *)
Collect(n) ==
  LET rest == SubSeq(versions, n + 1, Len(versions)) IN
  /\ n <= Len(versions)
  /\ \A ts \in floor .. MaxTime - 1, v \in Value :
       Finds(versions, ts, v) <=> Finds(rest, ts, v)
  /\ versions' = rest
  /\ UNCHANGED <<writer, wval, floor>>

RaiseFloor ==
  /\ floor' \in Time
  /\ floor < floor'
  /\ UNCHANGED <<versions, writer, wval>>

Next ==
  \/ \E t \in Trx, v \in Value : Append_(t, v)
  \/ \E ts \in Time : Commit(ts)
  \/ Abort
  \/ \E n \in 1 .. Len(versions) : Collect(n)
  \/ RaiseFloor

Spec == Init /\ [][Next]_vars
-----------------------------------------------------------------------------
(* VersionsSorted: the versions stand in the order of their commit times,  *)
(* no two with the same one, which is what lets a reader stop at the first *)
(* version whose lifetime has not ended.                                   *)
VersionsSorted ==
  \A i, j \in 1 .. Len(versions) : i < j => versions[i].begin < versions[j].begin

(* OneAnswer: a transaction finds exactly one value, at every begin time.  *)
OneAnswer ==
  \A ts \in Time :
    /\ \E v \in Value : Finds(versions, ts, v)
    /\ \A u, v \in Value : Finds(versions, ts, u) /\ Finds(versions, ts, v) => u = v
=============================================================================
