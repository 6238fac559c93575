----------------------------- MODULE Calibration ----------------------------
(***************************************************************************)
(* The clock calibration of the coordinator (core/coordinator.cpp,         *)
(* utils/distributed_clock.cpp).                                           *)
(*                                                                         *)
(* With RDMA, node 0 exchanges four messages with every other node, twice  *)
(* in every loop.  A message is a cache line that is written to the        *)
(* memory of the other node, head tags first and foot tags last; the       *)
(* line a node sends from is the line it receives in.  A clock is its      *)
(* offset to the true time; a value that is sent is d ticks old when it is *)
(* compared with the receiver's clock.                                     *)
(*                                                                         *)
(* Without RDMA, node 0 measures all offsets (GlobalCalibrateMeasure): a   *)
(* pure computation, below.                                                *)
(***************************************************************************)
EXTENDS Integers, Sequences, FiniteSets, FiniteSetsExt

CONSTANTS CommSize, MaxLoop, MaxDelay, Offsets

VARIABLES line, pc, loop, round, partner, step, snapshot, sending, ns, remote_ns, offset, taken

vars == <<line, pc, loop, round, partner, step, snapshot, sending, ns, remote_ns, offset, taken>>

Rank == 0 .. CommSize - 1
NoTag == -1
EmptyLine == [head |-> NoTag, val |-> [ns |-> 0, tag |-> NoTag, by |-> 0], foot |-> NoTag]
NoSend == [to |-> 0, words |-> -1]

(* The tag of an exchange: the first of four. *)
TagOf(lp, rd, p) == (lp * (CommSize - 1) * 2 * 4) + (p - 1) * 4 + (rd * (CommSize - 1) * 4)

(* Node 0 goes through the partners, the others have one. *)
PartnerOf(n) == IF n = 0 THEN partner ELSE 0

(* Wrong variant: node 0 does not count the rounds. *)
TagNoRound(n) == TagOf(loop[n], IF n = 0 THEN 0 ELSE round[n], IF n = 0 THEN partner ELSE n)

Tag(n) == TagOf(loop[n], round[n], IF n = 0 THEN partner ELSE n)

Init ==
  /\ line = [n \in Rank |-> EmptyLine]
  /\ pc = [n \in Rank |-> IF n = 0 THEN "set" ELSE "read"]
  /\ loop = [n \in Rank |-> 0] /\ round = [n \in Rank |-> 0]
  /\ partner = 1 /\ step = [n \in Rank |-> 0]
  /\ snapshot = [n \in Rank |-> <<>>]
  /\ sending = [n \in Rank |-> NoSend]
  /\ ns = [n \in Rank |-> 0] /\ remote_ns = [n \in Rank |-> 0]
  /\ offset \in [Rank -> Offsets]
  /\ taken = [n \in Rank |-> {}]

Unfinished(n) == loop[n] < MaxLoop

-----------------------------------------------------------------------------
(* WriteTimestampToWorker: SetValue fills the own line; ... *)
Fill(n, v) ==
  /\ line' = [line EXCEPT ![n] = [head |-> Tag(n) + step[n],
                                  val |-> [ns |-> v, tag |-> Tag(n) + step[n], by |-> n],
                                  foot |-> Tag(n) + step[n]]]
  /\ sending' = [sending EXCEPT ![n] = [to |-> PartnerOf(n), words |-> 0]]

(* Steps 0 (the greeting) and 3 (the end) carry no time. *)
SetValue(n) ==
  /\ Unfinished(n) /\ pc[n] = "set"
  /\ Fill(n, IF step[n] \in {1, 2} THEN offset[n] ELSE 0)
  /\ ns' = IF step[n] \in {1, 2} THEN [ns EXCEPT ![n] = offset[n]] ELSE ns
  /\ pc' = [pc EXCEPT ![n] = "write"]
  /\ UNCHANGED <<loop, round, partner, step, snapshot, remote_ns, offset, taken>>

(* ... RdmaWrite brings it to the partner in the order of the addresses, ... *)
RdmaWrite(n) ==
  /\ pc[n] = "write" /\ sending[n].words < 3
  /\ line' = [line EXCEPT ![sending[n].to] =
       CASE sending[n].words = 0 -> [@ EXCEPT !.head = line[n].head]
         [] sending[n].words = 1 -> [@ EXCEPT !.val = line[n].val]
         [] OTHER -> [@ EXCEPT !.foot = line[n].foot]]
  /\ sending' = [sending EXCEPT ![n].words = @ + 1]
  /\ UNCHANGED <<pc, loop, round, partner, step, snapshot, ns, remote_ns, offset, taken>>

(* What a node does once its message number s is out: wait for the next    *)
(* one, or, after the last, correct its clock and go on.  The time that    *)
(* was received is d ticks older than the own time it is compared with.    *)
Corrected(n) == IF remote_ns[n] - ns[n] > 0 THEN [offset EXCEPT ![n] = @ + (remote_ns[n] - ns[n])] ELSE offset

(* The next round of node n, and for node 0 the next partner. *)
NextExchange(n) ==
  /\ step' = [step EXCEPT ![n] = 0]
  /\ IF n = 0 /\ partner < CommSize - 1
     THEN partner' = partner + 1 /\ UNCHANGED <<loop, round>>
     ELSE /\ partner' = (IF n = 0 THEN 1 ELSE partner)
          /\ round' = [round EXCEPT ![n] = 1 - @]
          /\ loop' = [loop EXCEPT ![n] = IF round[n] = 1 THEN @ + 1 ELSE @]

(* ... and returns when it is there.  A worker that has sent the end of    *)
(* the exchange corrects its clock.                                        *)
WriteDone(n) ==
  /\ pc[n] = "write" /\ sending[n].words = 3
  /\ sending' = [sending EXCEPT ![n] = NoSend]
  /\ pc' = [pc EXCEPT ![n] = "read"]
  /\ IF step[n] = 3
     THEN offset' = Corrected(n) /\ NextExchange(n)
     ELSE step' = [step EXCEPT ![n] = @ + 1] /\ UNCHANGED <<offset, loop, round, partner>>
  /\ UNCHANGED <<line, snapshot, ns, remote_ns, taken>>

-----------------------------------------------------------------------------
(* ReadTimestampFromRDMAMem: GetValue copies the line, ... *)
ReadHead(n) ==
  /\ Unfinished(n) /\ pc[n] = "read" /\ snapshot[n] = <<>>
  /\ line[n].head = Tag(n) + step[n]          \* any other tag: read again
  /\ snapshot' = [snapshot EXCEPT ![n] = <<line[n].head>>]
  /\ UNCHANGED <<line, pc, loop, round, partner, step, sending, ns, remote_ns, offset, taken>>

(* ... compares the tags at both ends with the one it waits for ... *)
ReadFoot(n) ==
  /\ pc[n] = "read" /\ Len(snapshot[n]) = 1
  /\ snapshot' = [snapshot EXCEPT ![n] = IF line[n].foot = @[1] THEN Append(@, line[n].foot) ELSE <<>>]
  /\ UNCHANGED <<line, pc, loop, round, partner, step, sending, ns, remote_ns, offset, taken>>

(* ... and takes the value out of the line, not out of the copy.  Node 0   *)
(* corrects its clock when the exchange ends (message 3); a worker reads   *)
(* its clock again when it has the time of node 0 (message 2).             *)
Took(n, v) == taken' = [taken EXCEPT ![n] = {[tag |-> Tag(n) + step[n], of |-> v.tag, by |-> v.by, from |-> PartnerOf(n)]}]

ReadVal(n, d) ==
  /\ pc[n] = "read" /\ Len(snapshot[n]) = 2
  /\ snapshot' = [snapshot EXCEPT ![n] = <<>>]
  /\ Took(n, line[n].val)
  /\ CASE step[n] \in {0, 1} ->
            /\ remote_ns' = IF step[n] = 1 THEN [remote_ns EXCEPT ![n] = line[n].val.ns - d] ELSE remote_ns
            /\ step' = [step EXCEPT ![n] = @ + 1] /\ pc' = [pc EXCEPT ![n] = "set"]
            /\ UNCHANGED <<ns, offset, loop, round, partner>>
       [] step[n] = 2 ->
            /\ remote_ns' = [remote_ns EXCEPT ![n] = line[n].val.ns - d]
            /\ ns' = [ns EXCEPT ![n] = offset[n]]
            /\ step' = [step EXCEPT ![n] = @ + 1] /\ pc' = [pc EXCEPT ![n] = "set"]
            /\ UNCHANGED <<offset, loop, round, partner>>
       [] OTHER ->
            /\ offset' = Corrected(n) /\ NextExchange(n)
            /\ pc' = [pc EXCEPT ![n] = "set"] /\ UNCHANGED <<ns, remote_ns>>
  /\ UNCHANGED <<line, sending>>

Next == \E n \in Rank : SetValue(n) \/ RdmaWrite(n) \/ WriteDone(n) \/ ReadHead(n) \/ ReadFoot(n) \/ (\E d \in 0 .. MaxDelay : ReadVal(n, d))

Spec == Init /\ [][Next]_vars

-----------------------------------------------------------------------------
(* The value that is read for a tag was written for that message of that   *)
(* exchange, by the partner: not by an earlier round, not by another       *)
(* worker, not half of it, although one line serves them all.              *)
OwnExchange == \A n \in Rank : \A t \in taken[n] : t.of = t.tag /\ t.by = t.from

(* The nodes never wait for each other: until the loops are done somebody  *)
(* has something to write, or a line that is waited for is complete.       *)
CanMove(n) ==
  Unfinished(n) /\ (pc[n] \in {"set", "write"} \/ (line[n].head = Tag(n) + step[n] /\ line[n].foot = Tag(n) + step[n]))
SomeoneMoves == (\E n \in Rank : Unfinished(n)) => \E n \in Rank : CanMove(n) \/ pc[n] = "write"

(* After both rounds of a loop ("sync all workers to the fastest clock")   *)
(* no two clocks are further apart than two deliveries take.               *)
Skew(m, n) == IF offset[m] > offset[n] THEN offset[m] - offset[n] ELSE offset[n] - offset[m]
AtLoopEnd == \A n \in Rank : loop[n] = loop[0] /\ round[n] = 0 /\ step[n] = 0 /\ loop[n] > 0 /\ partner = 1
SkewBounded == AtLoopEnd => \A m, n \in Rank : Skew(m, n) <= 2 * MaxDelay

-----------------------------------------------------------------------------
(* GlobalCalibrateMeasure.  nss[i] and remote_nss[i] are the times of      *)
(* exchange i at node 0 and at the partner.  The exchanges with the lowest *)
(* latencies are taken: tmp_pair_set holds them by latency, and by their   *)
(* number where latencies are equal, as they are inserted in that order.   *)
Latency(nss, i) == nss[i + 1] - nss[i]

Sooner(nss, j, i) == Latency(nss, j) < Latency(nss, i) \/ (Latency(nss, j) = Latency(nss, i) /\ j < i)

Sampled(nss, n, iter_len) == {i \in 1 .. n : Cardinality({j \in 1 .. n : Sooner(nss, j, i)}) < iter_len}

(* Division of integers rounds towards 0, a shift rounds down. *)
Quotient(a, b) == IF a >= 0 THEN a \div b ELSE -((-a) \div b)
TmpOffset(nss, remote_nss, i) == remote_nss[i] - nss[i] - Latency(nss, i) \div 2
NsOffset(nss, remote_nss, n, iter_len) ==
  Quotient(-MapThenSumSet(LAMBDA i : TmpOffset(nss, remote_nss, i), Sampled(nss, n, iter_len)),
           Cardinality(Sampled(nss, n, iter_len)))

(* ns_offsets after the smallest one, or 0, is taken away from all. *)
Scattered(offsets) == [n \in Rank |-> offsets[n] - Min({0} \cup {offsets[p] : p \in Rank})]

(* The clock of a partner is off by `o'; exchange i takes up[i] there and  *)
(* down[i] back.                                                           *)
RECURSIVE SentAt(_, _, _)
SentAt(up, down, i) == IF i = 1 THEN 0 ELSE SentAt(up, down, i - 1) + up[i - 1] + down[i - 1]
Nss(up, down) == [i \in 1 .. Len(up) + 1 |-> SentAt(up, down, i)]
RemoteNss(o, up, down) == [i \in 1 .. Len(up) |-> SentAt(up, down, i) + up[i] + o]

(* The offset that is measured brings the clock of the partner to that of  *)
(* node 0, up to half of the fastest round trip and what rounding takes.   *)
Fastest(up, down) == Min({up[i] + down[i] : i \in 1 .. Len(up)})
Off(o, m) == IF o + m >= 0 THEN o + m ELSE -(o + m)
MeasuresOffset(o, up, down) ==
  Off(o, NsOffset(Nss(up, down), RemoteNss(o, up, down), Len(up), 1)) <= Fastest(up, down) \div 2 + 1

(* assert(measured_global_ns_offset_ >= 0); the fastest clock stays as it  *)
(* is, and the differences are those that were measured.                   *)
ScatterKeepsDifferences(offsets) ==
  \E s \in {Scattered(offsets)} :
    /\ \A n \in Rank : s[n] >= 0
    /\ \E n \in Rank : s[n] = 0
    /\ \A m, n \in Rank : s[m] - s[n] = offsets[m] - offsets[n]

=============================================================================
