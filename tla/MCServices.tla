----------------------------- MODULE MCServices -----------------------------
(***************************************************************************)
(* The services of a worker for TLC: the RDMA ring, the notifications, the *)
(* transaction status table, the calibration of the clocks, and samples    *)
(* for the algorithms that are functions.  They share no state, so that a  *)
(* behaviour is one of one of them: `mode' says which, and the others stay *)
(* where they began.                                                       *)
(***************************************************************************)
EXTENDS RdmaMailbox

CONSTANTS TableLoads, ClockOffsets

VARIABLES mode, sample, s_load, s_table, s_last_ext, s_ro, s_nro, s_rec, s_gc, s_min_bt, s_clock, s_trx, s_updates,
          s_reading, s_crashed,
          c_line, c_pc, c_loop, c_round, c_partner, c_step, c_snapshot, c_sending, c_ns, c_remote_ns,
          c_offset, c_taken,
          d_next, d_retries, d_wire, d_msg_map, d_posted, d_failed, d_received, d_held

(* The ring: two threads with messages that go round its end. *)
MCMessageLens == [a |-> <<3, 2, 5>>, b |-> <<4, 1>>]

(* The table: read-only transactions that are erased while others run,     *)
(* read-write ones, those of both kinds that open a second bucket or leave *)
(* none free, four that end before their last status is written, reads     *)
(* over TCP, and those of one worker of several.                           *)
Load(kinds, paths, running, outcomes) ==
  [kinds |-> kinds, paths |-> paths, running |-> running, outcomes |-> outcomes, workers |-> 1]
OfSeveral(l) == [l EXCEPT !.workers = 2]
MCLoads ==
  {Load(<<"ro", "ro", "ro", "rw">>, {"rdma"}, 2, {"C", "A"}), Load(<<"rw", "rw", "rw">>, {"rdma"}, 2, {"C", "A"}),
   Load(<<"ro", "empty ro", "empty ro", "ro">>, {"rdma"}, 2, {"C", "A"}),
   Load(<<"rw", "empty rw", "empty ro", "rw">>, {"local"}, 2, {"C", "A"}),
   Load(<<"empty rw", "empty rw", "empty ro", "empty rw", "ro">>, {"local"}, 2, {"C"}),
   Load(<<"rw", "rw", "rw", "rw">>, {}, 1, {"C"}),
   Load(<<"rw", "rw">>, {"tcp"}, 2, {"C", "A"}),
   OfSeveral(Load(<<"ro", "empty ro", "empty rw", "ro", "ro">>, {"rdma"}, 2, {"C"}))}

S == INSTANCE StatusTable WITH Loads <- TableLoads, NumMain <- 1, NumIndirect <- 1, ASSOCIATIVITY <- 3,
       load <- s_load, table <- s_table, last_ext <- s_last_ext, ro <- s_ro, nro <- s_nro, rec <- s_rec, gc <- s_gc,
       min_bt <- s_min_bt, clock <- s_clock, trx <- s_trx, updates <- s_updates, reading <- s_reading, crashed <- s_crashed

C == INSTANCE Calibration WITH CommSize <- 3, MaxLoop <- 2, MaxDelay <- 1, Offsets <- ClockOffsets,
       line <- c_line, pc <- c_pc, loop <- c_loop, round <- c_round, partner <- c_partner, step <- c_step,
       snapshot <- c_snapshot, sending <- c_sending, ns <- c_ns, remote_ns <- c_remote_ns, offset <- c_offset,
       taken <- c_taken

D == INSTANCE Datagrams WITH Messages <- [a |-> <<4, 3>>, b |-> <<2, 1>>], PackData <- 2, MaxWR <- 2, MAX_FAILED <- 2, MaxRetries <- 2,
       next <- d_next, retries <- d_retries, wire <- d_wire, msg_map <- d_msg_map, posted <- d_posted,
       failed <- d_failed, received <- d_received, held <- d_held

A == INSTANCE CoreAffinity

V == INSTANCE ValidationSteps WITH VidBits <- 2, PidBits <- 2, QidBits <- 2

NoSample == [of |-> "none"]
Layout == [workers : 2 .. 4, threads : 1 .. 3, extra : {2}, send : {64}, recv : {128}, word : {8}, line : {64},
           table : {200, 1000}, assoc : {8}, slot : {16}, mi_ratio : {50, 80, 100}]
Samples ==
  {s \in [of : {"cores"}, m : [sockets : 1 .. 2, cores : 3 .. 8, smt : 1 .. 2], n : 1 .. 28] : s.n <= A!LogicalCores(s.m) - A!NUM_RESIDENT_THREAD}
    \cup [of : {"validation"}, s : V!Steps, a : V!Actions]
    \cup [of : {"ids"}, size : 1 .. 3, n : {3}]
    \cup [of : {"layout"}, c : Layout]
    \cup [of : {"delays"}, o : -3 .. 3, up : [1 .. 3 -> {0, 1, 4}], down : [1 .. 3 -> {0, 1, 4}]]
    \cup [of : {"offsets"}, offsets : {f \in [0 .. 2 -> -2 .. 2] : f[0] = 0}]

s_vars == <<s_load, s_table, s_last_ext, s_ro, s_nro, s_rec, s_gc, s_min_bt, s_clock, s_trx, s_updates, s_reading, s_crashed>>
c_vars == <<c_line, c_pc, c_loop, c_round, c_partner, c_step, c_snapshot, c_sending, c_ns, c_remote_ns, c_offset, c_taken>>
d_vars == <<d_next, d_retries, d_wire, d_msg_map, d_posted, d_failed, d_received, d_held>>
mc_vars == <<mode, vars, s_vars, c_vars, d_vars, sample>>

MCInit ==
  /\ mode \in {"ring", "table", "clocks", "datagrams", "samples"}
  /\ Init /\ S!Init /\ C!Init /\ D!Init /\ sample = NoSample
  /\ mode # "table" => s_load = CHOOSE l \in TableLoads : TRUE
  /\ mode # "clocks" => \A n \in 0 .. 2 : c_offset[n] = 0

MCNext ==
  /\ UNCHANGED mode
  /\ \/ mode = "ring" /\ Next /\ UNCHANGED <<s_vars, c_vars, d_vars, sample>>
     \/ mode = "table" /\ S!Next /\ UNCHANGED <<vars, c_vars, d_vars, sample>>
     \/ mode = "clocks" /\ C!Next /\ UNCHANGED <<vars, s_vars, d_vars, sample>>
     \/ mode = "datagrams" /\ D!Next /\ UNCHANGED <<vars, s_vars, c_vars, sample>>
     \/ mode = "samples" /\ sample = NoSample /\ sample' \in Samples
        /\ UNCHANGED <<vars, s_vars, c_vars, d_vars>>

MCSpec == MCInit /\ [][MCNext]_mc_vars

-----------------------------------------------------------------------------
(* RdmaMailbox: every message is delivered once and as it was sent, the    *)
(* free part of a ring is clear up to the last padded byte, no message is  *)
(* written over one that has not been read, and the ring never stops with  *)
(* messages left to send.                                                  *)
RingSound == ReceivedIntact /\ FreeIsClear /\ FooterAwaited /\ NeverWedged

(* StatusTable: a read gives a status that the transaction had while it    *)
(* was read, VALIDATING and COMMITTED come with the commit time, a running *)
(* transaction has one slot, the collector frees no node that the          *)
(* recording thread uses, and the slot of an ended transaction is erased   *)
(* or on a list (the transactions excepted are named there).               *)
StatusTableSound ==
  S!ReadsTrue /\ S!CtWithStatus /\ S!OneSlotEach /\ S!TailNotFreed /\ S!EndedAreListed

(* StatusTable: every read-only transaction is put on its list.  This does *)
(* not hold, see the README.                                               *)
ReadOnlyListed == S!ReadOnlyListed

(* Calibration: a value is taken in the exchange it was sent for, the      *)
(* nodes never all wait for each other, and after a loop no clock is       *)
(* further from another than the delays allow; over TCP the measured       *)
(* offset is right up to the fastest exchange, and scattering the offsets  *)
(* moves all clocks to the latest one.                                     *)
CalibrationSound ==
  /\ C!OwnExchange /\ C!SomeoneMoves /\ C!SkewBounded
  /\ sample.of = "delays" => C!MeasuresOffset(sample.o, sample.up, sample.down)
  /\ sample.of = "offsets" => C!ScatterKeepsDifferences(sample.offsets)

(* Datagrams: a notification is delivered as it was sent, from one sender  *)
(* at a time, and once all its packets have arrived it has been delivered  *)
(* (the nodes excepted are named there).                                   *)
NotificationsSound == D!NotificationsWhole /\ D!NotificationsComplete

(* CoreAffinity: the pools of the divisions share no core and leave none   *)
(* out, the divisions get all the threads between them, and every thread   *)
(* is in the steal list of every other one.                                *)
CoresSound ==
  sample.of = "cores" =>
    A!PoolsPartition(sample.m) /\ A!DivisionSums(sample.n) /\ A!StealReachesAll(sample.m, sample.n)

(* Ids: what is packed into an id is unpacked from it, no vertex or        *)
(* transaction id is given out twice, each leads back to the worker that   *)
(* gave it out, and the regions and rings of the RDMA memory do not        *)
(* overlap.                                                                *)
IdsSound ==
  /\ sample.of = "ids" => V!PacksBack /\ V!DealtOutOnce(sample.size, sample.n)
  /\ sample.of = "layout" => V!RegionsApart(sample.c)

(* ValidationSteps: a change of what a step has read makes its validation  *)
(* fail, but for the changes that are named there.                         *)
ConflictCaught == sample.of = "validation" => V!ConflictCaught(sample.s, sample.a)

(* ValidationSteps: so does any change.  This does not hold, see the       *)
(* README.                                                                 *)
EveryChangeCaught == sample.of = "validation" => V!EveryChangeCaught(sample.s, sample.a)

=============================================================================
