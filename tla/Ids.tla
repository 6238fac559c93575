--------------------------------- MODULE Ids --------------------------------
(***************************************************************************)
(* How ids are packed into words and dealt out to workers (base/type.cpp,  *)
(* base/type.hpp, core/id_mapper.hpp, core/coordinator.cpp,                *)
(* layout/data_storage.cpp), and how the registered memory of a worker is  *)
(* divided (utils/config.hpp, core/buffer.hpp).  Widths are parameters.    *)
(***************************************************************************)
EXTENDS Integers, Sequences, FiniteSets

CONSTANTS VidBits, PidBits, QidBits

(* Wrong variant: one shift is missing. *)
VpidValueShort(v, p) == v * 2 ^ PidBits + p

(* eid_t, vpid_t and epid_t as words ... *)
EidValue(e) == e.dst * 2 ^ VidBits + e.src
VpidValue(v, p) == v * 2 ^ VidBits * 2 ^ PidBits + p

EpidValue(e, p) == EidValue(e) * 2 ^ PidBits + p

(* ... and back: uint2eid_t, uint2vpid_t, uint2epid_t.  What goes into a   *)
(* bit field is cut to its width.                                          *)
EidOf(n) == [dst |-> (n \div 2 ^ VidBits) % 2 ^ VidBits, src |-> n % 2 ^ VidBits]
VpidOf(n) == [vid |-> (n \div 2 ^ (PidBits + VidBits)) % 2 ^ VidBits, pid |-> n % 2 ^ PidBits]
EpidOf(n) ==
  [dst |-> (n \div 2 ^ (PidBits + VidBits)) % 2 ^ VidBits, src |-> (n \div 2 ^ PidBits) % 2 ^ VidBits, pid |-> n % 2 ^ PidBits]

(* SimpleIdMapper: an out-edge and its properties live with their source   *)
(* vertex, an in-edge with its destination.                                *)
GetMachineIdForVertex(v, size) == v % size
GetMachineIdForEdge(e, considerDstVtx, size) == IF considerDstVtx THEN e.dst % size ELSE e.src % size
GetMachineIdForVProperty(vp, size) == vp.vid % size
GetMachineIdForEProperty(ep, size) == ep.src % size

(* AssignVID: the id of the n-th vertex of a worker. *)
AssignVID(n, rank, size) == n * size + rank

(* RegisterTrx, with TRX_ID_MASK as the bit above all others, the id of    *)
(* query q of a transaction, and GetWorkerFromTrxID.                       *)
TRX_ID_MASK == 2 ^ 20

RegisterTrx(n, rank, size) == TRX_ID_MASK + (n * size + rank) * 2 ^ QidBits

QidOf(trx, q) == trx + q
TrxOfQid(qid) == (qid \div 2 ^ QidBits) * 2 ^ QidBits
GetWorkerFromTrxID(trx, size) == ((trx - TRX_ID_MASK) \div 2 ^ QidBits) % size

-----------------------------------------------------------------------------
(* The regions of a worker's memory, in the order of Config::Init; c gives *)
(* the sizes of a word, a line, a send and a receive buffer.               *)
Region(name, off, sz) == [name |-> name, off |-> off, sz |-> sz]
Heads(c) == (c.workers - 1) * c.threads * c.word

Sizes(c) ==
  <<<<"send_buffer", (c.threads + c.extra) * c.send>>,
    <<"recv_buffer", (c.workers - 1) * c.threads * c.recv>>,
    <<"local_head_buffer", Heads(c)>>, <<"remote_head_buffer", Heads(c)>>,
    <<"min_bt_buffer", c.line * c.workers>>, <<"ts_sync_buffer", c.line>>, <<"trx_table", c.table>>,
    <<"dgram_send_buffer", c.send>>, <<"dgram_recv_buffer", c.recv>>>>

RECURSIVE Total(_, _)
Total(sizes, n) == IF n = 0 THEN 0 ELSE Total(sizes, n - 1) + sizes[n][2]

Regions(c) == [i \in 1 .. Len(Sizes(c)) |-> Region(Sizes(c)[i][1], Total(Sizes(c), i - 1), Sizes(c)[i][2])]
conn_buf_sz(c) == Total(Sizes(c), 7)
buffer_sz(c) == conn_buf_sz(c) + c.send + c.recv

(* Buffer::GetIndex. *)
GetIndex(tid, nid, ref_nid, threads) == (IF nid < ref_nid THEN nid ELSE nid - 1) * threads + tid

(* Where node `me' writes to thread tid of node nid (GetRecvBufOffset),    *)
(* and where it looks for what nid wrote (GetRecvBuf); likewise the head   *)
(* that it publishes at nid, and the one that nid published.               *)
At(c, i) == Regions(c)[i].off
GetRecvBufOffset(c, tid, nid, me) == At(c, 2) + GetIndex(tid, me, nid, c.threads) * c.recv
GetRecvBuf(c, tid, nid, me) == At(c, 2) + GetIndex(tid, nid, me, c.threads) * c.recv
GetRemoteHeadBufOffset(c, tid, nid, me) == At(c, 4) + GetIndex(tid, me, nid, c.threads) * c.word
GetRemoteHeadBuf(c, tid, nid, me) == At(c, 4) + GetIndex(tid, nid, me, c.threads) * c.word

(* The buckets of the status table. *)
Buckets(c) == c.table \div (c.assoc * c.slot)
MainBuckets(c) == (Buckets(c) * c.mi_ratio) \div 100

-----------------------------------------------------------------------------
(* An id survives packing, also at the ends of its range.                  *)
PacksBack ==
  /\ \A d, s \in 0 .. 2 ^ VidBits - 1 : EidOf(EidValue([dst |-> d, src |-> s])) = [dst |-> d, src |-> s]
  /\ \A v \in 0 .. 2 ^ VidBits - 1 : \A p \in 0 .. 2 ^ PidBits - 1 : VpidOf(VpidValue(v, p)) = [vid |-> v, pid |-> p]
  /\ \A d, s \in 0 .. 2 ^ VidBits - 1 : \A p \in 0 .. 2 ^ PidBits - 1 :
       EpidOf(EpidValue([dst |-> d, src |-> s], p)) = [dst |-> d, src |-> s, pid |-> p]

(* Ids that the workers give out without talking to each other never meet, *)
(* and tell who gave them out: a vertex is stored where it was added, a    *)
(* transaction is asked about where it began, whatever query it is in.     *)
DealtOutOnce(size, n) ==
  /\ \A i, j \in 1 .. n : \A r, s \in 0 .. size - 1 : <<i, r>> # <<j, s>> =>
       /\ AssignVID(i, r, size) # AssignVID(j, s, size)
       /\ \A q, k \in 0 .. 2 ^ QidBits - 1 : QidOf(RegisterTrx(i, r, size), q) # QidOf(RegisterTrx(j, s, size), k)
  /\ \A i \in 1 .. n : \A r \in 0 .. size - 1 :
       /\ GetMachineIdForVertex(AssignVID(i, r, size), size) = r
       /\ \A q \in 0 .. 2 ^ QidBits - 1 : GetWorkerFromTrxID(TrxOfQid(QidOf(RegisterTrx(i, r, size), q)), size) = r

(* No two regions, and no two rings or heads in them, share a byte, and    *)
(* they stay inside the memory that is registered; writer and reader agree *)
(* on the place, and the table has room for its buckets.                    *)
Apart(x, sx, y, sy) == x + sx <= y \/ y + sy <= x
Ends(c) == {<<a, t>> : a \in 0 .. c.workers - 1, t \in 0 .. c.threads - 1}
RingApart(c, rs, b, x) ==
  /\ GetRecvBufOffset(c, x[2], b, x[1]) = GetRecvBuf(c, x[2], x[1], b)
  /\ GetRemoteHeadBufOffset(c, x[2], b, x[1]) = GetRemoteHeadBuf(c, x[2], x[1], b)
  /\ GetRecvBuf(c, x[2], x[1], b) >= rs[2].off /\ GetRecvBuf(c, x[2], x[1], b) + c.recv <= rs[3].off
  /\ GetRemoteHeadBuf(c, x[2], x[1], b) >= rs[4].off /\ GetRemoteHeadBuf(c, x[2], x[1], b) + c.word <= rs[5].off
  /\ \A y \in {e \in Ends(c) : e[1] # b} \ {x} :
       /\ Apart(GetRecvBuf(c, x[2], x[1], b), c.recv, GetRecvBuf(c, y[2], y[1], b), c.recv)
       /\ Apart(GetRemoteHeadBuf(c, x[2], x[1], b), c.word, GetRemoteHeadBuf(c, y[2], y[1], b), c.word)
RegionsApart(c) ==
  \E rs \in {Regions(c)} :
    /\ \A i, j \in 1 .. Len(rs) : i # j => Apart(rs[i].off, rs[i].sz, rs[j].off, rs[j].sz)
    /\ \A i \in 1 .. Len(rs) : rs[i].off + rs[i].sz <= buffer_sz(c)
    /\ rs[8].off = conn_buf_sz(c)
    /\ MainBuckets(c) <= Buckets(c) /\ Buckets(c) * c.assoc * c.slot <= c.table
    /\ \A b \in 0 .. c.workers - 1 : \A x \in {e \in Ends(c) : e[1] # b} : RingApart(c, rs, b, x)

=============================================================================
