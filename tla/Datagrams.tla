------------------------------ MODULE Datagrams -----------------------------
(***************************************************************************)
(* The notifications of the RDMA mailbox (SendNotification and             *)
(* RecvNotification of core/rdma_mailbox.cpp, RdmaSend and RdmaRecv of     *)
(* base/rdma.hpp): a message goes out in packets with a header each, and   *)
(* is sent again from the first packet when the call failed.  The receiver *)
(* puts the packets of every sender together, and is called again when it  *)
(* failed.  The packets of a sender arrive in order and none is lost       *)
(* (external); a failed send has posted some of its packets, or all of     *)
(* them when it failed to poll; a failed receive leaves its buffer         *)
(* unposted.                                                               *)
(***************************************************************************)
EXTENDS Integers, Sequences, FiniteSets, SequencesExt

CONSTANTS
  Messages,    \* Messages[n]: the lengths that n sends
  PackData,    \* RDMA_PACK_DATA_SZ
  MaxWR,       \* max_wr, the receive requests posted at the start
  MAX_FAILED,  \* the 10 of the CHECK in RecvNotification
  MaxRetries   \* bound on the failed calls of a behaviour

VARIABLES
  next,        \* the message that each node sends next
  retries,     \* the failures left
  wire,        \* the packets of each node on their way
  msg_map,     \* msg_map_
  posted,      \* the receive requests posted
  failed,      \* of RecvNotification
  received,    \* what RecvNotification has given out
  held         \* the nodes of which a whole message stayed in msg_map_

vars == <<next, retries, wire, msg_map, posted, failed, received, held>>

Node == DOMAIN Messages
NoMsg == [data |-> <<>>, open |-> FALSE, total |-> 0, got |-> {}]

Init ==
  /\ next = [n \in Node |-> 1] /\ retries = MaxRetries
  /\ wire = [n \in Node |-> <<>>]
  /\ msg_map = [n \in Node |-> NoMsg] /\ received = <<>>
  /\ posted = MaxWR /\ failed = 0 /\ held = {}

-----------------------------------------------------------------------------

(* Wrong variant: rounded up. *)
NumPacketUp(len) == (len + PackData - 1) \div PackData

(* The packets: the last one takes the rest, which may be nothing. *)
NumPacket(len) == len \div PackData + 1

SizeOf(len, i) == IF i = NumPacket(len) - 1 THEN len % PackData ELSE PackData
Bytes(n, m, i, sz) == [k \in 1 .. sz |-> <<n, m, i * PackData + k>>]
Packets(n, m, len) ==
  [j \in 1 .. NumPacket(len) |->
     [num |-> NumPacket(len), id |-> j - 1, data |-> Bytes(n, m, j - 1, SizeOf(len, j - 1))]]

Sends(n) == Packets(n, next[n], Messages[n][next[n]])

(* RdmaSend succeeds, ... *)
RdmaSend(n) ==
  /\ next[n] <= Len(Messages[n])
  /\ wire' = [wire EXCEPT ![n] = @ \o Sends(n)]
  /\ next' = [next EXCEPT ![n] = @ + 1]
  /\ UNCHANGED <<retries, msg_map, posted, failed, received, held>>

(* ... or fails after k packets; SendNotification calls it again. *)
RdmaSendFails(n) ==
  /\ next[n] <= Len(Messages[n]) /\ retries > 0
  /\ \E k \in 0 .. Len(Sends(n)) : wire' = [wire EXCEPT ![n] = @ \o SubSeq(Sends(n), 1, k)]
  /\ retries' = retries - 1
  /\ UNCHANGED <<next, msg_map, posted, failed, received, held>>

(* RdmaRecv: the first packet of a message opens it; one that was received *)
(* before is left out.  A packet of a later message can come to one that   *)
(* is still open; received_packet is then read beyond its end, with either *)
(* result, and the count goes past the total if the bit is taken for unset.*)
Opened(msg, p) ==
  IF msg.open THEN msg
  ELSE [data |-> [i \in 0 .. p.num - 1 |-> <<>>], open |-> TRUE, total |-> p.num, got |-> {}]
Collected(msg, p) ==
  IF p.id \in msg.got THEN {msg}
  ELSE IF p.id < msg.total THEN {[msg EXCEPT !.data[p.id] = p.data, !.got = @ \cup {p.id}]}
  ELSE {msg, [msg EXCEPT !.got = @ \cup {p.id}]}
Takes(n) == Collected(Opened(msg_map[n], Head(wire[n])), Head(wire[n]))
Whole(msg) == Cardinality(msg.got) = msg.total

(* RecvNotification gives up when a call of RdmaRecv fails too often.      *)
Up == failed < MAX_FAILED
Polls(n) == Up /\ posted > 0 /\ wire[n] # <<>> /\ wire' = [wire EXCEPT ![n] = Tail(@)]
Fails == retries > 0 /\ retries' = retries - 1 /\ failed' = failed + 1 /\ posted' = posted - 1

(* A packet is taken and its buffer posted again. *)
RdmaRecv(n) ==
  /\ Polls(n)
  /\ \E msg \in Takes(n) :
       IF Whole(msg)
       THEN /\ msg_map' = [msg_map EXCEPT ![n] = NoMsg]
            /\ received' = Append(received, <<n, FlattenSeq([j \in 1 .. msg.total |-> msg.data[j - 1]])>>)
            /\ failed' = 0
       ELSE msg_map' = [msg_map EXCEPT ![n] = msg] /\ UNCHANGED <<received, failed>>
  /\ UNCHANGED <<next, retries, posted, held>>

(* ud_post_recv fails: the packet has been taken, and a message that is    *)
(* whole by now stays in msg_map_ until the next packet of its node.       *)
RdmaRecvNotReposted(n) ==
  /\ Polls(n) /\ Fails
  /\ \E msg \in Takes(n) :
       /\ msg_map' = [msg_map EXCEPT ![n] = msg]
       /\ held' = IF Whole(msg) THEN held \cup {n} ELSE held
  /\ UNCHANGED <<next, received>>

(* poll_recv_completion fails: a bad completion, with no packet. *)
RdmaRecvNotPolled ==
  /\ Up /\ posted > 0 /\ Fails
  /\ UNCHANGED <<next, wire, msg_map, received, held>>

Next ==
  \/ \E n \in Node : RdmaSend(n) \/ RdmaSendFails(n) \/ RdmaRecv(n) \/ RdmaRecvNotReposted(n)
  \/ RdmaRecvNotPolled

Spec == Init /\ [][Next]_vars

-----------------------------------------------------------------------------
(* A notification that is received is one that was sent, whole, however    *)
(* often parts of it were sent again or a receive failed, and those of a   *)
(* node come in the order in which it sent them: RecvNotification gives    *)
(* out no mixture.  Excepted are the nodes in `held': the packet that gets *)
(* a whole message out of msg_map_ is the first of the next one, and is    *)
(* thrown away.                                                            *)
IsMessage(x, n, m) == x = <<n, [k \in 1 .. Messages[n][m] |-> <<n, m, k>>]>>
NotificationsWhole ==
  \A n \in Node \ held :
    /\ \A i \in 1 .. Len(received) : received[i][1] = n =>
         \E m \in 1 .. Len(Messages[n]) : IsMessage(received[i], n, m)
    /\ \A i, j \in 1 .. Len(received) : \A l, m \in 1 .. Len(Messages[n]) :
         i < j /\ IsMessage(received[i], n, l) /\ IsMessage(received[j], n, m) => l <= m

(* When everything has arrived every notification has been received, and   *)
(* none is half put together; with the same exception.                     *)
NotificationsComplete ==
  \A n \in Node \ held : wire[n] = <<>> /\ next[n] > Len(Messages[n]) =>
    /\ msg_map[n] = NoMsg
    /\ \A m \in 1 .. Len(Messages[n]) : \E i \in 1 .. Len(received) : IsMessage(received[i], n, m)

=============================================================================
