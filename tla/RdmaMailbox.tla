----------------------------- MODULE RdmaMailbox ----------------------------
(***************************************************************************)
(* A ring buffer of the RDMA mailbox (core/rdma_mailbox.cpp,               *)
(* core/buffer.hpp).  The threads of one worker write messages to the      *)
(* memory of a thread of another worker with one-sided writes; that        *)
(* thread, or one that steals from it, finds a message by its header,      *)
(* waits for its footer, clears what it has read and tells the writers its *)
(* head from time to time.  The memory is modelled byte by byte, with      *)
(* words of W bytes; a one-sided write shows up word by word in the order  *)
(* of the addresses.  Messages for the own worker go through a queue.      *)
(***************************************************************************)
EXTENDS Integers, Sequences, FiniteSets, SequencesExt

CONSTANTS W, RbfSize, Threshold, RrSize, MessageLens, NumLocal, Receiver

Sender == DOMAIN MessageLens
Ceil(n) == ((n + W - 1) \div W) * W
MsgSize(n) == W + Ceil(n) + W

(* No message is longer than what is free when the reader has published    *)
(* its head for the last time (rbf_sz / 16 behind): the code does not      *)
(* check it.                                                               *)
ASSUME RingAssumption ==
  /\ W \in Nat \ {0} /\ RbfSize % W = 0
  /\ \A s \in Sender : \A i \in 1 .. Len(MessageLens[s]) : MessageLens[s][i] > 0 /\ MsgSize(MessageLens[s][i]) <= RbfSize - Threshold

VARIABLES mem, tail, lock, pending, it, writing, head, local_head, remote_head, local_msgs, rr_cnt, rx, received

vars == <<mem, tail, lock, pending, it, writing, head, local_head, remote_head, local_msgs, rr_cnt, rx, received>>

Zero == <<"zero">>
Size(n) == <<"size", n>>
Byte(m, k) == <<"byte", m, k>>
Pad == <<"pad">>                       \* what the send buffer held before
Addresses == 0 .. RbfSize - 1
NoLock == "free"
NotWriting == [m |-> <<>>, off |-> 0, words |-> -1]
NoRx == [pc |-> "idle", by |-> "none"]

LenOf(m) == MessageLens[m[1]][m[2]]

Init ==
  /\ mem = [a \in Addresses |-> Zero]
  /\ tail = 0 /\ lock = NoLock
  /\ pending = [s \in Sender |-> [i \in 1 .. Len(MessageLens[s]) |-> <<s, i>>]]
  /\ it = [s \in Sender |-> 0]
  /\ writing = [s \in Sender |-> NotWriting]
  /\ head = 0 /\ local_head = 0 /\ remote_head = 0
  /\ local_msgs = [i \in 1 .. NumLocal |-> <<"local", i>>]
  /\ rr_cnt = 0 /\ rx = NoRx /\ received = <<>>

-----------------------------------------------------------------------------
(* The image of a message in the send buffer: header, data, footer. *)
CellOf(m, b) ==
  CASE b = 0 \/ b = W + Ceil(LenOf(m)) -> Size(LenOf(m))
    [] b \in W .. W + LenOf(m) - 1 -> Byte(m, b - W)
    [] b \in W + LenOf(m) .. W + Ceil(LenOf(m)) - 1 -> Pad
    [] OTHER -> Zero

(* Wrong variant: the footer is not counted. *)
IsBufferFullNoFooter(sz) == RbfSize < tail - remote_head + sz - W

IsBufferFull(sz) == RbfSize < tail - remote_head + sz

rx_vars == <<head, local_head, remote_head, local_msgs, rr_cnt, rx, received>>

(* Sweep walks over the messages that a thread has not sent yet.  SendData *)
(* reserves room under the lock of the ring, or leaves the message for the *)
(* next time.                                                              *)
SweepStart(s) ==
  /\ it[s] = 0 /\ pending[s] # <<>> /\ it' = [it EXCEPT ![s] = 1]
  /\ UNCHANGED <<mem, tail, lock, pending, writing, rx_vars>>

Reserve(s) ==
  /\ it[s] \in 1 .. Len(pending[s]) /\ writing[s] = NotWriting /\ lock = NoLock
  /\ IF IsBufferFull(MsgSize(LenOf(pending[s][it[s]])))
     THEN it' = [it EXCEPT ![s] = @ + 1] /\ UNCHANGED <<tail, writing>>
     ELSE /\ writing' = [writing EXCEPT ![s] = [m |-> pending[s][it[s]], off |-> tail, words |-> 0]]
          /\ tail' = tail + MsgSize(LenOf(pending[s][it[s]])) /\ UNCHANGED it
  /\ UNCHANGED <<mem, lock, pending, rx_vars>>

SweepEnd(s) ==
  /\ it[s] > Len(pending[s]) /\ it' = [it EXCEPT ![s] = 0]
  /\ UNCHANGED <<mem, tail, lock, pending, writing, rx_vars>>

(* Where byte b of a message goes: one write, or one up to the end of the  *)
(* buffer and one from its start.                                          *)
AddressOf(off, sz, b) ==
  IF off \div RbfSize = (off + sz - 1) \div RbfSize THEN (off % RbfSize) + b
  ELSE IF b < RbfSize - (off % RbfSize) THEN (off % RbfSize) + b
  ELSE b - (RbfSize - (off % RbfSize))

TakeLock(s) ==
  /\ writing[s].words = 0 /\ lock = NoLock /\ lock' = s
  /\ UNCHANGED <<mem, tail, pending, it, writing, rx_vars>>

Stored(w, sz) ==
  [a \in Addresses |->
     IF \E b \in w.words * W .. w.words * W + W - 1 : AddressOf(w.off, sz, b) = a
     THEN CellOf(w.m, CHOOSE b \in w.words * W .. w.words * W + W - 1 : AddressOf(w.off, sz, b) = a)
     ELSE mem[a]]

WriteWord(s) ==
  /\ lock = s
  /\ mem' = Stored(writing[s], MsgSize(LenOf(writing[s].m)))
  /\ IF (writing[s].words + 1) * W = MsgSize(LenOf(writing[s].m))
     THEN /\ lock' = NoLock /\ writing' = [writing EXCEPT ![s] = NotWriting]
          /\ pending' = [pending EXCEPT ![s] = RemoveAt(@, it[s])]
     ELSE writing' = [writing EXCEPT ![s].words = @ + 1] /\ UNCHANGED <<lock, pending>>
  /\ UNCHANGED <<tail, it, rx_vars>>

-----------------------------------------------------------------------------
tx_vars == <<tail, lock, pending, it, writing>>

(* CheckRecvBuf. *)
Header == mem[head % RbfSize]
HeaderLen == Header[2]
FooterAt == (head + W + Ceil(HeaderLen)) % RbfSize

(* TryRecv, under the lock of the receiving thread: the queue of the own   *)
(* worker goes first, but for every RrSize-th call.                        *)
TryRecv(r) ==
  /\ rx = NoRx
  /\ rr_cnt' = (rr_cnt + 1) % RrSize
  /\ \/ /\ rr_cnt # 0 /\ local_msgs # <<>>
        /\ received' = Append(received, [m |-> Head(local_msgs), bytes |-> <<>>])
        /\ local_msgs' = Tail(local_msgs) /\ UNCHANGED rx
     \/ /\ ~(rr_cnt # 0 /\ local_msgs # <<>>)
        /\ rx' = IF Header # Zero THEN [pc |-> "fetch", by |-> r] ELSE NoRx
        /\ UNCHANGED <<received, local_msgs>>
  /\ UNCHANGED <<mem, tx_vars, head, local_head, remote_head>>

Start == (head + W) % RbfSize
End == (head + W + HeaderLen) % RbfSize

BytesFetched ==
  [k \in 1 .. HeaderLen |->
     IF Start > End /\ k > HeaderLen - End THEN mem[k - 1 - (HeaderLen - End)] ELSE mem[Start + k - 1]]

(* The two memset of a message that goes round the end of the buffer, or   *)
(* the one of a message that does not.                                     *)
Cleared ==
  IF Start > End THEN (Start .. Start + HeaderLen - End - 1) \cup (0 .. Ceil(End) - 1)
  ELSE Start .. Start + Ceil(HeaderLen) - 1

(* FetchMsgFromRecvBuf waits for the footer, copies the data and clears    *)
(* it; ...                                                                 *)
FetchData(r) ==
  /\ rx = [pc |-> "fetch", by |-> r] /\ mem[FooterAt] = Size(HeaderLen)
  /\ received' = Append(received, [m |-> BytesFetched[1][2], bytes |-> BytesFetched])
  /\ mem' = [a \in Addresses |-> IF a \in Cleared THEN Zero ELSE mem[a]]
  /\ rx' = [rx EXCEPT !.pc = "advance"]
  /\ UNCHANGED <<tx_vars, head, local_head, remote_head, local_msgs, rr_cnt>>

(* ... it clears the header and the footer, moves its head and publishes   *)
(* it once it is far enough ahead of what it published last; ...           *)
Advance(r) ==
  /\ rx = [pc |-> "advance", by |-> r]
  /\ mem' = [mem EXCEPT ![head % RbfSize] = Zero, ![FooterAt] = Zero]
  /\ head' = head + 2 * W + Ceil(HeaderLen)
  /\ IF head' - local_head > Threshold THEN local_head' = head' /\ rx' = [rx EXCEPT !.pc = "publish"]
     ELSE rx' = NoRx /\ UNCHANGED local_head
  /\ UNCHANGED <<tx_vars, remote_head, local_msgs, rr_cnt, received>>

(* ... with a write to the memory of the other worker. *)
Publish(r) ==
  /\ rx = [pc |-> "publish", by |-> r]
  /\ remote_head' = local_head /\ rx' = NoRx
  /\ UNCHANGED <<mem, tx_vars, head, local_head, local_msgs, rr_cnt, received>>

Next ==
  \/ \E s \in Sender : SweepStart(s) \/ Reserve(s) \/ SweepEnd(s) \/ TakeLock(s) \/ WriteWord(s)
  \/ \E r \in Receiver : TryRecv(r) \/ FetchData(r) \/ Advance(r) \/ Publish(r)

Spec == Init /\ [][Next]_vars

-----------------------------------------------------------------------------
(* Every message that is received is one that was sent, with all its bytes *)
(* in place, and it is received once, whatever the two ends of the ring do *)
(* meanwhile.                                                              *)
ReceivedIntact ==
  /\ \A i \in 1 .. Len(received) :
       received[i].m[1] # "local" => received[i].bytes = [k \in 1 .. LenOf(received[i].m) |-> Byte(received[i].m, k - 1)]
  /\ \A i, j \in 1 .. Len(received) : i # j => received[i].m # received[j].m

(* What a reader has left behind is zero again: the next header is not     *)
(* seen before it is written.                                              *)
InUse == {x % RbfSize : x \in head .. tail - 1}
FreeIsClear == \A a \in Addresses \ InUse : mem[a] = Zero

(* The CHECK on the footer while the reader waits for it: it is 0 or the   *)
(* size in the header.  No writer gets into what is not read.              *)
FooterAwaited ==
  /\ tail - head <= RbfSize
  /\ Header # Zero => mem[FooterAt] \in {Zero, Size(HeaderLen)}

(* The writers are not left waiting for room by a reader that has nothing  *)
(* to read: a head that is not published yet leaves room for any message.  *)
NeverWedged ==
  tail = head /\ rx = NoRx => \A s \in Sender : \A i \in 1 .. Len(pending[s]) : ~IsBufferFull(MsgSize(LenOf(pending[s][i])))

=============================================================================
