-------------------------- MODULE PacketHistoryOps --------------------------
(***************************************************************************)
(* RTPPacketHistory of modules/rtp_rtcp/source/rtp_packet_history.cc: the  *)
(* RTP packets a sender keeps, those that wait in the pacer and those that *)
(* may have to be sent again, as operators on a record with the fields     *)
(* store_, prev_index_ and stored_packets_ (a function from 0).            *)
(*                                                                         *)
(* A packet's bytes are left out: "stored" tells whether length > 0.  The  *)
(* critical section makes every operation atomic.                          *)
(***************************************************************************)
EXTENDS Integers, FiniteSets

CONSTANTS
  kMaxHistoryCapacity,  \* 9600
  SeqRange              \* 65536: the range of a sequence number

ASSUME PacketHistoryAssumption ==
  kMaxHistoryCapacity \in Nat \ {0} /\ SeqRange \in Nat \ {0}

Least(x, y) == IF x < y THEN x ELSE y

Most(x, y) == IF x > y THEN x ELSE y

\* StoredPacket's defaults.  Note the sequence number 0.
DefaultPacket ==
  [sequence_number |-> 0, stored |-> FALSE, time_ms |-> 0, send_time |-> 0,
   retransmittable |-> FALSE, has_been_retransmitted |-> FALSE]

Size(h) == Cardinality(DOMAIN h.packets)

\* std::vector::resize
Resized(packets, n) ==
  [i \in 0..n-1 |-> IF i \in DOMAIN packets THEN packets[i] ELSE DefaultPacket]

NoPackets == [i \in {} |-> DefaultPacket]

Freed(h) == IF h.store THEN [store |-> FALSE, prev_index |-> 0, packets |-> NoPackets]
                       ELSE h

Allocated(h, n) == [h EXCEPT !.store = TRUE, !.packets = Resized(h.packets, n)]

SetStorePacketsStatus(h, enable, number_to_store) ==
  IF enable THEN Allocated(Freed(h), number_to_store) ELSE Freed(h)

\* Mutant of MustExpand: the packet's send time is not looked at, so a buffer
\* at the end of its lap overwrites what is still unsent.
NeverExpand(h) == FALSE

\* The slot about to be overwritten holds a packet that was not sent.
MustExpand(h) ==
  /\ h.packets[h.prev_index].stored /\ h.packets[h.prev_index].send_time = 0
  /\ Size(h) < kMaxHistoryCapacity

\* The new slots follow the old ones, and the next packet goes there.
Expanded(h) ==
  LET n == Size(h)
      expanded == Least(Most((n * 3) \div 2, n + 1), kMaxHistoryCapacity)
  IN  [Allocated(h, expanded) EXCEPT !.prev_index = n]

\* Mutant of NextIndex: off by one at the end of the buffer.
NextIndexLate(h, i) == IF i + 1 > Size(h) THEN 0 ELSE i + 1

NextIndex(h, i) == IF i + 1 >= Size(h) THEN 0 ELSE i + 1

\* PutRTPPacket's error: the packet is longer than a slot.
PutFails(h, oversize) == h.store /\ oversize

PutRTPPacket(h, seq, time_ms, retransmittable) ==
  IF ~h.store THEN h
  ELSE LET e == IF MustExpand(h) THEN Expanded(h) ELSE h
           i == e.prev_index
       IN  [e EXCEPT !.packets[i] = [sequence_number |-> seq, stored |-> TRUE,
                                     time_ms |-> time_ms, send_time |-> 0,
                                     retransmittable |-> retransmittable,
                                     has_been_retransmitted |-> FALSE],
                     !.prev_index = NextIndex(e, i)]

\* Mutant of FoundAt: the guess is trusted, and there is no search.
GuessOnly(h, seq, guess) ==
  IF h.packets[guess].sequence_number = seq THEN {guess} ELSE {}

\* The guess, and if it is wrong the first match.
FoundAt(h, seq, guess) ==
  IF h.packets[guess].sequence_number = seq THEN {guess}
  ELSE {i \in DOMAIN h.packets :
          /\ h.packets[i].sequence_number = seq
          /\ \A j \in 0..i-1 : h.packets[j].sequence_number # seq}

\* FindSeqNum: the index as a set, empty when there is none.  Every slot is
\* searched, those that hold no packet as well.
FindSeqNum(h, seq) ==
  LET last == IF h.prev_index > 0 THEN h.prev_index - 1 ELSE Size(h) - 1
      idx == h.prev_index - 1 - (h.packets[last].sequence_number - seq)
  IN  FoundAt(h, seq, IF idx \in DOMAIN h.packets THEN idx ELSE last)

HasRTPPacket(h, seq) ==
  h.store /\ \E i \in FindSeqNum(h, seq) : h.packets[i].stored

\* Whether GetPacketAndSetSendTime may copy the packet in slot i: it is not
\* one that was resent too recently nor one that must not be resent.
MayGet(h, i, min_elapsed_time_ms, retransmit, now) ==
  /\ h.packets[i].stored
  /\ ~ /\ min_elapsed_time_ms > 0 /\ retransmit
       /\ h.packets[i].has_been_retransmitted
       /\ now - h.packets[i].send_time < min_elapsed_time_ms
  /\ retransmit => h.packets[i].retransmittable

\* The slot GetPacketAndSetSendTime takes the packet from, as a set.
Getting(h, seq, min_elapsed_time_ms, retransmit, now) ==
  IF ~h.store THEN {}
  ELSE {i \in FindSeqNum(h, seq) : MayGet(h, i, min_elapsed_time_ms, retransmit, now)}

\* Mutant of SetSendTime: a resent packet is not remembered as such.
SetSendTimeOnly(h, i, retransmit, now) ==
  [h EXCEPT !.packets[i].send_time = now]

\* What it does to that slot.
SetSendTime(h, i, retransmit, now) ==
  [h EXCEPT !.packets[i].send_time = now,
            !.packets[i].has_been_retransmitted = @ \/ retransmit]

StoredPacketType(times) ==
  [sequence_number : 0..SeqRange-1, stored : BOOLEAN, time_ms : times,
   send_time : times, retransmittable : BOOLEAN, has_been_retransmitted : BOOLEAN]

\* A well-formed history: an empty one, or one with a slot for the next packet.
IsHistory(h, times) ==
  /\ DOMAIN h = {"store", "prev_index", "packets"}
  /\ h.packets \in [0..Size(h)-1 -> StoredPacketType(times)]
  /\ Size(h) <= kMaxHistoryCapacity
  /\ IF h.store THEN h.prev_index \in DOMAIN h.packets
                ELSE h.prev_index = 0 /\ Size(h) = 0
=============================================================================
