---------------------------- MODULE RtpSendPath -----------------------------
(***************************************************************************)
(* The way of a media packet from the encoder to the network: RTPSender    *)
(* (modules/rtp_rtcp/source/rtp_sender.cc) puts it into its packet history *)
(* and only tells the PacedSender (modules/pacing/paced_sender.cc) about   *)
(* it; when its time has come the pacer calls back and the packet is taken *)
(* from the history.  Three threads do this: the encoder's, the one that   *)
(* receives NACKs, and the process thread that runs PacedSender::Process.  *)
(* History and pacer have a lock each and no operation holds both, so a    *)
(* thread's step is what it does under one lock.                           *)
(*                                                                         *)
(* One video stream without RTX; packets of one size.  Video packets have  *)
(* kNormalPriority (rtp_sender_video.cc).  An audio stream would share     *)
(* kHighPriority with its retransmissions, and for those two the queue's   *)
(* comparator is no strict order.  The transport may refuse a packet.      *)
(***************************************************************************)
EXTENDS PacketHistoryOps, PacedSenderOps

CONSTANTS
  PacketBytes,      \* bytes of a media packet
  PaddingBytes,     \* bytes of a padding packet
  MinResendMs,      \* 5 + avg_rtt: a packet is not resent again before
  Capacities,       \* number_to_store, for SetStorePacketsStatus
  InitialBitrate,   \* max_bitrate until the first estimate
  Bitrates,         \* max_bitrate, for UpdateBitrate
  MinBitrate,       \* the rate up to which padding is sent
  FirstSeqs,        \* the sequence number the stream starts with
  Retransmittable,  \* what the encoder says about a packet (StorageType)
  Oversize,         \* may a packet be longer than IP_PACKET_SIZE
  Probing,          \* may probing be enabled
  Refuses,          \* may the transport refuse a packet
  MaxPackets,       \* bound: sequence numbers used
  MaxNacks,         \* bound: sequence numbers asked for in NACKs
  MaxTime,          \* bound: the clock
  MaxCalls          \* bound: calls of SetStorePacketsStatus, Pause, Resume
                    \* and UpdateBitrate

ASSUME RtpSendPathAssumption ==
  /\ {PacketBytes, PaddingBytes, MaxTime} \subseteq Nat \ {0}
  /\ {MinResendMs, InitialBitrate, MinBitrate, MaxNacks, MaxCalls} \subseteq Nat
  /\ Capacities \subseteq 1..kMaxHistoryCapacity /\ Bitrates \subseteq Nat
  /\ FirstSeqs \subseteq 0..SeqRange-1 /\ MaxPackets \in 0..SeqRange
  /\ Retransmittable \subseteq BOOLEAN /\ Probing \subseteq BOOLEAN
  /\ Refuses \subseteq BOOLEAN /\ Oversize \subseteq BOOLEAN

VARIABLES
  history,      \* RTPPacketHistory
  pacer,        \* PacedSender
  used,         \* sequence numbers used: sequence_number_ is first + used
  first,        \* the number the stream started with
  encoder,      \* a packet that SendToNetwork has stored and not yet queued
  receiver,     \* a packet that ReSendPacket has found and not yet queued
  process,      \* where Process is
  current,      \* the packet it has popped
  now, nacks, calls,
  \* history variables
  sent,         \* how often each packet was given to the transport and taken
  requested,    \* how often each packet was found for a retransmission
  resent_at,    \* when it was last found, 0 if never
  last_first,   \* the latest packet sent, retransmissions not counted
  newest,       \* the latest packet or padding the peer may have seen
  touched       \* packets marked as sent while they were waiting to be: by a
                \* NACK, or by a send the transport refused; or purged

streamVars == <<used, first>>
boundVars == <<nacks, calls>>
auxVars == <<sent, requested, resent_at, last_first, newest, touched>>
vars == <<history, pacer, streamVars, encoder, receiver, process, current,
          now, boundVars, auxVars>>

Seqs == 0..SeqRange-1

\* The k-th sequence number of the stream, and back.
Seq(k) == (first + k - 1) % SeqRange
Position(seq) == ((seq - first) % SeqRange) + 1

Ssrc == 1

None == [priority |-> 0, ssrc |-> 0, sequence_number |-> 0, capture_time_ms |-> 0,
         enqueue_time_ms |-> 0, bytes |-> 0, retransmission |-> FALSE,
         enqueue_order |-> 0]

Packet(priority, seq, capture_time_ms, retransmission) ==
  [priority |-> priority, ssrc |-> Ssrc, sequence_number |-> seq,
   capture_time_ms |-> capture_time_ms, enqueue_time_ms |-> 0,
   bytes |-> PacketBytes, retransmission |-> retransmission, enqueue_order |-> 0]

Stored(h, seq) == \E i \in DOMAIN h.packets :
                    h.packets[i].stored /\ h.packets[i].sequence_number = seq

-----------------------------------------------------------------------------
(* The encoder's thread: SendToNetwork stores the packet, then queues it.  *)

SendToNetwork(retransmittable) ==
  /\ encoder = None
  /\ used < MaxPackets
  /\ used' = used + 1
  /\ history' = PutRTPPacket(history, Seq(used + 1), now, retransmittable)
  /\ encoder' = Packet(kNormalPriority, Seq(used + 1), now, FALSE)
  /\ UNCHANGED <<first, pacer, receiver, process, current, now, boundVars, auxVars>>

\* PutRTPPacket returns an error, and so does SendToNetwork: the packet's number
\* is used, and nothing is stored or queued.
SendToNetworkFails ==
  /\ encoder = None
  /\ used < MaxPackets
  /\ \E oversize \in Oversize : PutFails(history, oversize)
  /\ used' = used + 1
  /\ UNCHANGED <<history, first, pacer, encoder, receiver, process, current, now,
                 boundVars, auxVars>>

Enqueued(p) == [p EXCEPT !.enqueue_time_ms = now, !.enqueue_order = pacer.packet_counter]

SendToNetworkEnqueues ==
  /\ encoder # None
  /\ pacer' = InsertPacket(pacer, Enqueued(encoder))
  /\ encoder' = None
  /\ UNCHANGED <<history, streamVars, receiver, process, current, now, boundVars, auxVars>>

-----------------------------------------------------------------------------
(* The thread that receives NACKs.                                         *)

Waiting(seq) ==
  \/ encoder # None /\ encoder.sequence_number = seq
  \/ \E p \in pacer.heap : ~p.retransmission /\ p.sequence_number = seq

\* The peer asks for a packet it misses, that is one before the newest packet
\* it got (OnReceivedNACK calls ReSendPacket for every number of its list).
ReSendPacket(seq) ==
  /\ receiver = None
  /\ nacks < MaxNacks
  /\ Position(seq) < newest
  /\ nacks' = nacks + 1
  /\ \E found \in {Getting(history, seq, MinResendMs, TRUE, now)} :
       \/ /\ found = {}
          /\ UNCHANGED <<history, receiver, requested, resent_at, touched>>
       \/ \E i \in found :
            /\ history' = SetSendTime(history, i, TRUE, now)
            /\ receiver' = Packet(kHighPriority, seq, history.packets[i].time_ms, TRUE)
            /\ requested' = [requested EXCEPT ![seq] = @ + 1]
            /\ resent_at' = [resent_at EXCEPT ![seq] = now]
            /\ touched' = IF Waiting(seq) THEN touched \cup {seq} ELSE touched
  /\ UNCHANGED <<pacer, streamVars, encoder, process, current, now, calls,
                 sent, last_first, newest>>

ReSendPacketEnqueues ==
  /\ receiver # None
  /\ pacer' = InsertPacket(pacer, Enqueued(receiver))
  /\ receiver' = None
  /\ UNCHANGED <<history, streamVars, encoder, process, current, now, boundVars, auxVars>>

-----------------------------------------------------------------------------
(* The process thread.                                                     *)

\* Process goes on with s until it leaves the critical section: to send the
\* packet at the top, to send padding, or because it returns.
Continue(s) ==
  \/ /\ MaySend(s)
     /\ \E p \in s.heap : /\ IsTop(p, s.heap)
                          /\ pacer' = BeginPop(s, p)
                          /\ current' = p
     /\ process' = "TimeToSendPacket"
  \/ /\ ~MaySend(s) /\ PaddingNeeded(s) > 0
     /\ pacer' = s /\ process' = "TimeToSendPadding"
     /\ current' = [None EXCEPT !.bytes = PaddingNeeded(s)]
  \/ /\ ~MaySend(s) /\ PaddingNeeded(s) = 0
     /\ pacer' = s /\ process' = "idle" /\ current' = None

Process ==
  /\ process = "idle"
  /\ IF pacer.paused
     THEN pacer' = [pacer EXCEPT !.time_last_update = now] /\ UNCHANGED <<process, current>>
     ELSE \E s \in {Refill(pacer, now)} : Continue(s)
  /\ UNCHANGED <<history, streamVars, encoder, receiver, now, boundVars, auxVars>>

\* The callback's first half: the packet is taken from the history and marked
\* as sent.  A packet that is not there counts as sent.
TimeToSendPacket ==
  /\ process = "TimeToSendPacket"
  /\ \E found \in {Getting(history, current.sequence_number, 0,
                           current.retransmission, now)} :
       \/ found = {} /\ process' = "not found" /\ UNCHANGED history
       \/ \E i \in found : /\ history' = SetSendTime(history, i, current.retransmission, now)
                           /\ process' = "SendPacketToNetwork"
  /\ UNCHANGED <<pacer, streamVars, encoder, receiver, current, now, boundVars, auxVars>>

\* SendPacket succeeded: back in the critical section, the packet is removed.
SendSucceeded(p) ==
  \E s \in {FinalizePop(BytesSent(pacer, p.bytes), p)} :
    IF IsProbing(s) THEN pacer' = s /\ process' = "idle" /\ current' = None
                    ELSE Continue(s)

\* The packet was not in the history.
SendSkipped ==
  /\ process = "not found"
  /\ SendSucceeded(current)
  /\ UNCHANGED <<history, streamVars, encoder, receiver, now, boundVars, auxVars>>

\* The transport takes the packet.
SendDone ==
  /\ process = "SendPacketToNetwork"
  /\ SendSucceeded(current)
  /\ sent' = [sent EXCEPT ![current.sequence_number] = @ + 1]
  /\ newest' = Most(newest, Position(current.sequence_number))
  /\ last_first' = IF current.retransmission THEN last_first
                                             ELSE Position(current.sequence_number)
  /\ UNCHANGED <<history, streamVars, encoder, receiver, now, boundVars,
                 requested, resent_at, touched>>

\* The transport refuses it: the packet goes back into the queue.
SendRefused ==
  /\ process = "SendPacketToNetwork"
  /\ TRUE \in Refuses
  /\ pacer' = CancelPop(pacer, current)
  /\ process' = "idle" /\ current' = None
  /\ touched' = touched \cup {current.sequence_number}
  /\ UNCHANGED <<history, streamVars, encoder, receiver, now, boundVars,
                 sent, requested, resent_at, last_first, newest>>

\* SendPadData: padding takes sequence numbers of the stream and is not stored.
\* Of the packets needed, k are sent: all, or none in the middle of a frame, or
\* those before one that the transport refuses, whose number is used all the
\* same.  The loop is one step: the encoder's packets fall before or after it.
TimeToSendPadding ==
  /\ process = "TimeToSendPadding"
  /\ \E needed \in {(current.bytes + PaddingBytes - 1) \div PaddingBytes} :
       \E k \in 0..needed, refused \in Refuses \cup {FALSE} :
         \E numbers \in {IF refused THEN k + 1 ELSE k} :
           /\ IF refused THEN k < needed ELSE k \in {0, needed}
           /\ used + numbers <= MaxPackets
           /\ used' = used + numbers
           /\ newest' = IF k > 0 THEN used + k ELSE newest
           /\ pacer' = IF k > 0 THEN BytesSent(pacer, k * PaddingBytes) ELSE pacer
  /\ process' = "idle" /\ current' = None
  /\ UNCHANGED <<history, first, encoder, receiver, now, boundVars,
                 sent, requested, resent_at, last_first, touched>>

\* TimeUntilNextProcess, which the process thread calls between two Processes.
TimeUntilNextProcess ==
  /\ process = "idle"
  /\ IsProbing(pacer)
  /\ \E giveUp \in BOOLEAN : pacer' = TimeUntilNextProbe(pacer, giveUp)
  /\ UNCHANGED <<history, streamVars, encoder, receiver, process, current, now,
                 boundVars, auxVars>>

-----------------------------------------------------------------------------
(* Everybody else.                                                         *)

AverageQueueTime ==
  /\ pacer' = UpdateQueueTime(pacer, now)
  /\ UNCHANGED <<history, streamVars, encoder, receiver, process, current, now,
                 boundVars, auxVars>>

Call == calls < MaxCalls /\ calls' = calls + 1

SetPaused(paused) ==
  /\ Call /\ pacer.paused # paused
  /\ pacer' = [pacer EXCEPT !.paused = paused]
  /\ UNCHANGED <<history, streamVars, encoder, receiver, process, current, now,
                 nacks, auxVars>>

UpdateBitrate(max_bitrate) ==
  /\ Call
  /\ pacer' = [pacer EXCEPT !.padding_budget = set_target_rate(@, MinBitrate),
                            !.max_bitrate = max_bitrate]
  /\ UNCHANGED <<history, streamVars, encoder, receiver, process, current, now,
                 nacks, auxVars>>

SetStatus(enable, number_to_store) ==
  /\ Call
  /\ history' = SetStorePacketsStatus(history, enable, number_to_store)
  /\ touched' = Seqs
  /\ UNCHANGED <<pacer, streamVars, encoder, receiver, process, current, now,
                 nacks, sent, requested, resent_at, last_first, newest>>

Tick ==
  /\ now < MaxTime
  /\ now' = now + 1
  /\ UNCHANGED <<history, pacer, streamVars, encoder, receiver, process, current,
                 boundVars, auxVars>>

Init ==
  /\ \E n \in Capacities :
       history = Allocated([store |-> FALSE, prev_index |-> 0, packets |-> NoPackets], n)
  /\ now = 1
  /\ \E probing \in Probing :
       pacer = PacedSenderInit(probing, InitialBitrate, MinBitrate, 1)
  /\ used = 0 /\ first \in FirstSeqs
  /\ encoder = None /\ receiver = None
  /\ process = "idle" /\ current = None
  /\ nacks = 0 /\ calls = 0
  /\ sent = [s \in Seqs |-> 0] /\ requested = [s \in Seqs |-> 0]
  /\ resent_at = [s \in Seqs |-> 0]
  /\ last_first = 0 /\ newest = 0 /\ touched = {}

Next ==
  \/ \E r \in Retransmittable : SendToNetwork(r)
  \/ SendToNetworkFails \/ SendToNetworkEnqueues
  \/ \E seq \in Seqs : ReSendPacket(seq)
  \/ ReSendPacketEnqueues
  \/ Process \/ TimeToSendPacket \/ SendSkipped \/ SendDone \/ SendRefused
  \/ TimeToSendPadding \/ TimeUntilNextProcess
  \/ AverageQueueTime
  \/ \E paused \in BOOLEAN : SetPaused(paused)
  \/ \E rate \in Bitrates : UpdateBitrate(rate)
  \/ \E enable \in BOOLEAN, n \in Capacities : SetStatus(enable, n)
  \/ Tick

Spec == Init /\ [][Next]_vars

-----------------------------------------------------------------------------
Packets == [priority : {kHighPriority, kNormalPriority}, ssrc : {0, Ssrc},
            sequence_number : Seqs, capture_time_ms : 0..MaxTime,
            enqueue_time_ms : 0..MaxTime, bytes : Nat, retransmission : BOOLEAN,
            enqueue_order : 0..MaxPackets + MaxNacks]

TypeOK ==
  /\ IsHistory(history, 0..MaxTime)
  /\ pacer.list \subseteq Packets /\ pacer.heap \subseteq Packets
  /\ pacer.bytes \in Nat /\ pacer.queue_time_sum \in Nat
  /\ pacer.media_budget.bytes_remaining \in Int
  /\ pacer.prober.state \in {"kDisabled", "kProbing", "kWait"}
  /\ pacer.prober.probes \in 0..NumProbes
  /\ {encoder, receiver, current} \subseteq Packets
  /\ process \in {"idle", "TimeToSendPacket", "not found", "SendPacketToNetwork",
                  "TimeToSendPadding"}
  /\ used \in 0..MaxPackets /\ first \in Seqs /\ now \in 1..MaxTime

Outside == IF current.ssrc = Ssrc THEN {current} ELSE {}

\* The four views PacketQueue keeps of its contents agree, whatever is queued,
\* refused or asked for while Process is outside the critical section with a
\* packet it has popped: the heap holds the list without that packet, the set
\* of duplicates names the packets of the list, each once, and the sums of
\* bytes and of queueing times, which are kept up to date step by step, are
\* those of the list.  (paced_sender.cc: Push, BeginPop, CancelPop,
\* FinalizePop and the RTC_DCHECKs in it, UpdateQueueTime)
QueueConsistent ==
  /\ pacer.heap = pacer.list \ Outside /\ Outside \subseteq pacer.list
  /\ pacer.dupe = {Key(p) : p \in pacer.list}
  /\ Cardinality(pacer.dupe) = Cardinality(pacer.list)
  /\ pacer.bytes = SumFunction([p \in pacer.list |-> p.bytes])
  /\ pacer.queue_time_sum =
       SumFunction([p \in pacer.list |-> pacer.time_last_updated - p.enqueue_time_ms])

PendingPackets == pacer.heap \cup IF encoder = None THEN {} ELSE {encoder}

\* The pacer only knows a packet's number; the packet itself must still be in
\* the history when its turn comes.  It is, however many packets are stored
\* meanwhile, until the history has reached its capacity.  Nothing is claimed
\* of a packet that was marked as sent before it was (touched): one a NACK asked
\* for while it waited, one the transport refused, whose slot the next packet
\* may take (PendingKept), and all of them once the history was purged.
\* (rtp_packet_history.cc: "contains a packet that has not yet been sent
\* (probably pending in paced sender), we need to expand the buffer")
PendingStored ==
  \A p \in PendingPackets :
    \/ p.retransmission \/ p.sequence_number \in touched
    \/ Size(history) = kMaxHistoryCapacity
    \/ Stored(history, p.sequence_number)

\* The same, of packets marked too early as well: what the transport refused
\* still waits, and is still stored.
PendingKept ==
  \A p \in PendingPackets :
    \/ p.retransmission \/ calls > 0
    \/ Size(history) = kMaxHistoryCapacity
    \/ Stored(history, p.sequence_number)

\* A packet is found exactly if it is stored: in spite of the jump that an
\* expansion leaves in the order of the packets, of numbers that wrap or that
\* padding used up, and of empty slots, whose number 0 a packet may have too.
\* (rtp_packet_history.cc: FindSeqNum)
FindsStored ==
  \A seq \in Seqs : HasRTPPacket(history, seq) <=> Stored(history, seq)

\* Nothing is sent twice that was not asked for: a packet reaches the transport
\* at most once, and once more for every time a NACK found it.  (paced_sender.cc:
\* dupe_map_, BeginPop, CancelPop; rtp_sender.cc: ReSendPacket)
SentOncePerRequest == \A seq \in Seqs : sent[seq] <= 1 + requested[seq]

\* Packets leave in their own turn in the order of their sequence numbers, also
\* when the transport refused one of them.  (One that a NACK asks for before its
\* turn may leave as a retransmission first; those are not counted here.)
\* (paced_sender.cc: Comparator, "Send failed, put it back into the queue.")
MediaInOrder == [][last_first' # last_first => last_first' > last_first]_vars

\* Between two retransmissions of a packet at least MinResendMs pass, counted
\* from when it was found, wherever the pacer has it in between.
\* (rtp_packet_history.h: "the minimum time that must have elapsed since the
\* last time the packet was resent")
ResendSpaced ==
  [][\A seq \in Seqs : requested'[seq] # requested[seq] /\ resent_at[seq] > 0
                         => now - resent_at[seq] >= MinResendMs]_vars
=============================================================================
