--------------------------- MODULE PacedSenderOps ---------------------------
(***************************************************************************)
(* The parts of modules/pacing: PacketQueue, IntervalBudget, BitrateProber *)
(* and what PacedSender does with them while it holds its critical         *)
(* section, as operators on a record with PacedSender's fields.            *)
(*                                                                         *)
(* Rates are bytes per millisecond (the code has kbps and divides by 8).   *)
(* packet_list_ and prio_queue_ are sets: a packet is identified by its    *)
(* enqueue_order, and the list's order is that of the enqueue orders.      *)
(***************************************************************************)
EXTENDS Integers, FiniteSets, FiniteSetsExt

CONSTANTS
  kWindowMs,            \* 500
  kMaxIntervalTimeMs,   \* 30
  kMaxQueueLengthMs,    \* 2000
  kMinPacketLimitMs,    \* 5
  kMinProbePacketSize,  \* 200
  NumProbes             \* 11 packets are used for probing

ASSUME PacedSenderAssumption ==
  {kWindowMs, kMaxIntervalTimeMs, kMaxQueueLengthMs, kMinPacketLimitMs,
   kMinProbePacketSize, NumProbes} \subseteq Nat

Lower(x, y) == IF x < y THEN x ELSE y

Upper(x, y) == IF x > y THEN x ELSE y

kHighPriority == 0
kNormalPriority == 2

-----------------------------------------------------------------------------
(* PacketQueue.                                                            *)

\* Mutant of Below: packets of one frame are not told apart.
BelowNoTie(first, second) ==
  \/ first.priority > second.priority
  \/ /\ first.priority = second.priority
     /\ \/ second.retransmission /\ ~first.retransmission
        \/ first.capture_time_ms >= second.capture_time_ms

\* Comparator: first has a lower priority than second.
Below(first, second) ==
  IF first.priority # second.priority THEN first.priority > second.priority
  ELSE \/ second.retransmission /\ ~first.retransmission
       \/ IF first.capture_time_ms # second.capture_time_ms
          THEN first.capture_time_ms > second.capture_time_ms
          ELSE first.enqueue_order > second.enqueue_order

\* std::priority_queue::top.  The comparator is a strict order as long as no
\* retransmission meets an older packet of its own priority that is not one:
\* each of those two is below the other.
IsTop(p, heap) == p \in heap /\ \A q \in heap \ {p} : Below(q, p)

Key(p) == <<p.ssrc, p.sequence_number>>

UpdateQueueTime(s, now) ==
  [s EXCEPT !.queue_time_sum = @ + (now - s.time_last_updated) * Cardinality(s.list),
            !.time_last_updated = now]

\* Mutant of Push: the queue time is not brought up to date first.
PushNoUpdate(s, p) ==
  IF Key(p) \in s.dupe THEN s
  ELSE [s EXCEPT !.list = @ \cup {p}, !.heap = @ \cup {p},
                 !.dupe = @ \cup {Key(p)}, !.bytes = @ + p.bytes]

\* A packet that is queued already, or outside the queue being sent, is not
\* queued again.
Push(s, p) ==
  IF Key(p) \in s.dupe THEN s
  ELSE [UpdateQueueTime(s, p.enqueue_time_ms) EXCEPT
          !.list = @ \cup {p}, !.heap = @ \cup {p},
          !.dupe = @ \cup {Key(p)}, !.bytes = @ + p.bytes]

\* Mutant of BeginPop: the top is read and not popped.
BeginPeek(s, p) == s

BeginPop(s, p) == [s EXCEPT !.heap = @ \ {p}]

CancelPop(s, p) == [s EXCEPT !.heap = @ \cup {p}]

FinalizePop(s, p) ==
  [s EXCEPT !.dupe = @ \ {Key(p)}, !.bytes = @ - p.bytes, !.list = @ \ {p},
            !.queue_time_sum = @ - (s.time_last_updated - p.enqueue_time_ms)]

AverageQueueTimeMs(s) ==
  IF s.heap = {} THEN 0 ELSE s.queue_time_sum \div Cardinality(s.list)

-----------------------------------------------------------------------------
(* IntervalBudget.                                                         *)

set_target_rate(b, rate) ==
  [rate |-> rate, bytes_remaining |-> Upper(-kWindowMs * rate, b.bytes_remaining)]

IncreaseBudget(b, delta_time_ms) ==
  [b EXCEPT !.bytes_remaining = b.rate * delta_time_ms
                                + (IF @ < 0 THEN @ ELSE 0)]

UseBudget(b, bytes) ==
  [b EXCEPT !.bytes_remaining = Upper(@ - bytes, -kWindowMs * b.rate)]

bytes_remaining(b) == Upper(0, b.bytes_remaining)

-----------------------------------------------------------------------------
(* BitrateProber: probing_state_, the number of probe_bitrates_ left and   *)
(* packet_size_last_send_.  Whether the time between two probes is too     *)
(* small or too much of it has passed is left open (giveUp).               *)

IsProbing(s) == s.prober.state = "kProbing"

\* SetEnabled(true) followed by MaybeInitializeProbe.
StartProbing(s) ==
  IF s.probing_enabled /\ s.prober.state = "kDisabled"
  THEN [s EXCEPT !.prober.state = "kProbing", !.prober.probes = NumProbes]
  ELSE s

TimeUntilNextProbe(s, giveUp) ==
  [s EXCEPT !.prober.state =
     IF \/ s.prober.probes = 0
        \/ giveUp /\ s.prober.packet_size_last_send > kMinProbePacketSize
     THEN "kWait" ELSE @]

ProbeSent(s, bytes) ==
  [s EXCEPT !.prober.packet_size_last_send = bytes,
            !.prober.probes = IF IsProbing(s) /\ @ > 0 THEN @ - 1 ELSE @]

-----------------------------------------------------------------------------
(* PacedSender.                                                            *)

\* The accounting of SendPacket and SendPadding once the bytes are sent.
BytesSent(s, bytes) ==
  LET t == ProbeSent(s, bytes)
  IN  [t EXCEPT !.media_budget = UseBudget(@, bytes),
                !.padding_budget = UseBudget(@, bytes)]

InsertPacket(s, p) == [Push(StartProbing(s), p) EXCEPT !.packet_counter = @ + 1]

UpdateBytesPerInterval(s, delta_time_ms) ==
  [s EXCEPT !.media_budget = IncreaseBudget(@, delta_time_ms),
            !.padding_budget = IncreaseBudget(@, delta_time_ms)]

\* The rate that empties the queue before its packets are too old.
TargetRate(s) ==
  IF s.bytes = 0 THEN s.max_bitrate
  ELSE Upper(s.max_bitrate,
             s.bytes \div Upper(1, kMaxQueueLengthMs - AverageQueueTimeMs(s)))

\* Process up to its loop: the budgets of the time since the last call.
Refill(s, now) ==
  LET elapsed == now - s.time_last_update
      u == IF s.bytes > 0 THEN UpdateQueueTime(s, now) ELSE s
      t == [u EXCEPT !.time_last_update = now,
                     !.media_budget = set_target_rate(@, TargetRate(u))]
  IN  IF elapsed > 0 THEN UpdateBytesPerInterval(t, Lower(kMaxIntervalTimeMs, elapsed))
                     ELSE [s EXCEPT !.time_last_update = now]

\* The head of Process's loop.
MaySend(s) == s.heap # {} /\ (bytes_remaining(s.media_budget) > 0 \/ IsProbing(s))

PaddingNeeded(s) ==
  IF s.heap # {} THEN 0
  ELSE IF IsProbing(s) THEN s.prober.packet_size_last_send
  ELSE bytes_remaining(s.padding_budget)

PacedSenderInit(probing_enabled, max_bitrate, min_bitrate, now) ==
  UpdateBytesPerInterval(
    [paused |-> FALSE, probing_enabled |-> probing_enabled,
     media_budget |-> [rate |-> max_bitrate, bytes_remaining |-> 0],
     padding_budget |-> [rate |-> min_bitrate, bytes_remaining |-> 0],
     prober |-> [state |-> "kDisabled", probes |-> 0, packet_size_last_send |-> 0],
     max_bitrate |-> max_bitrate, time_last_update |-> now, packet_counter |-> 0,
     list |-> {}, heap |-> {}, dupe |-> {}, bytes |-> 0,
     queue_time_sum |-> 0, time_last_updated |-> now],
    kMinPacketLimitMs)
=============================================================================
