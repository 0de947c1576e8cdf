------------------------- MODULE RtpSendPathProofs --------------------------
(***************************************************************************)
(* Theorems about RtpSendPath, for every capacity of the history, range of *)
(* sequence numbers, rate, interval and number of packets.                 *)
(*                                                                         *)
(* The sums a PacketQueue keeps are sums over a finite set of packets,     *)
(* whose facts are proved first, by looking at a smallest subset that      *)
(* would violate them.                                                     *)
(***************************************************************************)
EXTENDS RtpSendPath, FiniteSetTheorems, TLAPS

-----------------------------------------------------------------------------
(* Sums over a finite set.                                                 *)

\* A nonempty set of subsets of a finite set has a minimal member, because strict
\* inclusion is well founded on the finite subsets.
LEMMA LeastSubset ==
  ASSUME NEW S, IsFiniteSet(S), NEW B \in SUBSET SUBSET S, B # {}
  PROVE  \E T \in B : \A U \in B : U \subseteq T => U = T
<1>1. IsWellFoundedOn(StrictSubsetOrdering(S), FiniteSubsetsOf(S))
  BY FS_StrictSubsetOrderingWellFounded
<1>2. B \subseteq FiniteSubsetsOf(S)
  BY FS_FiniteSubsetsOfFinite
<1>3. PICK T \in B : \A U \in B : ~(<<U, T>> \in StrictSubsetOrdering(S))
  BY <1>1, <1>2, WFMin
<1>4. ASSUME NEW U \in B, U \subseteq T PROVE U = T
  BY <1>3, <1>4 DEF StrictSubsetOrdering
<1> QED BY <1>4

Pick(s) == CHOOSE x \in s : TRUE

IsIter(it, f, S) ==
  it = [s \in SUBSET S |-> IF s = {} THEN 0 ELSE f[Pick(s)] + it[s \ {Pick(s)}]]

\* The sum over a set is the value at that set of the function the fold chooses.
LEMMA SumIsIter ==
  \A f, S : SumFunctionOnSet(f, S) = (CHOOSE it : IsIter(it, f, S))[S]
BY DEF SumFunctionOnSet, FoldFunctionOnSet, MapThenFoldSet, IsIter, Pick

\* A set that is not empty contains the element picked from it.
LEMMA PickIn == \A s : s # {} => Pick(s) \in s
BY DEF Pick

\* There is only one such function: a smallest set on which two differ does not
\* exist.
LEMMA IterUnique ==
  ASSUME NEW f, NEW S, IsFiniteSet(S), NEW g, NEW h, IsIter(g, f, S), IsIter(h, f, S)
  PROVE  g = h
<1> DEFINE B == {s \in SUBSET S : g[s] # h[s]}
<1>1. B = {}
  <2>1. SUFFICES ASSUME B # {} PROVE FALSE
    OBVIOUS
  <2>a. B \in SUBSET SUBSET S
    OBVIOUS
  <2>2. PICK T \in B : \A U \in B : U \subseteq T => U = T
    <3> HIDE DEF B
    <3> QED BY <2>1, <2>a, LeastSubset
  <2>3. CASE T = {}
    BY <2>3 DEF IsIter
  <2>4. CASE T # {}
    <3>1. T \ {Pick(T)} \in SUBSET S /\ T \ {Pick(T)} # T
      BY <2>4, PickIn
    <3>2. g[T \ {Pick(T)}] = h[T \ {Pick(T)}]
      BY <2>2, <3>1
    <3> QED BY <3>2, <2>4 DEF IsIter
  <2> QED BY <2>3, <2>4
<1>2. \A s \in SUBSET S : g[s] = h[s]
  BY <1>1
<1>3. g = [s \in SUBSET S |-> g[s]] /\ h = [s \in SUBSET S |-> h[s]]
  BY DEF IsIter
<1> QED BY <1>2, <1>3

\* The part of it on the subsets of a smaller set.
LEMMA IterPart ==
  ASSUME NEW f, NEW S, NEW g, IsIter(g, f, S), NEW T \in SUBSET S
  PROVE  IsIter([s \in SUBSET T |-> g[s]], f, T)
<1> DEFINE h == [s \in SUBSET T |-> g[s]]
<1>1. ASSUME NEW s \in SUBSET T
      PROVE  g[s] = IF s = {} THEN 0 ELSE f[Pick(s)] + h[s \ {Pick(s)}]
  <2>1. s \ {Pick(s)} \in SUBSET T
    OBVIOUS
  <2>2. h[s \ {Pick(s)}] = g[s \ {Pick(s)}]
    BY <2>1
  <2> QED BY <2>2 DEF IsIter
<1> HIDE DEF h
<1>2. [s \in SUBSET T |-> g[s]] = [s \in SUBSET T |-> IF s = {} THEN 0 ELSE f[Pick(s)] + h[s \ {Pick(s)}]]
  BY <1>1
<1> QED BY <1>2 DEF IsIter, h

\* And there is one: a smallest subset without it would get it from the subset
\* without its picked element.
LEMMA IterExists ==
  ASSUME NEW f, NEW S, IsFiniteSet(S)
  PROVE  \E it : IsIter(it, f, S)
<1> DEFINE B == {T \in SUBSET S : ~ \E it : IsIter(it, f, T)}
           Val(s) == (CHOOSE it : IsIter(it, f, s))[s]
<1> SUFFICES ASSUME B # {} PROVE FALSE
  OBVIOUS
<1>a. B \in SUBSET SUBSET S
  OBVIOUS
<1>1. PICK T \in B : \A U \in B : U \subseteq T => U = T
  <2> HIDE DEF B
  <2> QED BY <1>a, LeastSubset
<1>2. ASSUME NEW s \in SUBSET T, s # T
      PROVE  Val(s) = IF s = {} THEN 0 ELSE f[Pick(s)] + Val(s \ {Pick(s)})
  <2>1. \A u \in SUBSET s : \E it : IsIter(it, f, u)
    BY <1>1, <1>2
  <2>2. PICK g : g = CHOOSE it : IsIter(it, f, s)
    OBVIOUS
  <2>3. IsIter(g, f, s)
    BY <2>1, <2>2
  <2>4. Val(s) = IF s = {} THEN 0 ELSE f[Pick(s)] + g[s \ {Pick(s)}]
    BY <2>2, <2>3 DEF IsIter
  <2>5. CASE s # {}
    <3> DEFINE u == s \ {Pick(s)}
    <3>1. PICK h : h = CHOOSE it : IsIter(it, f, u)
      OBVIOUS
    <3>2. IsIter(h, f, u)
      BY <2>1, <3>1
    <3>3. IsIter([r \in SUBSET u |-> g[r]], f, u)
      BY <2>3, IterPart
    <3>4. IsFiniteSet(u)
      <4>1. u \in SUBSET S
        OBVIOUS
      <4> QED BY <4>1, FS_Subset
    <3>5. h = [r \in SUBSET u |-> g[r]]
      BY <3>2, <3>3, <3>4, IterUnique
    <3>6. Val(u) = g[u]
      BY <3>1, <3>5
    <3> QED BY <3>6, <2>4
  <2> QED BY <2>4, <2>5
<1> DEFINE it == [s \in SUBSET T |-> IF s = {} THEN 0 ELSE f[Pick(s)] + Val(s \ {Pick(s)})]
<1>3. ASSUME NEW s \in SUBSET T, s # {} PROVE it[s \ {Pick(s)}] = Val(s \ {Pick(s)})
  <2>1. s \ {Pick(s)} \in SUBSET T /\ s \ {Pick(s)} # T
    BY <1>3, PickIn
  <2> HIDE DEF Val
  <2>2. it[s \ {Pick(s)}] = IF s \ {Pick(s)} = {} THEN 0
          ELSE f[Pick(s \ {Pick(s)})] + Val((s \ {Pick(s)}) \ {Pick(s \ {Pick(s)})})
    BY <2>1
  <2> QED BY <2>1, <2>2, <1>2
<1> HIDE DEF Val
<1>4. it = [s \in SUBSET T |-> IF s = {} THEN 0 ELSE f[Pick(s)] + it[s \ {Pick(s)}]]
  <2> DEFINE jt == [s \in SUBSET T |-> IF s = {} THEN 0 ELSE f[Pick(s)] + it[s \ {Pick(s)}]]
  <2>1. \A s \in SUBSET T : s # {} => it[s \ {Pick(s)}] = Val(s \ {Pick(s)})
    BY <1>3
  <2>2. ASSUME NEW s \in SUBSET T PROVE it[s] = jt[s]
    <3> HIDE DEF jt
    <3>1. it[s] = IF s = {} THEN 0 ELSE f[Pick(s)] + Val(s \ {Pick(s)})
      OBVIOUS
    <3> HIDE DEF it
    <3> USE DEF jt
    <3> QED BY <2>1, <3>1
  <2> QED BY <2>2
<1> HIDE DEF it
<1>5. IsIter(it, f, T)
  BY <1>4 DEF IsIter
<1> QED BY <1>1, <1>5

\* What the sum is: 0 for no elements, otherwise an element's value and the rest.
LEMMA SumPicks ==
  ASSUME NEW f, NEW S, IsFiniteSet(S)
  PROVE  SumFunctionOnSet(f, S) =
           IF S = {} THEN 0 ELSE f[Pick(S)] + SumFunctionOnSet(f, S \ {Pick(S)})
<1>1. PICK g : g = CHOOSE it : IsIter(it, f, S)
  OBVIOUS
<1>2. IsIter(g, f, S)
  BY <1>1, IterExists
<1>3. SumFunctionOnSet(f, S) = g[S]
  BY <1>1, SumIsIter
<1>4. CASE S = {}
  BY <1>2, <1>3, <1>4 DEF IsIter
<1>5. CASE S # {}
  <2> DEFINE u == S \ {Pick(S)}
  <2>1. PICK h : h = CHOOSE it : IsIter(it, f, u)
    OBVIOUS
  <2>2. IsFiniteSet(u)
    BY FS_RemoveElement
  <2>3. IsIter(h, f, u)
    BY <2>1, <2>2, IterExists
  <2>a. IsIter([r \in SUBSET u |-> g[r]], f, u)
    BY <1>2, IterPart
  <2>4. h = [r \in SUBSET u |-> g[r]]
    BY <2>a, <2>2, <2>3, IterUnique
  <2>5. SumFunctionOnSet(f, u) = g[u]
    BY <2>1, <2>4, SumIsIter
  <2>6. g[S] = f[Pick(S)] + g[u]
    BY <1>2, <1>5 DEF IsIter
  <2> QED BY <1>3, <1>5, <2>5, <2>6
<1> QED BY <1>4, <1>5

\* The empty sum.
LEMMA SumEmpty == \A f : SumFunctionOnSet(f, {}) = 0
BY SumPicks, FS_EmptySet

\* A sum of integers is an integer.
LEMMA SumInt ==
  ASSUME NEW f, NEW S, IsFiniteSet(S), \A x \in S : f[x] \in Int
  PROVE  SumFunctionOnSet(f, S) \in Int
<1> DEFINE B == {T \in SUBSET S : SumFunctionOnSet(f, T) \notin Int}
<1> SUFFICES ASSUME B # {} PROVE FALSE
  OBVIOUS
<1>1. B \in SUBSET SUBSET S
  OBVIOUS
<1>2. PICK T \in B : \A U \in B : U \subseteq T => U = T
  <2> HIDE DEF B
  <2> QED BY <1>1, LeastSubset
<1>3. IsFiniteSet(T)
  BY <1>1, FS_Subset
<1>4. T # {}
  BY SumEmpty
<1>5. Pick(T) \in T /\ SumFunctionOnSet(f, T) = f[Pick(T)] + SumFunctionOnSet(f, T \ {Pick(T)})
  BY <1>3, <1>4, SumPicks, PickIn
<1>6. SumFunctionOnSet(f, T \ {Pick(T)}) \in Int
  BY <1>2, <1>5
<1> QED BY <1>2, <1>5, <1>6

\* Any element may be taken out first, not only the one the fold picks.
LEMMA SumAny ==
  ASSUME NEW f, NEW S, IsFiniteSet(S), \A x \in S : f[x] \in Int, NEW a \in S
  PROVE  SumFunctionOnSet(f, S) = f[a] + SumFunctionOnSet(f, S \ {a})
<1> DEFINE Bad(T) == \E x \in T : SumFunctionOnSet(f, T) # f[x] + SumFunctionOnSet(f, T \ {x})
           B == {T \in SUBSET S : Bad(T)}
<1> SUFFICES ASSUME B # {} PROVE FALSE
  OBVIOUS
<1>1. B \in SUBSET SUBSET S
  OBVIOUS
<1>2. PICK T \in B : \A U \in B : U \subseteq T => U = T
  <2> HIDE DEF B
  <2> QED BY <1>1, LeastSubset
<1>3. /\ \A U \in SUBSET T : IsFiniteSet(U) /\ SumFunctionOnSet(f, U) \in Int
      /\ \A x \in T : f[x] \in Int
  <2>1. \A U \in SUBSET T : IsFiniteSet(U)
    BY <1>1, FS_Subset
  <2> QED BY <2>1, SumInt
<1>4. PICK x \in T : SumFunctionOnSet(f, T) # f[x] + SumFunctionOnSet(f, T \ {x})
  OBVIOUS
<1>5. PICK c \in T : SumFunctionOnSet(f, T) = f[c] + SumFunctionOnSet(f, T \ {c})
  BY <1>3, <1>4, SumPicks, PickIn
<1>6. x # c
  BY <1>4, <1>5
<1>7. ASSUME NEW U \in SUBSET T, U # T, NEW y \in U
      PROVE  SumFunctionOnSet(f, U) = f[y] + SumFunctionOnSet(f, U \ {y})
  BY <1>2, <1>7
<1>8. SumFunctionOnSet(f, T \ {c}) = f[x] + SumFunctionOnSet(f, (T \ {c}) \ {x})
  <2>1. T \ {c} \in SUBSET T /\ T \ {c} # T /\ x \in T \ {c}
    BY <1>6
  <2> QED BY <2>1, <1>7
<1>9. SumFunctionOnSet(f, T \ {x}) = f[c] + SumFunctionOnSet(f, (T \ {x}) \ {c})
  <2>1. T \ {x} \in SUBSET T /\ T \ {x} # T /\ c \in T \ {x}
    BY <1>6
  <2> QED BY <2>1, <1>7
<1>10. PICK r \in Int : r = SumFunctionOnSet(f, (T \ {c}) \ {x})
  BY <1>3
<1>11. (T \ {c}) \ {x} = (T \ {x}) \ {c}
  OBVIOUS
<1>12. PICK fx \in Int, fc \in Int : fx = f[x] /\ fc = f[c]
  BY <1>3
<1>13. SumFunctionOnSet(f, T) = fc + (fx + r) /\ SumFunctionOnSet(f, T \ {x}) = fc + r
  BY <1>5, <1>8, <1>9, <1>10, <1>11, <1>12
<1> QED BY <1>4, <1>12, <1>13

\* A new element adds its value: what Push does to bytes_ and queue_time_sum_.
LEMMA SumAdded ==
  ASSUME NEW f, NEW S, IsFiniteSet(S), NEW a, a \notin S, \A x \in S \cup {a} : f[x] \in Int
  PROVE  SumFunctionOnSet(f, S \cup {a}) = f[a] + SumFunctionOnSet(f, S)
<1>1. IsFiniteSet(S \cup {a}) /\ a \in S \cup {a} /\ (S \cup {a}) \ {a} = S
  BY FS_AddElement
<1>2. SumFunctionOnSet(f, S \cup {a}) = f[a] + SumFunctionOnSet(f, (S \cup {a}) \ {a})
  BY <1>1, SumAny
<1> QED BY <1>1, <1>2

\* If all values grow by d, the sum grows by d for each element.
LEMMA SumShifted ==
  ASSUME NEW f, NEW g, NEW S, IsFiniteSet(S), NEW d \in Int,
         \A x \in S : f[x] \in Int /\ g[x] = f[x] + d
  PROVE  SumFunctionOnSet(g, S) = SumFunctionOnSet(f, S) + d * Cardinality(S)
<1> DEFINE B == {T \in SUBSET S : SumFunctionOnSet(g, T) # SumFunctionOnSet(f, T) + d * Cardinality(T)}
<1> SUFFICES ASSUME B # {} PROVE FALSE
  OBVIOUS
<1>1. B \in SUBSET SUBSET S
  OBVIOUS
<1>2. PICK T \in B : \A U \in B : U \subseteq T => U = T
  <2> HIDE DEF B
  <2> QED BY <1>1, LeastSubset
<1>3. IsFiniteSet(T)
  BY <1>1, FS_Subset
<1>4. T # {}
  <2> SUFFICES ASSUME T = {} PROVE FALSE
    OBVIOUS
  <2>1. SumFunctionOnSet(g, T) = 0 /\ SumFunctionOnSet(f, T) = 0 /\ Cardinality(T) = 0
    BY SumEmpty, FS_EmptySet
  <2> QED BY <2>1
<1>5. PICK c \in T : TRUE
  BY <1>4
<1> DEFINE U == T \ {c}
<1>6. IsFiniteSet(U) /\ Cardinality(U) \in Int /\ Cardinality(T) = Cardinality(U) + 1
  <2>1. IsFiniteSet(U) /\ Cardinality(U) = Cardinality(T) - 1
    BY <1>3, FS_RemoveElement
  <2>2. Cardinality(T) \in Nat
    BY <1>3, FS_CardinalityType
  <2> QED BY <2>1, <2>2
<1>7. \A x \in T : f[x] \in Int /\ g[x] = f[x] + d
  BY <1>1
<1>8. SumFunctionOnSet(f, T) = f[c] + SumFunctionOnSet(f, U)
  BY <1>3, <1>7, SumAny
<1>9. SumFunctionOnSet(g, T) = g[c] + SumFunctionOnSet(g, U)
  <2>1. \A x \in T : g[x] \in Int
    BY <1>7
  <2> QED BY <1>3, <2>1, SumAny
<1>10. SumFunctionOnSet(g, U) = SumFunctionOnSet(f, U) + d * Cardinality(U)
  <2>1. U \subseteq T /\ U # T /\ U \in SUBSET S
    BY <1>1
  <2> HIDE DEF U
  <2> QED BY <2>1, <1>2
<1>11. PICK sf \in Int, n \in Int, fc \in Int :
         sf = SumFunctionOnSet(f, U) /\ n = Cardinality(U) /\ fc = f[c]
  BY <1>6, <1>7, SumInt
<1>12. d * (n + 1) = d * n + d
  BY <1>11
<1>13. PICK e \in Int : e = d * n
  BY <1>11
<1>14. SumFunctionOnSet(g, T) = SumFunctionOnSet(f, T) + d * Cardinality(T)
  <2>1. SumFunctionOnSet(g, T) = (fc + d) + (sf + e)
    BY <1>7, <1>9, <1>10, <1>11, <1>13
  <2>2. SumFunctionOnSet(f, T) = fc + sf
    BY <1>8, <1>11
  <2>3. d * Cardinality(T) = e + d
    BY <1>6, <1>11, <1>12, <1>13
  <2> QED BY <2>1, <2>2, <2>3, <1>11, <1>13
<1> QED BY <1>2, <1>14

\* A sum of naturals is a natural: bytes_ never underflows.
LEMMA SumNat ==
  ASSUME NEW f, NEW S, IsFiniteSet(S), \A x \in S : f[x] \in Nat
  PROVE  SumFunctionOnSet(f, S) \in Nat
<1> DEFINE B == {T \in SUBSET S : SumFunctionOnSet(f, T) \notin Nat}
<1> SUFFICES ASSUME B # {} PROVE FALSE
  OBVIOUS
<1>1. B \in SUBSET SUBSET S
  OBVIOUS
<1>2. PICK T \in B : \A U \in B : U \subseteq T => U = T
  <2> HIDE DEF B
  <2> QED BY <1>1, LeastSubset
<1>3. IsFiniteSet(T)
  BY <1>1, FS_Subset
<1>4. T # {}
  BY SumEmpty
<1>5. Pick(T) \in T /\ SumFunctionOnSet(f, T) = f[Pick(T)] + SumFunctionOnSet(f, T \ {Pick(T)})
  BY <1>3, <1>4, SumPicks, PickIn
<1>6. SumFunctionOnSet(f, T \ {Pick(T)}) \in Nat
  BY <1>2, <1>5
<1> QED BY <1>2, <1>5, <1>6
-----------------------------------------------------------------------------
(* The inductive invariant.                                                *)

Holding == {"TimeToSendPacket", "not found", "SendPacketToNetwork"}

\* The position in a stream that starts with f of the packet with a number.
Pos(f, seq) == ((seq - f) % SeqRange) + 1

StoredType == StoredPacketType(0..MaxTime)

\* A history with n slots.
HistoryOf(n) ==
  [store : BOOLEAN, prev_index : Nat, packets : [0..n-1 -> StoredType]]

HistoryTyped(h) == \E n \in 0..kMaxHistoryCapacity : h \in HistoryOf(n)

BudgetType == [rate : Int, bytes_remaining : Int]

PacerType ==
  [paused : BOOLEAN, probing_enabled : BOOLEAN, media_budget : BudgetType,
   padding_budget : BudgetType,
   prober : [state : {"kDisabled", "kProbing", "kWait"}, probes : 0..NumProbes,
             packet_size_last_send : Nat],
   max_bitrate : Int, time_last_update : Int, packet_counter : Nat,
   list : SUBSET Packets, heap : SUBSET Packets, dupe : SUBSET ({Ssrc} \X Seqs),
   bytes : Int, queue_time_sum : Int, time_last_updated : Int]

Typed ==
  /\ HistoryTyped(history) /\ pacer \in PacerType
  /\ encoder \in Packets /\ receiver \in Packets /\ current \in Packets
  /\ process \in {"idle", "TimeToSendPadding"} \cup Holding
  /\ used \in 0..MaxPackets /\ first \in Seqs /\ now \in 1..MaxTime
  /\ nacks \in 0..MaxNacks
  /\ sent \in [Seqs -> Nat] /\ requested \in [Seqs -> Nat] /\ resent_at \in [Seqs -> Nat]
  /\ last_first \in Nat /\ touched \in SUBSET Seqs

\* The slots that hold no packet have the number 0, and they follow those that
\* hold one: packets fill the slots in order, and slots are added at the end.
Filled(h) ==
  \A i, j \in DOMAIN h.packets :
    /\ ~h.packets[i].stored => h.packets[i].sequence_number = 0
    /\ ~h.packets[j].stored => (h.packets[i].stored <=> i < h.prev_index)

Slots(h) ==
  /\ IF h.store THEN h.prev_index \in DOMAIN h.packets
                ELSE h.prev_index = 0 /\ DOMAIN h.packets = {}
  /\ Filled(h)
  /\ \A i, j \in DOMAIN h.packets :
       h.packets[i].stored /\ h.packets[j].stored =>
         (h.packets[i].sequence_number = h.packets[j].sequence_number => i = j)

\* A stored packet is one of the stream; one that was found for a NACK says so.
Recorded ==
  \A i \in DOMAIN history.packets :
    LET p == history.packets[i] IN
    p.stored => /\ Pos(first, p.sequence_number) <= used
                /\ resent_at[p.sequence_number] > 0 =>
                     /\ p.has_been_retransmitted
                     /\ p.send_time >= resent_at[p.sequence_number]

\* The sums of a set of packets: of their bytes, and of the time each has been in
\* the queue at time t.
BytesOf(L) == SumFunction([p \in L |-> p.bytes])

TimesOf(L, t) == SumFunction([p \in L |-> t - p.enqueue_time_ms])

\* The queue of a pacer s from which Process has taken the packets of out.
QueueOK(s, out) ==
  /\ IsFiniteSet(s.list)
  /\ s.heap = s.list \ out /\ out \subseteq s.list
  /\ s.dupe = {Key(p) : p \in s.list}
  /\ \A p, q \in s.list : Key(p) = Key(q) => p = q
  /\ s.bytes = BytesOf(s.list)
  /\ s.queue_time_sum = TimesOf(s.list, s.time_last_updated)
  /\ \A p \in s.list : /\ p.ssrc = Ssrc
                       /\ p.enqueue_time_ms <= s.time_last_updated
                       /\ p.enqueue_order < s.packet_counter

Clocks == /\ pacer.time_last_updated <= now
          /\ \A seq \in Seqs : resent_at[seq] <= now

\* Which packets the threads hold.
Held ==
  /\ current.ssrc = (IF process \in Holding THEN Ssrc ELSE 0)
  /\ encoder # None => /\ encoder.ssrc = Ssrc /\ ~encoder.retransmission
                       /\ encoder.priority = kNormalPriority
                       /\ Pos(first, encoder.sequence_number) <= used
                       /\ encoder.capture_time_ms <= now
  /\ receiver # None => /\ receiver.ssrc = Ssrc /\ receiver.retransmission
                        /\ Pos(first, receiver.sequence_number) <= used

\* packet_counter_ counts what was queued; every packet was stored or found first.
Counted ==
  pacer.packet_counter + (IF encoder = None THEN 0 ELSE 1)
                       + (IF receiver = None THEN 0 ELSE 1) <= used + nacks

Media(s) == {p \in s.list : ~p.retransmission}

\* The media packets in the queue are those after the last one sent, and the
\* comparator puts them into the order of the stream.
InOrder ==
  /\ last_first <= used
  /\ \A p \in pacer.list : Pos(first, p.sequence_number) <= used
  /\ \A p \in Media(pacer) :
       /\ p.priority = kNormalPriority
       /\ last_first < Pos(first, p.sequence_number)
       /\ p.capture_time_ms <= now
  /\ \A p, q \in Media(pacer) :
       Pos(first, p.sequence_number) < Pos(first, q.sequence_number) =>
         p.capture_time_ms <= q.capture_time_ms /\ p.enqueue_order < q.enqueue_order
  /\ encoder # None =>
       /\ last_first < Pos(first, encoder.sequence_number)
       /\ \A p \in Media(pacer) :
            /\ Pos(first, p.sequence_number) < Pos(first, encoder.sequence_number)
            /\ p.capture_time_ms <= encoder.capture_time_ms

\* The media packet that Process holds is the first of them: it was the top of the
\* heap, and those queued since come later.
Popped ==
  process \in Holding /\ ~current.retransmission =>
    \A p \in Media(pacer) \ {current} :
      Pos(first, current.sequence_number) < Pos(first, p.sequence_number)

One(b) == IF b THEN 1 ELSE 0

\* How often a packet may still be sent: it is with the encoder's thread, with the
\* receiver's, or in the queue.
Copies(seq) ==
  One(encoder # None /\ encoder.sequence_number = seq)
  + One(receiver # None /\ receiver.sequence_number = seq)
  + One(\E p \in pacer.list : p.sequence_number = seq)

Budgeted ==
  \A seq \in Seqs :
    /\ sent[seq] + Copies(seq) <= 1 + requested[seq]
    /\ Pos(first, seq) > used => sent[seq] = 0 /\ resent_at[seq] = 0

\* What keeps a packet in the history while it waits: that it is not sent.
Kept(seq) ==
  \/ seq \in touched
  \/ Size(history) = kMaxHistoryCapacity
  \/ \E i \in DOMAIN history.packets :
       /\ history.packets[i].stored /\ history.packets[i].sequence_number = seq
       /\ history.packets[i].send_time = 0

\* A packet that waits is kept, and one that a NACK found meanwhile is touched.
Waits ==
  /\ \A p \in PendingPackets : p.retransmission \/ Kept(p.sequence_number)
  /\ ~history.store => touched = Seqs
  /\ encoder # None =>
       /\ receiver # None /\ receiver.sequence_number = encoder.sequence_number
            => encoder.sequence_number \in touched
       /\ \A p \in pacer.list : p.sequence_number = encoder.sequence_number
            => encoder.sequence_number \in touched

IndInv == /\ Typed /\ Slots(history) /\ Recorded /\ QueueOK(pacer, Outside)
          /\ Clocks /\ Held /\ Counted /\ InOrder /\ Popped /\ Budgeted /\ Waits
-----------------------------------------------------------------------------
(* Constants and sequence numbers.                                         *)

\* The assumptions about the constants, one by one.
LEMMA Constants ==
  /\ kMaxHistoryCapacity \in Nat \ {0} /\ SeqRange \in Nat \ {0}
  /\ MaxTime \in Nat \ {0} /\ PacketBytes \in Nat \ {0} /\ PaddingBytes \in Nat \ {0}
  /\ MinResendMs \in Nat /\ MaxNacks \in Nat /\ MaxCalls \in Nat
  /\ InitialBitrate \in Nat /\ MinBitrate \in Nat
  /\ Capacities \subseteq 1..kMaxHistoryCapacity /\ Bitrates \subseteq Nat
  /\ FirstSeqs \subseteq Seqs /\ MaxPackets \in Nat /\ MaxPackets <= SeqRange
  /\ Retransmittable \subseteq BOOLEAN /\ Probing \subseteq BOOLEAN
  /\ NumProbes \in Nat /\ kWindowMs \in Nat /\ kMaxIntervalTimeMs \in Nat
  /\ kMaxQueueLengthMs \in Nat /\ kMinPacketLimitMs \in Nat /\ kMinProbePacketSize \in Nat
BY PacketHistoryAssumption, PacedSenderAssumption, RtpSendPathAssumption DEF Seqs

\* A remainder is in its range, and that of a number in the range around the
\* modulus is known.
LEMMA Remainder ==
  ASSUME NEW R \in Nat \ {0}, NEW x \in Int
  PROVE  /\ x % R \in 0..R-1
         /\ 0 <= x /\ x < R => x % R = x
         /\ R <= x /\ x < 2 * R => x % R = x - R
         /\ -R <= x /\ x < 0 => x % R = x + R
OBVIOUS

\* The remainder of a number between R and 2R.
LEMMA RemainderOfSum ==
  ASSUME NEW R \in Nat \ {0}, NEW a \in Int, NEW b \in Int, R <= a + b - 1, a + b - 1 < 2 * R
  PROVE  (a + b - 1) % R = a + b - 1 - R
OBVIOUS

\* Positions number the packets of the stream from 1, without repetition.
LEMMA PosRange ==
  ASSUME NEW f \in Seqs, NEW seq \in Seqs
  PROVE  Pos(f, seq) \in 1..SeqRange
<1>1. seq - f \in Int /\ SeqRange \in Nat \ {0}
  BY Constants DEF Seqs
<1>2. (seq - f) % SeqRange \in 0..SeqRange-1
  BY <1>1, Remainder
<1> QED BY <1>1, <1>2 DEF Pos

\* Within a round of the sequence numbers a position names one number.
LEMMA PosInjective ==
  ASSUME NEW f \in Seqs, NEW a \in Seqs, NEW b \in Seqs, Pos(f, a) = Pos(f, b)
  PROVE  a = b
<1>1. PICK R \in Nat \ {0} : R = SeqRange
  BY Constants
<1>2. f \in 0..R-1 /\ a \in 0..R-1 /\ b \in 0..R-1
  BY <1>1 DEF Seqs
<1>3. ASSUME NEW x \in 0..R-1
      PROVE  (x - f) % R = IF x >= f THEN x - f ELSE x - f + R
  <2>1. PICK y \in Int : y = x - f /\ -R <= y /\ y < R
    BY <1>2
  <2>2. CASE y >= 0
    <3>1. y % R = y
      BY <2>1, <2>2, Remainder
    <3> QED BY <3>1, <2>1, <2>2, <1>2
  <2>3. CASE y < 0
    <3>1. y % R = y + R
      BY <2>1, <2>3, Remainder
    <3> QED BY <3>1, <2>1, <2>3, <1>2
  <2> QED BY <2>1, <2>2, <2>3
<1>4. (a - f) % R \in Int /\ (b - f) % R \in Int /\ ((a - f) % R) + 1 = ((b - f) % R) + 1
  BY <1>1, <1>2, <1>3 DEF Pos
<1>5. (a - f) % R = (b - f) % R
  BY <1>4
<1> QED BY <1>2, <1>3, <1>5

\* The number of a position.
NumberAt(f, k) == (f + k - 1) % SeqRange

\* The number at a position is a sequence number and has that position.
LEMMA PosOfNumber ==
  ASSUME NEW f \in Seqs, NEW k \in 1..SeqRange
  PROVE  NumberAt(f, k) \in Seqs /\ Pos(f, NumberAt(f, k)) = k
<1>1. PICK R \in Nat \ {0} : R = SeqRange
  BY Constants
<1>2. f \in 0..R-1 /\ k \in 1..R
  BY <1>1 DEF Seqs
<1>3. (f + k - 1) % R = IF f + k - 1 < R THEN f + k - 1 ELSE f + k - 1 - R
  <2>1. PICK y \in Int : y = f + k - 1 /\ 0 <= y /\ y < 2 * R
    BY <1>2
  <2>2. CASE y < R
    <3>1. y % R = y
      BY <2>1, <2>2, Remainder
    <3> QED BY <3>1, <2>1, <2>2
  <2>3. CASE R <= y
    <3>1. R <= f + k - 1 /\ f + k - 1 < 2 * R
      BY <2>1, <2>3
    <3>2. (f + k - 1) % R = f + k - 1 - R
      BY <3>1, <1>2, RemainderOfSum
    <3> QED BY <3>1, <3>2, <1>2
  <2> QED BY <2>1, <2>2, <2>3
<1>4. PICK s \in 0..R-1 : s = (f + k - 1) % R
  BY <1>2, <1>3
<1>5. (s - f) % R = k - 1
  <2>1. CASE f + k - 1 < R
    <3>1. PICK y \in Int : y = s - f /\ y = k - 1 /\ 0 <= y /\ y < R
      BY <1>2, <1>3, <1>4, <2>1
    <3>2. y % R = y
      BY <3>1, Remainder
    <3> QED BY <3>1, <3>2
  <2>2. CASE ~(f + k - 1 < R)
    <3>1. PICK y \in Int : y = s - f /\ y = k - 1 - R /\ -R <= y /\ y < 0
      BY <1>2, <1>3, <1>4, <2>2
    <3>2. y % R = y + R
      BY <3>1, Remainder
    <3> QED BY <3>1, <3>2, <1>2
  <2> QED BY <2>1, <2>2
<1>6. NumberAt(f, k) = s
  BY <1>1, <1>4 DEF NumberAt
<1>7. Pos(f, s) = k - 1 + 1
  BY <1>1, <1>5 DEF Pos
<1> QED BY <1>1, <1>2, <1>4, <1>6, <1>7 DEF Seqs

-----------------------------------------------------------------------------
(* The packet history.                                                     *)

\* The slots of a history.
LEMMA SizeOf ==
  ASSUME NEW n \in Nat, NEW h \in HistoryOf(n)
  PROVE  Size(h) = n /\ DOMAIN h.packets = 0..n-1 /\ h.packets \in [0..n-1 -> StoredType]
<1>1. DOMAIN h.packets = 0..n-1 /\ h.packets \in [0..n-1 -> StoredType]
  BY DEF HistoryOf
<1>2. 0 \in Int /\ n - 1 \in Int
  OBVIOUS
<1>3. Cardinality(0..n-1) = IF 0 > n - 1 THEN 0 ELSE n - 1 - 0 + 1
  BY <1>2, FS_Interval
<1>4. Cardinality(0..n-1) = n
  BY <1>3
<1> QED BY <1>1, <1>4 DEF Size

\* The slot that the constructor of StoredPacket makes.
LEMMA DefaultType == DefaultPacket \in StoredType
BY Constants DEF DefaultPacket, StoredType, StoredPacketType

NewPacket(seq, t, r) ==
  [sequence_number |-> seq, stored |-> TRUE, time_ms |-> t, send_time |-> 0,
   retransmittable |-> r, has_been_retransmitted |-> FALSE]

\* What PutRTPPacket does to a history of n slots: it writes the packet into slot
\* k of m slots, which was not the slot of an unsent packet unless the history has
\* its largest size, and leaves the other packets alone.
Puts(h, n, g, m, k, p) ==
  /\ g \in HistoryOf(m) /\ g.store /\ Slots(g)
  /\ g.packets[k] = p
  /\ \A i \in (0..m-1) \ {k} : g.packets[i] = IF i < n THEN h.packets[i] ELSE DefaultPacket
  /\ n = kMaxHistoryCapacity \/ k >= n \/ ~h.packets[k].stored \/ h.packets[k].send_time # 0

\* The updates of a history's fields, and what they give.
Moved(h, x) == [h EXCEPT !.prev_index = x]

Refilled(h, q) == [h EXCEPT !.store = TRUE, !.packets = q]

Written(h, q, x) == [h EXCEPT !.packets = q, !.prev_index = x]

\* What stays when only prev_index_ moves.
LEMMA HistoryMoved ==
  ASSUME NEW n, NEW h \in HistoryOf(n), NEW x \in Nat
  PROVE  /\ Moved(h, x) \in HistoryOf(n) /\ (Moved(h, x).store <=> h.store)
         /\ Moved(h, x).prev_index = x /\ Moved(h, x).packets = h.packets
BY DEF HistoryOf, Moved

\* What stays when the slots are allocated.
LEMMA HistoryAllocated ==
  ASSUME NEW n, NEW h \in HistoryOf(n), NEW m, NEW q \in [0..m-1 -> StoredType]
  PROVE  /\ Refilled(h, q) \in HistoryOf(m) /\ Refilled(h, q).store
         /\ Refilled(h, q).prev_index = h.prev_index /\ Refilled(h, q).packets = q
BY DEF HistoryOf, Refilled

\* What stays when a slot is written and prev_index_ moves on.
LEMMA HistoryWritten ==
  ASSUME NEW n, NEW h \in HistoryOf(n), NEW q \in [0..n-1 -> StoredType], NEW x \in Nat
  PROVE  /\ Written(h, q, x) \in HistoryOf(n) /\ (Written(h, q, x).store <=> h.store)
         /\ Written(h, q, x).prev_index = x /\ Written(h, q, x).packets = q
BY DEF HistoryOf, Written

\* The part after the expansion: the slot at prev_index is filled.
LEMMA PutInSlot ==
  ASSUME NEW m \in Nat, NEW e \in HistoryOf(m), Slots(e), e.store,
         NEW p \in StoredType, p.stored,
         \A i \in 0..m-1 : e.packets[i].stored => e.packets[i].sequence_number # p.sequence_number,
         NEW q, q = [e.packets EXCEPT ![e.prev_index] = p],
         NEW g, g = Written(e, q, NextIndex(e, e.prev_index))
  PROVE  g \in HistoryOf(m) /\ g.store /\ Slots(g) /\ g.packets = q
<1> DEFINE k == e.prev_index
           x == NextIndex(e, k)
<1>1. /\ Size(e) = m /\ DOMAIN e.packets = 0..m-1 /\ e.packets \in [0..m-1 -> StoredType]
      /\ k \in 0..m-1
  BY SizeOf DEF Slots
<1>2. x \in 0..m-1 /\ x = (IF k + 1 >= m THEN 0 ELSE k + 1)
  BY <1>1 DEF NextIndex
<1>3. q \in [0..m-1 -> StoredType]
  BY <1>1
<1>5. g \in HistoryOf(m) /\ g.store /\ g.packets = q /\ g.prev_index = x
  <2>1. x \in Nat
    BY <1>2
  <2>2. g = Written(e, q, x)
    OBVIOUS
  <2> HIDE DEF x
  <2>3. /\ Written(e, q, x) \in HistoryOf(m) /\ (Written(e, q, x).store <=> e.store)
        /\ Written(e, q, x).prev_index = x /\ Written(e, q, x).packets = q
    <3>1. e \in HistoryOf(m)
      OBVIOUS
    <3> QED BY ONLY <2>1, <3>1, <1>3, HistoryWritten
  <2> QED BY <2>2, <2>3
<1>6. DOMAIN q = 0..m-1 /\ q[k] = p /\ \A i \in (0..m-1) \ {k} : q[i] = e.packets[i]
  BY <1>1
<1>7. Slots(g)
  <2>1. \A i, j \in 0..m-1 :
          /\ ~e.packets[i].stored => e.packets[i].sequence_number = 0
          /\ ~e.packets[j].stored => (e.packets[i].stored <=> i < k)
    BY <1>1 DEF Slots, Filled
  <2>2. \A i, j \in 0..m-1 : e.packets[i].stored /\ e.packets[j].stored =>
          (e.packets[i].sequence_number = e.packets[j].sequence_number => i = j)
    BY <1>1 DEF Slots
  <2>3. \A i \in 0..m-1 : ~q[i].stored => q[i].sequence_number = 0
    BY <2>1, <1>6
  <2>4. \A i, j \in 0..m-1 : ~q[j].stored => (q[i].stored <=> i < x)
    <3> SUFFICES ASSUME NEW i \in 0..m-1, NEW j \in 0..m-1, ~q[j].stored
                 PROVE  q[i].stored <=> i < x
      OBVIOUS
    <3>1. j # k /\ ~e.packets[j].stored
      BY <1>6
    <3>2. \A a \in 0..m-1 : e.packets[a].stored <=> a < k
      BY <2>1, <3>1
    <3>3. j > k
      BY <3>1, <3>2, <1>1
    <3>4. x = k + 1
      BY <3>3, <1>1, <1>2
    <3>5. CASE i = k
      BY <3>4, <3>5, <1>1, <1>6
    <3>6. CASE i # k
      <4>1. q[i].stored <=> i < k
        BY <3>2, <3>6, <1>6
      <4> QED BY <4>1, <3>4, <3>6, <1>1
    <3> QED BY <3>5, <3>6
  <2>5. \A i, j \in 0..m-1 : q[i].stored /\ q[j].stored =>
          (q[i].sequence_number = q[j].sequence_number => i = j)
    <3> SUFFICES ASSUME NEW i \in 0..m-1, NEW j \in 0..m-1, q[i].stored, q[j].stored,
                        q[i].sequence_number = q[j].sequence_number, i # j
                 PROVE  FALSE
      OBVIOUS
    <3>1. CASE i # k /\ j # k
      BY <3>1, <2>2, <1>6
    <3>2. CASE i = k
      BY <3>2, <1>6
    <3>3. CASE j = k
      BY <3>3, <1>6
    <3> QED BY <3>1, <3>2, <3>3
  <2>6. x \in 0..m-1 /\ g.prev_index = x /\ g.packets = q /\ g.store /\ DOMAIN q = 0..m-1
    BY <1>2, <1>5, <1>6
  <2> HIDE DEF x, k
  <2>7. Filled(g)
    BY <2>3, <2>4, <2>6 DEF Filled
  <2> QED BY ONLY <2>5, <2>6, <2>7 DEF Slots
<1> QED BY <1>5, <1>7

\* The new slots are empty and come last.
LEMMA ExpandedSlots ==
  ASSUME NEW n \in 0..kMaxHistoryCapacity, NEW h \in HistoryOf(n), Slots(h), h.store,
         MustExpand(h)
  PROVE  \E m \in n+1..kMaxHistoryCapacity :
           /\ Expanded(h) \in HistoryOf(m) /\ Slots(Expanded(h)) /\ Expanded(h).store
           /\ Expanded(h).prev_index = n
           /\ \A i \in 0..m-1 :
                Expanded(h).packets[i] = IF i < n THEN h.packets[i] ELSE DefaultPacket
<1>1. /\ Size(h) = n /\ DOMAIN h.packets = 0..n-1 /\ h.packets \in [0..n-1 -> StoredType]
      /\ h.prev_index \in 0..n-1 /\ n \in Nat
  BY SizeOf, Constants DEF Slots
<1>2. n < kMaxHistoryCapacity /\ h.packets[h.prev_index].stored
  BY <1>1 DEF MustExpand
<1>3. PICK m \in n+1..kMaxHistoryCapacity :
        m = Least(Most((n * 3) \div 2, n + 1), kMaxHistoryCapacity)
  <2>1. PICK K \in Nat : K = kMaxHistoryCapacity
    BY Constants
  <2>2. PICK d \in Int : d = (n * 3) \div 2
    BY <1>1
  <2>3. Least(Most(d, n + 1), K) \in n+1..K
    BY <1>1, <1>2, <2>1, <2>2 DEF Least, Most
  <2> QED BY <2>1, <2>2, <2>3
<1>4. m \in Nat /\ n < m
  BY <1>1, <1>3
<1> DEFINE q == Resized(h.packets, m)
<1>5. q \in [0..m-1 -> StoredType]
      /\ \A i \in 0..m-1 : q[i] = IF i < n THEN h.packets[i] ELSE DefaultPacket
  <2>1. \A i \in 0..m-1 : i \in 0..n-1 <=> i < n
    BY <1>1, <1>4
  <2>2. q = [i \in 0..m-1 |-> IF i \in 0..n-1 THEN h.packets[i] ELSE DefaultPacket]
    BY <1>1 DEF Resized
  <2> HIDE DEF q
  <2>3. ASSUME NEW i \in 0..m-1
        PROVE  q[i] = (IF i < n THEN h.packets[i] ELSE DefaultPacket) /\ q[i] \in StoredType
    BY <1>1, <2>1, <2>2, DefaultType
  <2> QED BY <2>2, <2>3
<1>6. /\ Expanded(h) \in HistoryOf(m) /\ Expanded(h).store
      /\ Expanded(h).prev_index = n /\ Expanded(h).packets = q
  <2>1. Expanded(h) = Moved(Allocated(h, m), n)
    BY <1>1, <1>3 DEF Expanded, Moved
  <2>2. Allocated(h, m) = Refilled(h, q)
    BY DEF Allocated, Refilled
  <2> HIDE DEF q
  <2>3. /\ Allocated(h, m) \in HistoryOf(m) /\ Allocated(h, m).store
        /\ Allocated(h, m).packets = q
    BY <2>2, <1>5, HistoryAllocated
  <2>4. PICK a \in HistoryOf(m) : a = Allocated(h, m) /\ a.store /\ a.packets = q
    BY <2>3
  <2>5. /\ Moved(a, n) \in HistoryOf(m) /\ (Moved(a, n).store <=> a.store)
        /\ Moved(a, n).prev_index = n /\ Moved(a, n).packets = a.packets
    BY <1>1, HistoryMoved, Zenon
  <2> QED BY <2>1, <2>4, <2>5
<1>7. \A i \in 0..n-1 : h.packets[i].stored
  BY <1>1, <1>2 DEF Slots, Filled
<1>8. \A i \in 0..m-1 : /\ q[i].stored <=> i < n
                        /\ ~q[i].stored => q[i].sequence_number = 0
  <2> SUFFICES ASSUME NEW i \in 0..m-1
               PROVE  (q[i].stored <=> i < n) /\ (~q[i].stored => q[i].sequence_number = 0)
    OBVIOUS
  <2>1. q[i] = IF i < n THEN h.packets[i] ELSE DefaultPacket
    BY <1>5
  <2> HIDE DEF q
  <2>2. CASE i < n
    <3>1. i \in 0..n-1 /\ h.packets[i].stored
      BY <2>2, <1>7, <1>1
    <3> QED BY <3>1, <2>1, <2>2
  <2>3. CASE ~(i < n)
    BY <2>1, <2>3 DEF DefaultPacket
  <2> QED BY <2>2, <2>3
<1>9. \A i, j \in 0..m-1 : q[i].stored /\ q[j].stored =>
        (q[i].sequence_number = q[j].sequence_number => i = j)
  <2>1. \A i, j \in 0..n-1 : h.packets[i].stored /\ h.packets[j].stored =>
          (h.packets[i].sequence_number = h.packets[j].sequence_number => i = j)
    BY <1>1 DEF Slots
  <2>2. \A i \in 0..m-1 : q[i].stored => i \in 0..n-1 /\ q[i] = h.packets[i]
    BY <1>5, <1>8, <1>1
  <2> HIDE DEF q
  <2> QED BY <2>1, <2>2
<1> HIDE DEF q
<1>10. DOMAIN q = 0..m-1
  BY <1>5
<1>11. Slots(Expanded(h))
  <2>1. n \in 0..m-1
    BY <1>1, <1>4
  <2>2. Filled(Expanded(h))
    BY <1>6, <1>8, <1>10 DEF Filled
  <2> QED BY <1>6, <1>9, <1>10, <2>1, <2>2 DEF Slots
<1> QED BY <1>5, <1>6, <1>10, <1>11

\* PutRTPPacket writes the packet into one slot, which may be a new one, and leaves
\* every other packet in place.
LEMMA PutEffect ==
  ASSUME NEW n \in 0..kMaxHistoryCapacity, NEW h \in HistoryOf(n), Slots(h), h.store,
         NEW seq \in Seqs, NEW t \in 0..MaxTime, NEW r \in BOOLEAN,
         \A i \in 0..n-1 : h.packets[i].stored => h.packets[i].sequence_number # seq
  PROVE  \E m \in n..kMaxHistoryCapacity : \E k \in 0..m-1 :
           Puts(h, n, PutRTPPacket(h, seq, t, r), m, k, NewPacket(seq, t, r))
<1> DEFINE p == NewPacket(seq, t, r)
           g == PutRTPPacket(h, seq, t, r)
<1>1. /\ Size(h) = n /\ DOMAIN h.packets = 0..n-1 /\ h.packets \in [0..n-1 -> StoredType]
      /\ h.prev_index \in 0..n-1 /\ n \in Nat
  BY SizeOf, Constants DEF Slots
<1>2. p \in StoredType /\ p.stored /\ p.sequence_number = seq
  BY Constants DEF NewPacket, StoredType, StoredPacketType, Seqs
<1>3. CASE MustExpand(h)
  <2>1. PICK m \in n+1..kMaxHistoryCapacity :
           /\ Expanded(h) \in HistoryOf(m) /\ Slots(Expanded(h)) /\ Expanded(h).store
           /\ Expanded(h).prev_index = n
           /\ \A i \in 0..m-1 :
                Expanded(h).packets[i] = IF i < n THEN h.packets[i] ELSE DefaultPacket
    BY <1>3, ExpandedSlots
  <2>2. PICK e : e = Expanded(h)
    OBVIOUS
  <2>3. m \in Nat /\ n \in 0..m-1 /\ m \in n..kMaxHistoryCapacity
    BY <1>1, <2>1, Constants
  <2>4. \A i \in 0..m-1 : e.packets[i].stored => e.packets[i].sequence_number # seq
    <3> SUFFICES ASSUME NEW i \in 0..m-1, e.packets[i].stored
                 PROVE  e.packets[i].sequence_number # seq
      OBVIOUS
    <3>1. e.packets[i] = IF i < n THEN h.packets[i] ELSE DefaultPacket
      BY <2>1, <2>2
    <3>2. i < n
      BY <3>1 DEF DefaultPacket
    <3>3. i \in 0..n-1 /\ e.packets[i] = h.packets[i]
      BY <3>1, <3>2, <1>1
    <3> QED BY <3>3
  <2>a. PICK q : q = [e.packets EXCEPT ![e.prev_index] = p]
    OBVIOUS
  <2>5. g = Written(e, q, NextIndex(e, e.prev_index))
    BY <1>3, <2>2, <2>a DEF PutRTPPacket, NewPacket, Written
  <2> HIDE DEF g, p
  <2>6. e \in HistoryOf(m) /\ Slots(e) /\ e.store /\ e.prev_index = n
    BY <2>1, <2>2
  <2>7. g \in HistoryOf(m) /\ g.store /\ Slots(g) /\ g.packets = [e.packets EXCEPT ![n] = p]
    <3>1. \A i \in 0..m-1 : e.packets[i].stored => e.packets[i].sequence_number # p.sequence_number
      BY <2>4, <1>2
    <3>2. g \in HistoryOf(m) /\ g.store /\ Slots(g) /\ g.packets = q
      BY <2>3, <3>1, <2>a, <2>5, <2>6, <1>2, PutInSlot
    <3> QED BY <3>2, <2>a, <2>6
  <2>8. e.packets \in [0..m-1 -> StoredType]
    BY <2>3, <2>6, SizeOf
  <2>9. g.packets[n] = p /\ \A i \in (0..m-1) \ {n} : g.packets[i] = e.packets[i]
    BY <2>3, <2>7, <2>8
  <2>10. Puts(h, n, g, m, n, p)
    BY <2>1, <2>2, <2>7, <2>9, <1>1 DEF Puts
  <2> QED BY <2>3, <2>10 DEF g, p
<1>4. CASE ~MustExpand(h)
  <2> DEFINE k == h.prev_index
  <2>a. PICK q : q = [h.packets EXCEPT ![h.prev_index] = p]
    OBVIOUS
  <2>1. g = Written(h, q, NextIndex(h, h.prev_index))
    BY <1>4, <2>a DEF PutRTPPacket, NewPacket, Written
  <2> HIDE DEF g, p
  <2>2. g \in HistoryOf(n) /\ g.store /\ Slots(g) /\ g.packets = [h.packets EXCEPT ![k] = p]
    <3>1. \A i \in 0..n-1 : h.packets[i].stored => h.packets[i].sequence_number # p.sequence_number
      BY <1>2
    <3>2. g \in HistoryOf(n) /\ g.store /\ Slots(g) /\ g.packets = q
      BY <3>1, <2>a, <2>1, <1>1, <1>2, PutInSlot
    <3> QED BY <3>2, <2>a
  <2>3. g.packets[k] = p /\ \A i \in (0..n-1) \ {k} : g.packets[i] = h.packets[i]
    BY <2>2, <1>1
  <2>4. n = kMaxHistoryCapacity \/ ~h.packets[k].stored \/ h.packets[k].send_time # 0
    BY <1>1, <1>4, Constants DEF MustExpand
  <2>5. Puts(h, n, g, n, k, p)
    <3>1. \A i \in (0..n-1) \ {k} : g.packets[i] = IF i < n THEN h.packets[i] ELSE DefaultPacket
      BY <2>3, <1>1
    <3> QED BY <2>2, <2>3, <2>4, <3>1 DEF Puts
  <2>6. n \in n..kMaxHistoryCapacity /\ k \in 0..n-1
    BY <1>1, Constants
  <2> QED BY <2>5, <2>6 DEF g, p
<1> QED BY <1>3, <1>4

\* FindSeqNum finds slots with the number only, and the stored packet if there is one.
LEMMA FindEffect ==
  ASSUME NEW n \in Nat, NEW h \in HistoryOf(n), Slots(h), h.store, NEW seq \in Seqs
  PROVE  /\ \A i \in FindSeqNum(h, seq) : i \in 0..n-1 /\ h.packets[i].sequence_number = seq
         /\ \A i \in 0..n-1 : h.packets[i].stored /\ h.packets[i].sequence_number = seq =>
              i \in FindSeqNum(h, seq)
<1>1. /\ Size(h) = n /\ DOMAIN h.packets = 0..n-1 /\ h.packets \in [0..n-1 -> StoredType]
      /\ h.prev_index \in 0..n-1
  BY SizeOf DEF Slots
<1>2. PICK x \in 0..n-1 : x = h.prev_index
  BY <1>1
<1>3. PICK last \in 0..n-1 : last = IF x > 0 THEN x - 1 ELSE n - 1
  BY <1>1, <1>2
<1>4. PICK L \in Seqs : L = h.packets[last].sequence_number
  BY <1>1, <1>3 DEF StoredType, StoredPacketType, Seqs
<1>5. PICK guess \in 0..n-1 :
        /\ guess = (IF x - 1 - (L - seq) \in 0..n-1 THEN x - 1 - (L - seq) ELSE last)
        /\ FindSeqNum(h, seq) = FoundAt(h, seq, guess)
  BY <1>1, <1>2, <1>3, <1>4 DEF FindSeqNum
<1>6. \A i \in FindSeqNum(h, seq) : i \in 0..n-1 /\ h.packets[i].sequence_number = seq
  BY <1>1, <1>5 DEF FoundAt
<1>7. ASSUME NEW i \in 0..n-1, h.packets[i].stored, h.packets[i].sequence_number = seq
      PROVE  i \in FindSeqNum(h, seq)
  <2>1. \A j \in 0..n-1 : h.packets[j].sequence_number = seq /\ ~h.packets[j].stored =>
          seq = 0 /\ i < x /\ j >= x
    <3>1. \A a, j \in 0..n-1 :
            /\ ~h.packets[j].stored => h.packets[j].sequence_number = 0
            /\ ~h.packets[j].stored => (h.packets[a].stored <=> a < x)
      BY <1>1, <1>2 DEF Slots, Filled
    <3> SUFFICES ASSUME NEW j \in 0..n-1, h.packets[j].sequence_number = seq, ~h.packets[j].stored
                 PROVE  seq = 0 /\ i < x /\ j >= x
      OBVIOUS
    <3>2. seq = 0 /\ i < x
      BY <3>1, <1>7
    <3>3. ~(j < x)
      BY <3>1
    <3> QED BY <3>2, <3>3, <1>2
  <2>2. \A j \in 0..n-1 : h.packets[j].sequence_number = seq /\ h.packets[j].stored => j = i
    BY <1>1, <1>7 DEF Slots
  <2>3. CASE h.packets[guess].sequence_number = seq
    <3>1. guess = i
      <4> SUFFICES ASSUME guess # i PROVE FALSE
        OBVIOUS
      <4>1. seq = 0 /\ i < x /\ guess >= x
        BY <2>1, <2>2, <2>3
      <4>2. x - 1 - (L - seq) < x /\ x > 0 /\ last < x
        BY <4>1, <1>2, <1>3, <1>4, Constants DEF Seqs
      <4> QED BY <4>1, <4>2, <1>5
    <3> QED BY <3>1, <2>3, <1>5 DEF FoundAt
  <2>4. CASE h.packets[guess].sequence_number # seq
    <3>1. ASSUME NEW j \in 0..i-1, h.packets[j].sequence_number = seq PROVE FALSE
      <4>1. j \in 0..n-1 /\ j < i
        BY <1>7
      <4>2. ~h.packets[j].stored
        BY <4>1, <3>1, <2>2
      <4>3. i < x /\ j >= x
        BY <4>1, <4>2, <3>1, <2>1
      <4> QED BY <4>1, <4>3, <1>2
    <3> QED BY <3>1, <2>4, <1>1, <1>5, <1>7 DEF FoundAt
  <2> QED BY <2>3, <2>4
<1> QED BY <1>6, <1>7

\* What SetSendTime leaves alone.
LEMMA SetSendTimeEffect ==
  ASSUME NEW n \in Nat, NEW h \in HistoryOf(n), Slots(h), NEW i \in 0..n-1,
         NEW r \in BOOLEAN, NEW t \in 0..MaxTime
  PROVE  LET g == SetSendTime(h, i, r, t)
         IN  /\ g \in HistoryOf(n) /\ Slots(g) /\ g.store = h.store
             /\ \A j \in (0..n-1) \ {i} : g.packets[j] = h.packets[j]
             /\ g.packets[i].stored = h.packets[i].stored
             /\ g.packets[i].sequence_number = h.packets[i].sequence_number
             /\ g.packets[i].send_time = t
             /\ g.packets[i].has_been_retransmitted = (h.packets[i].has_been_retransmitted \/ r)
<1> DEFINE g == SetSendTime(h, i, r, t)
<1>1. DOMAIN h.packets = 0..n-1 /\ h.packets \in [0..n-1 -> StoredType]
  BY SizeOf
<1>2. PICK p \in StoredType : p = h.packets[i]
  BY <1>1
<1>3. PICK q \in StoredType :
        q = [p EXCEPT !.send_time = t, !.has_been_retransmitted = p.has_been_retransmitted \/ r]
  BY <1>2 DEF StoredType, StoredPacketType
<1>4. g = [h EXCEPT !.packets = [h.packets EXCEPT ![i] = q]]
  BY <1>1, <1>2, <1>3 DEF SetSendTime, HistoryOf, StoredType, StoredPacketType
<1>5. PICK pk \in [0..n-1 -> StoredType] : pk = [h.packets EXCEPT ![i] = q]
  BY <1>1, <1>3
<1>6. g = [store |-> h.store, prev_index |-> h.prev_index, packets |-> pk]
  BY <1>4, <1>5 DEF HistoryOf
<1> HIDE DEF g
<1>7. g \in HistoryOf(n) /\ g.store = h.store /\ g.prev_index = h.prev_index /\ g.packets = pk
  BY <1>6 DEF HistoryOf
<1>8. pk[i] = q /\ \A j \in (0..n-1) \ {i} : pk[j] = h.packets[j]
  BY <1>1, <1>5
<1>9. /\ q.stored = p.stored /\ q.sequence_number = p.sequence_number /\ q.send_time = t
      /\ q.has_been_retransmitted = (p.has_been_retransmitted \/ r)
  BY <1>2, <1>3 DEF StoredType, StoredPacketType
<1>10. \A j \in 0..n-1 : /\ pk[j].stored = h.packets[j].stored
                         /\ pk[j].sequence_number = h.packets[j].sequence_number
  BY <1>2, <1>8, <1>9
<1>11. Slots(g)
  BY ZenonT(40), <1>1, <1>7, <1>10 DEF Slots, Filled
<1> QED BY <1>2, <1>7, <1>8, <1>9, <1>11 DEF g

\* Allocate gives a freed history c empty slots.
LEMMA EmptyHistory ==
  ASSUME NEW c \in Capacities, NEW f,
         f = [store |-> FALSE, prev_index |-> 0, packets |-> NoPackets]
  PROVE  /\ Allocated(f, c) \in HistoryOf(c) /\ Slots(Allocated(f, c))
         /\ Allocated(f, c).store /\ c \in 1..kMaxHistoryCapacity
         /\ \A i \in 0..c-1 : ~Allocated(f, c).packets[i].stored
<1>1. c \in Nat /\ c >= 1 /\ c \in 1..kMaxHistoryCapacity
  BY Constants
<1>2. PICK q \in [0..c-1 -> StoredType] :
        q = Resized(NoPackets, c) /\ \A i \in 0..c-1 : q[i] = DefaultPacket
  <2>1. PICK q : q = Resized(NoPackets, c)
    OBVIOUS
  <2>2. q = [i \in 0..c-1 |-> DefaultPacket]
    BY <2>1 DEF Resized, NoPackets
  <2> QED BY <2>1, <2>2, DefaultType
<1>3. \A i \in 0..c-1 : ~q[i].stored /\ q[i].sequence_number = 0
  BY <1>2 DEF DefaultPacket
<1>a. f \in HistoryOf(0) /\ f.packets = NoPackets /\ f.prev_index = 0
  <2>1. 0..0-1 = {}
    OBVIOUS
  <2>2. NoPackets \in [0..0-1 -> StoredType]
    BY <2>1 DEF NoPackets
  <2> QED BY <2>2 DEF HistoryOf
<1>4. PICK g : g = Allocated(f, c) /\ g = Refilled(f, q)
  BY <1>2, <1>a DEF Allocated, Refilled
<1>5. g \in HistoryOf(c) /\ g.store /\ g.prev_index = 0 /\ g.packets = q
  BY <1>4, <1>a, HistoryAllocated
<1>6. Slots(g)
  BY <1>1, <1>3, <1>5 DEF Slots, Filled
<1> QED BY <1>1, <1>2, <1>3, <1>4, <1>5, <1>6

\* SetStorePacketsStatus leaves no packet.
LEMMA StatusEffect ==
  ASSUME NEW n \in 0..kMaxHistoryCapacity, NEW h \in HistoryOf(n), Slots(h),
         NEW enable \in BOOLEAN, NEW c \in Capacities
  PROVE  \E m \in 0..kMaxHistoryCapacity :
           LET g == SetStorePacketsStatus(h, enable, c)
           IN  g \in HistoryOf(m) /\ Slots(g) /\ \A i \in 0..m-1 : ~g.packets[i].stored
<1>1. n \in Nat /\ DOMAIN h.packets = 0..n-1 /\ h.packets \in [0..n-1 -> StoredType]
  BY SizeOf, Constants
<1>2. PICK f : f = [store |-> FALSE, prev_index |-> 0, packets |-> NoPackets]
  OBVIOUS
<1>3. Freed(h) = f
  <2>1. CASE h.store
    BY <1>2, <2>1 DEF Freed
  <2>2. CASE ~h.store
    <3>1. DOMAIN h.packets = {} /\ h.prev_index = 0 /\ h.store = FALSE
      BY <2>2 DEF Slots, HistoryOf
    <3>2. h.packets = NoPackets
      BY <3>1, <1>1 DEF NoPackets
    <3>3. h = [store |-> h.store, prev_index |-> h.prev_index, packets |-> h.packets]
      BY DEF HistoryOf
    <3> QED BY <2>2, <3>1, <3>2, <3>3, <1>2 DEF Freed
  <2> QED BY <2>1, <2>2
<1>4. CASE enable
  <2>1. SetStorePacketsStatus(h, enable, c) = Allocated(f, c)
    BY <1>3, <1>4 DEF SetStorePacketsStatus
  <2>2. c \in 0..kMaxHistoryCapacity
    BY Constants
  <2> QED BY <2>1, <2>2, <1>2, EmptyHistory
<1>5. CASE ~enable
  <2>1. SetStorePacketsStatus(h, enable, c) = f
    BY <1>3, <1>5 DEF SetStorePacketsStatus
  <2>2. 0 \in 0..kMaxHistoryCapacity /\ 0..0-1 = {}
    BY Constants
  <2>3. NoPackets \in [0..0-1 -> StoredType] /\ DOMAIN NoPackets = {}
    BY <2>2 DEF NoPackets
  <2>4. f \in HistoryOf(0)
    BY <1>2, <2>3 DEF HistoryOf
  <2>5. Slots(f)
    BY <1>2, <2>3 DEF Slots, Filled
  <2> QED BY <2>1, <2>2, <2>4, <2>5
<1> QED BY <1>4, <1>5

-----------------------------------------------------------------------------
(* The packet queue.                                                       *)

\* The fields of a packet of the pacer.
LEMMA PacketFields ==
  ASSUME NEW p \in Packets
  PROVE  /\ p.bytes \in Nat /\ p.enqueue_time_ms \in Nat /\ p.capture_time_ms \in Nat
         /\ p.sequence_number \in Seqs /\ p.enqueue_order \in Nat
         /\ p.ssrc \in {0, Ssrc} /\ p.retransmission \in BOOLEAN
         /\ p.priority \in {kHighPriority, kNormalPriority}
BY Constants DEF Packets

\* A packet in the queue is named by its number.
LEMMA SameKey ==
  ASSUME NEW p, NEW q, p.ssrc = q.ssrc
  PROVE  Key(p) = Key(q) <=> p.sequence_number = q.sequence_number
BY DEF Key

\* The sum of the bytes is a number, and grows by those of a packet that is added.
LEMMA BytesAdded ==
  ASSUME NEW L \in SUBSET Packets, IsFiniteSet(L)
  PROVE  /\ BytesOf(L) \in Nat
         /\ \A p \in Packets \ L : BytesOf(L \cup {p}) = BytesOf(L) + p.bytes
<1> DEFINE f == [p \in L |-> p.bytes]
<1>1. DOMAIN f = L /\ \A x \in L : f[x] = x.bytes /\ f[x] \in Nat
  BY PacketFields
<1>2. BytesOf(L) = SumFunctionOnSet(f, L)
  BY <1>1 DEF BytesOf, SumFunction
<1> HIDE DEF f
<1>3. BytesOf(L) \in Nat
  BY <1>1, <1>2, SumNat
<1>4. ASSUME NEW p \in Packets \ L
      PROVE  BytesOf(L \cup {p}) = BytesOf(L) + p.bytes
  <2> DEFINE g == [q \in L \cup {p} |-> q.bytes]
  <2>1. DOMAIN g = L \cup {p} /\ \A x \in L \cup {p} : g[x] = x.bytes /\ g[x] \in Int
    BY PacketFields
  <2>2. BytesOf(L \cup {p}) = SumFunctionOnSet(g, L \cup {p})
    BY <2>1 DEF BytesOf, SumFunction
  <2> HIDE DEF g
  <2>3. SumFunctionOnSet(g, L \cup {p}) = g[p] + SumFunctionOnSet(g, L)
    BY <2>1, SumAdded
  <2>4. SumFunctionOnSet(g, L) = SumFunctionOnSet(f, L) + 0 * Cardinality(L)
    <3>1. \A x \in L : f[x] \in Int /\ g[x] = f[x] + 0
      BY <1>1, <2>1
    <3> QED BY <3>1, SumShifted
  <2>5. Cardinality(L) \in Nat /\ p.bytes \in Nat /\ g[p] = p.bytes
    BY FS_CardinalityType, PacketFields, <2>1
  <2> QED BY <1>2, <1>3, <2>2, <2>3, <2>4, <2>5
<1> QED BY <1>3, <1>4

\* So does the sum of the times; it grows by as much for every packet as time goes by.
LEMMA TimesAdded ==
  ASSUME NEW L \in SUBSET Packets, IsFiniteSet(L), NEW t \in Int
  PROVE  /\ TimesOf(L, t) \in Int
         /\ (\A p \in L : p.enqueue_time_ms <= t) => TimesOf(L, t) \in Nat
         /\ \A p \in Packets \ L : TimesOf(L \cup {p}, t) = TimesOf(L, t) + (t - p.enqueue_time_ms)
         /\ \A u \in Int : TimesOf(L, u) = TimesOf(L, t) + (u - t) * Cardinality(L)
<1> DEFINE f == [p \in L |-> t - p.enqueue_time_ms]
<1>1. DOMAIN f = L /\ \A x \in L : /\ f[x] = t - x.enqueue_time_ms /\ f[x] \in Int
                                    /\ x.enqueue_time_ms \in Int
  BY PacketFields
<1>2. TimesOf(L, t) = SumFunctionOnSet(f, L)
  BY <1>1 DEF TimesOf, SumFunction
<1> HIDE DEF f
<1>3. TimesOf(L, t) \in Int
  BY <1>1, <1>2, SumInt
<1>4. ASSUME \A p \in L : p.enqueue_time_ms <= t
      PROVE  TimesOf(L, t) \in Nat
  <2>1. \A x \in L : f[x] \in Nat
    BY <1>1, <1>4
  <2> QED BY <2>1, <1>2, SumNat
<1>5. ASSUME NEW p \in Packets \ L
      PROVE  TimesOf(L \cup {p}, t) = TimesOf(L, t) + (t - p.enqueue_time_ms)
  <2> DEFINE g == [q \in L \cup {p} |-> t - q.enqueue_time_ms]
  <2>1. DOMAIN g = L \cup {p} /\ \A x \in L \cup {p} : g[x] = t - x.enqueue_time_ms /\ g[x] \in Int
    BY PacketFields
  <2>2. TimesOf(L \cup {p}, t) = SumFunctionOnSet(g, L \cup {p})
    BY <2>1 DEF TimesOf, SumFunction
  <2> HIDE DEF g
  <2>3. SumFunctionOnSet(g, L \cup {p}) = g[p] + SumFunctionOnSet(g, L)
    BY <2>1, SumAdded
  <2>4. SumFunctionOnSet(g, L) = SumFunctionOnSet(f, L) + 0 * Cardinality(L)
    <3>1. \A x \in L : f[x] \in Int /\ g[x] = f[x] + 0
      BY <1>1, <2>1
    <3> QED BY <3>1, SumShifted
  <2>5. Cardinality(L) \in Nat /\ g[p] = t - p.enqueue_time_ms /\ g[p] \in Int
    BY FS_CardinalityType, <2>1
  <2> QED BY <1>2, <1>3, <2>2, <2>3, <2>4, <2>5
<1>6. ASSUME NEW u \in Int
      PROVE  TimesOf(L, u) = TimesOf(L, t) + (u - t) * Cardinality(L)
  <2> DEFINE g == [q \in L |-> u - q.enqueue_time_ms]
  <2>1. DOMAIN g = L /\ \A x \in L : g[x] = u - x.enqueue_time_ms
    BY PacketFields
  <2>2. TimesOf(L, u) = SumFunctionOnSet(g, L)
    BY <2>1 DEF TimesOf, SumFunction
  <2> HIDE DEF g
  <2>3. \A x \in L : f[x] \in Int /\ g[x] = f[x] + (u - t)
    BY <1>1, <2>1
  <2>4. u - t \in Int
    OBVIOUS
  <2>5. SumFunctionOnSet(g, L) = SumFunctionOnSet(f, L) + (u - t) * Cardinality(L)
    BY <2>3, <2>4, SumShifted
  <2> QED BY <1>2, <2>2, <2>5
<1> QED BY <1>3, <1>4, <1>5, <1>6

\* Keys name the packets of a queue, so there are as many of the one as of the other.
LEMMA KeysCount ==
  ASSUME NEW L, IsFiniteSet(L), \A p, q \in L : Key(p) = Key(q) => p = q
  PROVE  Cardinality({Key(p) : p \in L}) = Cardinality(L)
<1> DEFINE D == {Key(p) : p \in L}
           f == [p \in L |-> Key(p)]
<1>1. f \in Bijection(L, D)
  BY DEF Bijection, Injection, Surjection, IsInjective
<1>2. ExistsBijection(L, D)
  BY <1>1 DEF ExistsBijection
<1>3. Cardinality(L) = Cardinality(D)
  BY <1>2, FS_Bijection
<1> QED BY <1>3

-----------------------------------------------------------------------------
(* What the pacer's operations do to its queue.                            *)

\* The queues of s and t are the same.
SameQueue(s, t) ==
  /\ t.list = s.list /\ t.heap = s.heap /\ t.dupe = s.dupe /\ t.bytes = s.bytes
  /\ t.queue_time_sum = s.queue_time_sum /\ t.time_last_updated = s.time_last_updated
  /\ t.packet_counter = s.packet_counter

\* A step of the pacer that leaves its queue alone keeps the queue consistent.
LEMMA SameQueueKept ==
  ASSUME NEW s, NEW t, NEW out, SameQueue(s, t), QueueOK(s, out)
  PROVE  QueueOK(t, out)
BY DEF SameQueue, QueueOK

\* The fields of a pacer.
LEMMA PacerFields ==
  ASSUME NEW s \in PacerType
  PROVE  /\ s.list \in SUBSET Packets /\ s.heap \in SUBSET Packets
         /\ s.dupe \in SUBSET ({Ssrc} \X Seqs) /\ s.bytes \in Int
         /\ s.queue_time_sum \in Int /\ s.time_last_updated \in Int
         /\ s.packet_counter \in Nat /\ s.max_bitrate \in Int /\ s.time_last_update \in Int
         /\ s.media_budget \in BudgetType /\ s.padding_budget \in BudgetType
         /\ s.prober \in [state : {"kDisabled", "kProbing", "kWait"}, probes : 0..NumProbes,
                          packet_size_last_send : Nat]
BY DEF PacerType

\* The budgets stay budgets.
LEMMA Budgets ==
  ASSUME NEW b \in BudgetType, NEW x \in Int
  PROVE  /\ set_target_rate(b, x) \in BudgetType /\ IncreaseBudget(b, x) \in BudgetType
         /\ UseBudget(b, x) \in BudgetType /\ bytes_remaining(b) \in Nat
<1>1. kWindowMs \in Nat /\ b.rate \in Int /\ b.bytes_remaining \in Int
  BY Constants DEF BudgetType
<1>2. /\ -kWindowMs * x \in Int /\ -kWindowMs * b.rate \in Int /\ b.rate * x \in Int
  BY <1>1
<1>3. set_target_rate(b, x) \in BudgetType
  BY <1>1, <1>2 DEF set_target_rate, Upper, BudgetType
<1>4. IncreaseBudget(b, x) \in BudgetType
  BY <1>1, <1>2 DEF IncreaseBudget, BudgetType
<1>5. UseBudget(b, x) \in BudgetType
  BY <1>1, <1>2 DEF UseBudget, Upper, BudgetType
<1>6. bytes_remaining(b) \in Nat
  BY <1>1 DEF bytes_remaining, Upper
<1> QED BY <1>3, <1>4, <1>5, <1>6

\* The updates of the other fields.
WithBudgets(s, m, d) == [s EXCEPT !.media_budget = m, !.padding_budget = d]

WithProber(s, prober) == [s EXCEPT !.prober = prober]

\* New budgets and a new state of the prober leave the queue alone.
LEMMA OtherFields ==
  ASSUME NEW s \in PacerType
  PROVE  /\ \A m, d \in BudgetType :
              WithBudgets(s, m, d) \in PacerType /\ SameQueue(s, WithBudgets(s, m, d))
         /\ \A prober \in [state : {"kDisabled", "kProbing", "kWait"}, probes : 0..NumProbes,
                           packet_size_last_send : Nat] :
              /\ WithProber(s, prober) \in PacerType /\ SameQueue(s, WithProber(s, prober))
              /\ WithProber(s, prober).media_budget = s.media_budget
              /\ WithProber(s, prober).padding_budget = s.padding_budget
<1>1. ASSUME NEW m \in BudgetType, NEW d \in BudgetType
      PROVE  WithBudgets(s, m, d) \in PacerType /\ SameQueue(s, WithBudgets(s, m, d))
  BY DEF PacerType, WithBudgets, SameQueue
<1>2. ASSUME NEW prober \in [state : {"kDisabled", "kProbing", "kWait"}, probes : 0..NumProbes,
                             packet_size_last_send : Nat]
      PROVE  /\ WithProber(s, prober) \in PacerType /\ SameQueue(s, WithProber(s, prober))
             /\ WithProber(s, prober).media_budget = s.media_budget
             /\ WithProber(s, prober).padding_budget = s.padding_budget
  BY DEF PacerType, WithProber, SameQueue
<1> QED BY <1>1, <1>2

\* The start of probing leaves the queue alone.
LEMMA StartProbingSame ==
  ASSUME NEW s \in PacerType
  PROVE  StartProbing(s) \in PacerType /\ SameQueue(s, StartProbing(s))
<1>a. PICK x \in 0..NumProbes : x = NumProbes
  BY Constants
<1>1. PICK r \in [state : {"kDisabled", "kProbing", "kWait"}, probes : 0..NumProbes,
                  packet_size_last_send : Nat] :
        r = [s.prober EXCEPT !.state = "kProbing", !.probes = x]
  BY PacerFields
<1>2. CASE s.probing_enabled /\ s.prober.state = "kDisabled"
  <2>1. StartProbing(s) = WithProber(s, r)
    BY <1>a, <1>1, <1>2 DEF StartProbing, WithProber, PacerType
  <2> QED BY <2>1, OtherFields
<1>3. CASE ~(s.probing_enabled /\ s.prober.state = "kDisabled")
  BY <1>3 DEF StartProbing, SameQueue
<1> QED BY <1>2, <1>3

\* TimeUntilNextProbe, which may give up probing, leaves the queue alone.
LEMMA TimeUntilNextProbeSame ==
  ASSUME NEW s \in PacerType, NEW giveUp \in BOOLEAN
  PROVE  TimeUntilNextProbe(s, giveUp) \in PacerType /\ SameQueue(s, TimeUntilNextProbe(s, giveUp))
<1>1. PICK x \in {"kDisabled", "kProbing", "kWait"} :
        x = IF \/ s.prober.probes = 0
               \/ giveUp /\ s.prober.packet_size_last_send > kMinProbePacketSize
            THEN "kWait" ELSE s.prober.state
  BY PacerFields
<1>2. PICK r \in [state : {"kDisabled", "kProbing", "kWait"}, probes : 0..NumProbes,
                  packet_size_last_send : Nat] : r = [s.prober EXCEPT !.state = x]
  BY PacerFields
<1>3. TimeUntilNextProbe(s, giveUp) = WithProber(s, r)
  BY <1>1, <1>2 DEF TimeUntilNextProbe, WithProber, PacerType
<1> QED BY <1>3, OtherFields

\* Using the budgets leaves the queue alone.
LEMMA BytesSentSame ==
  ASSUME NEW s \in PacerType, NEW bytes \in Nat
  PROVE  BytesSent(s, bytes) \in PacerType /\ SameQueue(s, BytesSent(s, bytes))
<1>1. PICK x \in 0..NumProbes :
        x = IF IsProbing(s) /\ s.prober.probes > 0 THEN s.prober.probes - 1 ELSE s.prober.probes
  BY PacerFields, Constants
<1>2. PICK r \in [state : {"kDisabled", "kProbing", "kWait"}, probes : 0..NumProbes,
                  packet_size_last_send : Nat] :
        r = [s.prober EXCEPT !.packet_size_last_send = bytes, !.probes = x]
  BY PacerFields
<1>3. ProbeSent(s, bytes) = WithProber(s, r)
  BY <1>1, <1>2 DEF ProbeSent, WithProber, PacerType
<1>4. PICK t \in PacerType : t = ProbeSent(s, bytes) /\ SameQueue(s, t)
  BY <1>3, OtherFields
<1>a. bytes \in Int /\ t.media_budget \in BudgetType /\ t.padding_budget \in BudgetType
  BY PacerFields
<1>5. PICK m \in BudgetType : m = UseBudget(t.media_budget, bytes)
  BY <1>a, Budgets
<1>6. PICK d \in BudgetType : d = UseBudget(t.padding_budget, bytes)
  BY <1>a, Budgets
<1>7. BytesSent(s, bytes) = WithBudgets(t, m, d)
  BY <1>4, <1>5, <1>6 DEF BytesSent, WithBudgets
<1>8. WithBudgets(t, m, d) \in PacerType /\ SameQueue(t, WithBudgets(t, m, d))
  BY OtherFields
<1> QED BY <1>4, <1>7, <1>8 DEF SameQueue

\* Refilling the budgets leaves the queue alone.
LEMMA UpdateBytesSame ==
  ASSUME NEW s \in PacerType, NEW x \in Int
  PROVE  UpdateBytesPerInterval(s, x) \in PacerType /\ SameQueue(s, UpdateBytesPerInterval(s, x))
<1>1. PICK m \in BudgetType : m = IncreaseBudget(s.media_budget, x)
  BY Budgets, PacerFields
<1>2. PICK d \in BudgetType : d = IncreaseBudget(s.padding_budget, x)
  BY Budgets, PacerFields
<1>3. UpdateBytesPerInterval(s, x) = WithBudgets(s, m, d)
  BY <1>1, <1>2 DEF UpdateBytesPerInterval, WithBudgets
<1> QED BY <1>3, OtherFields

\* UpdateQueueTime adds the time that has gone by for every packet in the queue.
LEMMA UpdateQueueTimeEffect ==
  ASSUME NEW s \in PacerType, NEW out, QueueOK(s, out), NEW t \in Int, s.time_last_updated <= t
  PROVE  LET u == UpdateQueueTime(s, t)
         IN  /\ u \in PacerType /\ QueueOK(u, out)
             /\ u.list = s.list /\ u.heap = s.heap /\ u.dupe = s.dupe /\ u.bytes = s.bytes
             /\ u.packet_counter = s.packet_counter /\ u.time_last_updated = t
             /\ u.media_budget = s.media_budget /\ u.max_bitrate = s.max_bitrate
<1> DEFINE u == UpdateQueueTime(s, t)
<1>1. /\ s.list \in SUBSET Packets /\ IsFiniteSet(s.list) /\ s.time_last_updated \in Int
      /\ s.queue_time_sum = TimesOf(s.list, s.time_last_updated)
  BY PacerFields DEF QueueOK
<1>2. PICK sum \in Int : /\ sum = s.queue_time_sum + (t - s.time_last_updated) * Cardinality(s.list)
                         /\ sum = TimesOf(s.list, t)
  BY <1>1, TimesAdded
<1>3. u = [s EXCEPT !.queue_time_sum = sum, !.time_last_updated = t]
  BY <1>2 DEF UpdateQueueTime
<1> HIDE DEF u
<1>4. u \in PacerType
  BY <1>3 DEF PacerType
<1>5. /\ u.list = s.list /\ u.heap = s.heap /\ u.dupe = s.dupe /\ u.bytes = s.bytes
      /\ u.packet_counter = s.packet_counter /\ u.time_last_updated = t
      /\ u.queue_time_sum = sum
      /\ u.media_budget = s.media_budget /\ u.max_bitrate = s.max_bitrate
  BY <1>3 DEF PacerType
<1>6. \A p \in s.list : p.enqueue_time_ms <= t
  <2>1. \A p \in s.list : p.enqueue_time_ms \in Int /\ p.enqueue_time_ms <= s.time_last_updated
    BY <1>1, PacketFields DEF QueueOK
  <2> QED BY <2>1, <1>1
<1>7. QueueOK(u, out)
  BY <1>2, <1>5, <1>6 DEF QueueOK
<1> QED BY <1>4, <1>5, <1>7 DEF u

\* A packet joins the queue.
Joined(u, p) ==
  [u EXCEPT !.list = @ \cup {p}, !.heap = @ \cup {p},
            !.dupe = @ \cup {Key(p)}, !.bytes = @ + p.bytes]

\* Pushing a packet with a new key adds its bytes, and no time in the queue.
LEMMA JoinedEffect ==
  ASSUME NEW u \in PacerType, NEW out, QueueOK(u, out), NEW p \in Packets, p.ssrc = Ssrc,
         Key(p) \notin u.dupe, p.enqueue_time_ms = u.time_last_updated
  PROVE  LET v == Joined(u, p)
         IN  /\ v \in PacerType /\ v.packet_counter = u.packet_counter
             /\ v.list = u.list \cup {p} /\ v.heap = u.heap \cup {p} /\ p \notin u.list
             /\ v.time_last_updated = u.time_last_updated
             /\ IsFiniteSet(v.list)
             /\ v.heap = v.list \ out /\ out \subseteq v.list
             /\ v.dupe = {Key(q) : q \in v.list}
             /\ \A q, r \in v.list : Key(q) = Key(r) => q = r
             /\ v.bytes = BytesOf(v.list)
             /\ v.queue_time_sum = TimesOf(v.list, v.time_last_updated)
<1> DEFINE v == Joined(u, p)
<1>1. /\ u.list \in SUBSET Packets /\ u.heap \in SUBSET Packets /\ u.bytes \in Int
      /\ u.dupe \in SUBSET ({Ssrc} \X Seqs) /\ u.time_last_updated \in Int
      /\ IsFiniteSet(u.list) /\ p.bytes \in Nat /\ p.sequence_number \in Seqs
  BY PacerFields, PacketFields DEF QueueOK
<1>2. /\ u.heap = u.list \ out /\ out \subseteq u.list /\ u.dupe = {Key(q) : q \in u.list}
      /\ \A q, r \in u.list : Key(q) = Key(r) => q = r
      /\ u.bytes = BytesOf(u.list) /\ u.queue_time_sum = TimesOf(u.list, u.time_last_updated)
  BY DEF QueueOK
<1>3. p \notin u.list /\ p \notin out /\ \A q \in u.list : Key(q) # Key(p)
  BY <1>2
<1>4. PICK l \in SUBSET Packets, w \in SUBSET Packets :
        l = u.list \cup {p} /\ w = u.heap \cup {p}
  BY <1>1
<1>5. PICK d \in SUBSET ({Ssrc} \X Seqs) : d = u.dupe \cup {Key(p)}
  <2>1. Key(p) = <<Ssrc, p.sequence_number>>
    BY DEF Key
  <2>2. Key(p) \in {Ssrc} \X Seqs
    BY <2>1, <1>1
  <2> QED BY <2>2, <1>1
<1>6. PICK b \in Int : b = u.bytes + p.bytes
  BY <1>1
<1>7. v = [u EXCEPT !.list = l, !.heap = w, !.dupe = d, !.bytes = b]
  BY <1>4, <1>5, <1>6 DEF Joined
<1> HIDE DEF v
<1>8. v \in PacerType
  BY <1>7 DEF PacerType
<1>9. /\ v.list = l /\ v.heap = w /\ v.dupe = d /\ v.bytes = b
      /\ v.queue_time_sum = u.queue_time_sum /\ v.time_last_updated = u.time_last_updated
      /\ v.packet_counter = u.packet_counter
  BY <1>7 DEF PacerType
<1>10. IsFiniteSet(l)
  BY <1>1, <1>4, FS_AddElement
<1>11. w = l \ out /\ out \subseteq l
  BY <1>2, <1>3, <1>4
<1>12. d = {Key(q) : q \in l}
  BY <1>2, <1>4, <1>5
<1>13. \A q, r \in l : Key(q) = Key(r) => q = r
  BY <1>2, <1>3, <1>4
<1>14. b = BytesOf(l)
  BY <1>1, <1>2, <1>3, <1>4, <1>6, BytesAdded
<1>15. u.queue_time_sum = TimesOf(l, u.time_last_updated)
  <2>1. TimesOf(l, u.time_last_updated) =
          TimesOf(u.list, u.time_last_updated) + (u.time_last_updated - p.enqueue_time_ms)
    <3>1. p \in Packets \ u.list
      BY <1>3
    <3>2. \A q \in Packets \ u.list : TimesOf(u.list \cup {q}, u.time_last_updated) =
            TimesOf(u.list, u.time_last_updated) + (u.time_last_updated - q.enqueue_time_ms)
      BY <1>1, TimesAdded
    <3> QED BY <3>1, <3>2, <1>4
  <2>2. TimesOf(u.list, u.time_last_updated) \in Int
    BY <1>1, TimesAdded
  <2> QED BY <2>1, <2>2, <1>1, <1>2
<1> QED BY <1>3, <1>4, <1>8, <1>9, <1>10, <1>11, <1>12, <1>13, <1>14, <1>15 DEF v

\* InsertPacket queues a packet unless one with its number is there.
LEMMA InsertEffect ==
  ASSUME NEW s \in PacerType, NEW out, QueueOK(s, out), NEW p \in Packets, p.ssrc = Ssrc,
         p.enqueue_order = s.packet_counter, s.time_last_updated <= p.enqueue_time_ms
  PROVE  LET v == InsertPacket(s, p)
         IN  /\ v \in PacerType /\ QueueOK(v, out)
             /\ v.packet_counter = s.packet_counter + 1
             /\ v.time_last_updated \in {s.time_last_updated, p.enqueue_time_ms}
             /\ \/ v.list = s.list /\ v.heap = s.heap
                \/ /\ v.list = s.list \cup {p} /\ v.heap = s.heap \cup {p}
<1> DEFINE v == InsertPacket(s, p)
<1>1. PICK a \in PacerType : a = StartProbing(s) /\ SameQueue(s, a) /\ QueueOK(a, out)
  BY StartProbingSame, SameQueueKept
<1>2. PICK c \in Nat : c = s.packet_counter + 1
  BY PacerFields
<1>3. p.enqueue_time_ms \in Int /\ p.enqueue_order \in Int /\ s.packet_counter \in Int
  BY PacketFields, PacerFields
<1>4. CASE Key(p) \in a.dupe
  <2>1. v = [a EXCEPT !.packet_counter = c]
    <3>1. v = [a EXCEPT !.packet_counter = a.packet_counter + 1]
      BY <1>1, <1>4 DEF InsertPacket, Push
    <3> QED BY <3>1, <1>1, <1>2 DEF SameQueue
  <2> HIDE DEF v
  <2>2. v \in PacerType
    BY <2>1 DEF PacerType
  <2>3. /\ v.list = a.list /\ v.heap = a.heap /\ v.dupe = a.dupe /\ v.bytes = a.bytes
        /\ v.queue_time_sum = a.queue_time_sum /\ v.time_last_updated = a.time_last_updated
        /\ v.packet_counter = c
    BY <2>1 DEF PacerType
  <2>4. \A q \in a.list : q.enqueue_order < c
    <3>1. \A q \in a.list : q.enqueue_order \in Int /\ q.enqueue_order < s.packet_counter
      BY <1>1, PacerFields, PacketFields DEF QueueOK, SameQueue
    <3> QED BY <3>1, <1>2, <1>3
  <2>5. QueueOK(v, out)
    BY <1>1, <2>3, <2>4 DEF QueueOK
  <2> QED BY <1>1, <1>2, <2>2, <2>3, <2>5 DEF SameQueue, v
<1>5. CASE Key(p) \notin a.dupe
  <2>1. PICK u \in PacerType :
          /\ u = UpdateQueueTime(a, p.enqueue_time_ms) /\ QueueOK(u, out)
          /\ u.list = a.list /\ u.heap = a.heap /\ u.dupe = a.dupe
          /\ u.packet_counter = a.packet_counter /\ u.time_last_updated = p.enqueue_time_ms
    <3>1. a.time_last_updated <= p.enqueue_time_ms
      BY <1>1 DEF SameQueue
    <3> QED BY <3>1, <1>1, <1>3, UpdateQueueTimeEffect
  <2>2. PICK w : w = Joined(u, p)
    OBVIOUS
  <2>3. /\ w \in PacerType /\ w.packet_counter = u.packet_counter
        /\ w.list = u.list \cup {p} /\ w.heap = u.heap \cup {p}
        /\ w.time_last_updated = u.time_last_updated
        /\ IsFiniteSet(w.list)
        /\ w.heap = w.list \ out /\ out \subseteq w.list
        /\ w.dupe = {Key(q) : q \in w.list}
        /\ \A q, r \in w.list : Key(q) = Key(r) => q = r
        /\ w.bytes = BytesOf(w.list)
        /\ w.queue_time_sum = TimesOf(w.list, w.time_last_updated)
    BY <1>5, <2>1, <2>2, JoinedEffect
  <2>4. v = [w EXCEPT !.packet_counter = c]
    <3>1. w = Push(StartProbing(s), p)
      BY <1>1, <1>5, <2>1, <2>2 DEF Push, Joined
    <3>2. w.packet_counter + 1 = c
      BY <1>1, <1>2, <2>1, <2>3 DEF SameQueue
    <3> QED BY <3>1, <3>2 DEF InsertPacket
  <2> HIDE DEF v
  <2>5. v \in PacerType
    BY <2>3, <2>4 DEF PacerType
  <2>6. /\ v.list = w.list /\ v.heap = w.heap /\ v.dupe = w.dupe /\ v.bytes = w.bytes
        /\ v.queue_time_sum = w.queue_time_sum /\ v.time_last_updated = w.time_last_updated
        /\ v.packet_counter = c
    BY <2>3, <2>4 DEF PacerType
  <2>7. \A q \in w.list : /\ q.ssrc = Ssrc /\ q.enqueue_time_ms <= w.time_last_updated
                          /\ q.enqueue_order < c
    <3> SUFFICES ASSUME NEW q \in w.list
                 PROVE  /\ q.ssrc = Ssrc /\ q.enqueue_time_ms <= w.time_last_updated
                        /\ q.enqueue_order < c
      OBVIOUS
    <3>1. CASE q = p
      BY <3>1, <1>2, <1>3, <2>1, <2>3
    <3>2. CASE q \in a.list
      <4>1. q.ssrc = Ssrc /\ q.enqueue_time_ms <= u.time_last_updated
        BY <3>2, <2>1 DEF QueueOK
      <4>2. q.enqueue_order \in Int /\ q.enqueue_order < s.packet_counter
        BY <3>2, <1>1, PacerFields, PacketFields DEF QueueOK, SameQueue
      <4> QED BY <4>1, <4>2, <1>2, <1>3, <2>3
    <3> QED BY <3>1, <3>2, <2>1, <2>3
  <2>8. QueueOK(v, out)
    BY <2>3, <2>6, <2>7 DEF QueueOK
  <2>9. /\ v.list = s.list \cup {p} /\ v.heap = s.heap \cup {p}
        /\ v.time_last_updated = p.enqueue_time_ms /\ v.packet_counter = s.packet_counter + 1
    BY <1>1, <1>2, <2>1, <2>3, <2>6 DEF SameQueue
  <2> QED BY <2>5, <2>8, <2>9 DEF v
<1> QED BY <1>4, <1>5

\* BeginPop, CancelPop: only the heap changes.
LEMMA PopEffect ==
  ASSUME NEW s \in PacerType, NEW p
  PROVE  /\ QueueOK(s, {}) /\ p \in s.heap =>
              /\ BeginPop(s, p) \in PacerType /\ QueueOK(BeginPop(s, p), {p})
              /\ BeginPop(s, p).list = s.list /\ BeginPop(s, p).heap = s.heap \ {p}
              /\ BeginPop(s, p).packet_counter = s.packet_counter
              /\ BeginPop(s, p).time_last_updated = s.time_last_updated
         /\ QueueOK(s, {p}) =>
              /\ CancelPop(s, p) \in PacerType /\ QueueOK(CancelPop(s, p), {})
              /\ CancelPop(s, p).list = s.list /\ CancelPop(s, p).heap = s.heap \cup {p}
              /\ CancelPop(s, p).packet_counter = s.packet_counter
              /\ CancelPop(s, p).time_last_updated = s.time_last_updated
<1> DEFINE WithHeap(w) == [s EXCEPT !.heap = w]
<1>1. ASSUME NEW w \in SUBSET Packets
      PROVE  /\ WithHeap(w) \in PacerType /\ WithHeap(w).heap = w /\ WithHeap(w).list = s.list
             /\ WithHeap(w).dupe = s.dupe /\ WithHeap(w).bytes = s.bytes
             /\ WithHeap(w).queue_time_sum = s.queue_time_sum
             /\ WithHeap(w).time_last_updated = s.time_last_updated
             /\ WithHeap(w).packet_counter = s.packet_counter
  BY DEF PacerType
<1>2. /\ BeginPop(s, p) = WithHeap(s.heap \ {p}) /\ CancelPop(s, p) = WithHeap(s.heap \cup {p})
      /\ s.heap \in SUBSET Packets /\ s.list \in SUBSET Packets
  BY PacerFields DEF BeginPop, CancelPop
<1> HIDE DEF WithHeap
<1>3. ASSUME QueueOK(s, {}), p \in s.heap
      PROVE  /\ WithHeap(s.heap \ {p}) \in PacerType /\ QueueOK(WithHeap(s.heap \ {p}), {p})
             /\ WithHeap(s.heap \ {p}).list = s.list /\ WithHeap(s.heap \ {p}).heap = s.heap \ {p}
             /\ WithHeap(s.heap \ {p}).packet_counter = s.packet_counter
             /\ WithHeap(s.heap \ {p}).time_last_updated = s.time_last_updated
  <2>1. PICK w \in SUBSET Packets : w = s.heap \ {p} /\ w = s.list \ {p} /\ {p} \subseteq s.list
    BY <1>2, <1>3 DEF QueueOK
  <2>2. QueueOK(WithHeap(w), {p})
    BY <1>1, <1>3, <2>1 DEF QueueOK
  <2> QED BY <1>1, <2>1, <2>2
<1>4. ASSUME QueueOK(s, {p})
      PROVE  /\ WithHeap(s.heap \cup {p}) \in PacerType /\ QueueOK(WithHeap(s.heap \cup {p}), {})
             /\ WithHeap(s.heap \cup {p}).list = s.list
             /\ WithHeap(s.heap \cup {p}).heap = s.heap \cup {p}
             /\ WithHeap(s.heap \cup {p}).packet_counter = s.packet_counter
             /\ WithHeap(s.heap \cup {p}).time_last_updated = s.time_last_updated
  <2>1. p \in s.list /\ s.heap = s.list \ {p}
    BY <1>4 DEF QueueOK
  <2>2. PICK w \in SUBSET Packets : w = s.heap \cup {p} /\ w = s.list \ {}
    BY <1>2, <2>1
  <2>3. QueueOK(WithHeap(w), {})
    BY <1>1, <1>4, <2>2 DEF QueueOK
  <2> QED BY <1>1, <2>2, <2>3
<1> QED BY <1>2, <1>3, <1>4

\* FinalizePop takes the packet out of the list, the duplicates and the sums.
LEMMA FinalizeEffect ==
  ASSUME NEW s \in PacerType, NEW p, QueueOK(s, {p})
  PROVE  LET v == FinalizePop(s, p)
         IN  /\ v \in PacerType /\ QueueOK(v, {})
             /\ v.list = s.list \ {p} /\ v.heap = s.heap
             /\ v.packet_counter = s.packet_counter
             /\ v.time_last_updated = s.time_last_updated
<1> DEFINE v == FinalizePop(s, p)
<1>1. /\ s.list \in SUBSET Packets /\ s.dupe \in SUBSET ({Ssrc} \X Seqs) /\ s.bytes \in Int
      /\ s.queue_time_sum \in Int /\ s.time_last_updated \in Int /\ s.packet_counter \in Int
  BY PacerFields
<1>2. /\ IsFiniteSet(s.list) /\ p \in s.list /\ s.heap = s.list \ {p}
      /\ s.dupe = {Key(q) : q \in s.list} /\ \A q, r \in s.list : Key(q) = Key(r) => q = r
      /\ s.bytes = BytesOf(s.list) /\ s.queue_time_sum = TimesOf(s.list, s.time_last_updated)
  BY DEF QueueOK
<1>3. PICK l \in SUBSET Packets :
        l = s.list \ {p} /\ IsFiniteSet(l) /\ s.list = l \cup {p} /\ p \in Packets \ l
  BY <1>1, <1>2, FS_RemoveElement
<1>4. p.bytes \in Nat /\ p.enqueue_time_ms \in Nat
  BY <1>3, PacketFields
<1>5. PICK b \in Int : b = s.bytes - p.bytes /\ b = BytesOf(l)
  <2>1. BytesOf(l) \in Nat /\ BytesOf(l \cup {p}) = BytesOf(l) + p.bytes
    BY <1>3, BytesAdded
  <2>2. s.bytes = BytesOf(l) + p.bytes
    BY <2>1, <1>2, <1>3
  <2>3. s.bytes - p.bytes = BytesOf(l)
    BY <2>1, <2>2, <1>4
  <2> QED BY <2>1, <2>3
<1>6. PICK sum \in Int : /\ sum = s.queue_time_sum - (s.time_last_updated - p.enqueue_time_ms)
                         /\ sum = TimesOf(l, s.time_last_updated)
  <2>1. PICK t \in Int : t = s.time_last_updated
    BY <1>1
  <2>2. TimesOf(l, t) \in Int /\ TimesOf(l \cup {p}, t) = TimesOf(l, t) + (t - p.enqueue_time_ms)
    <3>1. /\ TimesOf(l, t) \in Int
          /\ \A q \in Packets \ l : TimesOf(l \cup {q}, t) = TimesOf(l, t) + (t - q.enqueue_time_ms)
      BY <1>3, TimesAdded
    <3> QED BY <3>1, <1>3
  <2>3. s.queue_time_sum = TimesOf(l, t) + (t - p.enqueue_time_ms)
    BY <2>1, <2>2, <1>2, <1>3
  <2>4. s.queue_time_sum - (t - p.enqueue_time_ms) = TimesOf(l, t)
    BY <2>2, <2>3, <1>4
  <2> QED BY <2>1, <2>2, <2>4
<1>7. PICK d \in SUBSET ({Ssrc} \X Seqs) : d = s.dupe \ {Key(p)} /\ d = {Key(q) : q \in l}
  <2>1. s.dupe \ {Key(p)} = {Key(q) : q \in l}
    BY <1>2, <1>3
  <2> QED BY <2>1, <1>1
<1>8. v = [s EXCEPT !.dupe = d, !.bytes = b, !.list = l, !.queue_time_sum = sum]
  BY <1>3, <1>5, <1>6, <1>7 DEF FinalizePop
<1> HIDE DEF v
<1>9. v \in PacerType
  BY <1>8 DEF PacerType
<1>10. /\ v.list = l /\ v.heap = s.heap /\ v.dupe = d /\ v.bytes = b /\ v.queue_time_sum = sum
       /\ v.time_last_updated = s.time_last_updated /\ v.packet_counter = s.packet_counter
  BY <1>8 DEF PacerType
<1>11. /\ l \subseteq s.list /\ s.heap = l \ {}
       /\ \A q, r \in l : Key(q) = Key(r) => q = r
       /\ \A q \in l : /\ q.ssrc = Ssrc /\ q.enqueue_time_ms <= s.time_last_updated
                       /\ q.enqueue_order < s.packet_counter
  BY <1>2, <1>3 DEF QueueOK
<1>12. QueueOK(v, {})
  BY <1>3, <1>5, <1>6, <1>7, <1>10, <1>11 DEF QueueOK
<1> QED BY <1>3, <1>9, <1>10, <1>12 DEF v

\* The target rate is a rate: the mean queueing time is only asked for when there
\* is a packet to divide by.
LEMMA TargetRateType ==
  ASSUME NEW s \in PacerType, NEW out, QueueOK(s, out)
  PROVE  TargetRate(s) \in Int
<1>1. /\ s.bytes \in Int /\ s.max_bitrate \in Int /\ s.queue_time_sum \in Int
      /\ IsFiniteSet(s.list) /\ s.heap \subseteq s.list /\ kMaxQueueLengthMs \in Nat
  BY PacerFields, Constants DEF QueueOK
<1>2. AverageQueueTimeMs(s) \in Int
  <2>1. CASE s.heap = {}
    BY <2>1 DEF AverageQueueTimeMs
  <2>2. CASE s.heap # {}
    <3>1. Cardinality(s.list) \in Nat /\ Cardinality(s.list) # 0
      BY <2>2, <1>1, FS_CardinalityType, FS_EmptySet
    <3>2. PICK c \in Nat : c = Cardinality(s.list) /\ c > 0
      BY <3>1
    <3>3. s.queue_time_sum \div c \in Int
      BY <3>2, <1>1
    <3> QED BY <2>2, <3>2, <3>3 DEF AverageQueueTimeMs
  <2> QED BY <2>1, <2>2
<1>3. PICK x \in Int : x = Upper(1, kMaxQueueLengthMs - AverageQueueTimeMs(s)) /\ x > 0
  BY <1>1, <1>2 DEF Upper
<1>4. s.bytes \div x \in Int
  BY <1>1, <1>3
<1> QED BY <1>1, <1>3, <1>4 DEF TargetRate, Upper

\* Process up to its loop leaves the packets in the queue.
LEMMA RefillEffect ==
  ASSUME NEW s \in PacerType, NEW out, QueueOK(s, out), NEW t \in Int, s.time_last_updated <= t
  PROVE  LET v == Refill(s, t)
         IN  /\ v \in PacerType /\ QueueOK(v, out)
             /\ v.list = s.list /\ v.heap = s.heap
             /\ v.packet_counter = s.packet_counter
             /\ v.time_last_updated \in {s.time_last_updated, t}
<1> DEFINE v == Refill(s, t)
<1>1. s.time_last_update \in Int /\ kMaxIntervalTimeMs \in Nat
  BY PacerFields, Constants
<1>2. CASE ~(t - s.time_last_update > 0)
  <2>1. v = [s EXCEPT !.time_last_update = t]
    BY <1>2 DEF Refill
  <2> HIDE DEF v
  <2>2. v \in PacerType /\ SameQueue(s, v)
    BY <2>1 DEF PacerType, SameQueue
  <2>3. QueueOK(v, out)
    BY <2>2, SameQueueKept
  <2> QED BY <2>2, <2>3 DEF SameQueue, v
<1>3. CASE t - s.time_last_update > 0
  <2>1. PICK u \in PacerType :
          /\ u = (IF s.bytes > 0 THEN UpdateQueueTime(s, t) ELSE s)
          /\ QueueOK(u, out) /\ u.list = s.list /\ u.heap = s.heap
          /\ u.packet_counter = s.packet_counter
          /\ u.time_last_updated \in {s.time_last_updated, t}
    <3>1. CASE s.bytes > 0
      BY <3>1, UpdateQueueTimeEffect
    <3>2. CASE ~(s.bytes > 0)
      BY <3>2
    <3> QED BY <3>1, <3>2
  <2>2. PICK m \in BudgetType : m = set_target_rate(u.media_budget, TargetRate(u))
    <3>1. TargetRate(u) \in Int /\ u.media_budget \in BudgetType
      BY <2>1, TargetRateType, PacerFields
    <3> QED BY <3>1, Budgets
  <2>3. PICK w : w = [u EXCEPT !.time_last_update = t, !.media_budget = m]
    OBVIOUS
  <2>4. w \in PacerType /\ SameQueue(u, w)
    BY <2>3 DEF PacerType, SameQueue
  <2>5. PICK x \in Int : x = Lower(kMaxIntervalTimeMs, t - s.time_last_update)
    BY <1>1 DEF Lower
  <2>6. v = UpdateBytesPerInterval(w, x)
    BY <1>3, <2>1, <2>2, <2>3, <2>5 DEF Refill
  <2> HIDE DEF v
  <2>7. v \in PacerType /\ SameQueue(w, v)
    BY <2>4, <2>6, UpdateBytesSame
  <2>8. QueueOK(v, out)
    BY <2>1, <2>4, <2>7, SameQueueKept
  <2> QED BY <2>1, <2>4, <2>7, <2>8 DEF SameQueue, v
<1> QED BY <1>2, <1>3

\* What the padding budget allows is never negative.
LEMMA PaddingNat ==
  ASSUME NEW s \in PacerType
  PROVE  PaddingNeeded(s) \in Nat
BY PacerFields, Budgets DEF PaddingNeeded

\* The new pacer's queue is empty.
LEMMA PacerInit ==
  ASSUME NEW probing \in BOOLEAN, NEW rate \in Nat, NEW least \in Nat, NEW t \in Int
  PROVE  LET v == PacedSenderInit(probing, rate, least, t)
         IN  /\ v \in PacerType /\ QueueOK(v, {}) /\ v.list = {} /\ v.heap = {}
             /\ v.packet_counter = 0 /\ v.time_last_updated = t
<1> DEFINE s == [paused |-> FALSE, probing_enabled |-> probing,
                 media_budget |-> [rate |-> rate, bytes_remaining |-> 0],
                 padding_budget |-> [rate |-> least, bytes_remaining |-> 0],
                 prober |-> [state |-> "kDisabled", probes |-> 0, packet_size_last_send |-> 0],
                 max_bitrate |-> rate, time_last_update |-> t, packet_counter |-> 0,
                 list |-> {}, heap |-> {}, dupe |-> {}, bytes |-> 0,
                 queue_time_sum |-> 0, time_last_updated |-> t]
<1>1. s \in PacerType
  BY Constants DEF PacerType, BudgetType
<1>2. /\ s.list = {} /\ s.heap = {} /\ s.dupe = {} /\ s.bytes = 0 /\ s.queue_time_sum = 0
      /\ s.time_last_updated = t /\ s.packet_counter = 0
  OBVIOUS
<1>3. BytesOf({}) = 0 /\ TimesOf({}, t) = 0
  BY SumEmpty DEF BytesOf, TimesOf, SumFunction
<1>4. PacedSenderInit(probing, rate, least, t) = UpdateBytesPerInterval(s, kMinPacketLimitMs)
  BY DEF PacedSenderInit
<1> HIDE DEF s
<1>5. QueueOK(s, {})
  BY <1>2, <1>3, FS_EmptySet DEF QueueOK
<1>6. PICK v \in PacerType : v = UpdateBytesPerInterval(s, kMinPacketLimitMs) /\ SameQueue(s, v)
  BY <1>1, Constants, UpdateBytesSame
<1>7. QueueOK(v, {})
  BY <1>5, <1>6, SameQueueKept
<1> QED BY <1>2, <1>4, <1>6, <1>7 DEF SameQueue

-----------------------------------------------------------------------------
(* Packets and positions in a state.                                       *)

\* The packet that stands for none.
LEMMA NoneType == None \in Packets /\ None.ssrc = 0
BY Constants DEF None, Packets, Ssrc, kHighPriority, kNormalPriority, Seqs

\* The packet that is given to InsertPacket.
LEMMA PacketType ==
  ASSUME NEW priority \in {kHighPriority, kNormalPriority}, NEW seq \in Seqs,
         NEW t \in 0..MaxTime, NEW r \in BOOLEAN
  PROVE  LET p == Packet(priority, seq, t, r)
         IN  /\ p \in Packets /\ p # None /\ p.ssrc = Ssrc /\ p.sequence_number = seq
             /\ p.capture_time_ms = t /\ p.retransmission = r /\ p.priority = priority
<1> DEFINE p == Packet(priority, seq, t, r)
<1>1. p \in Packets
  BY Constants DEF Packet, Packets
<1>2. /\ p.ssrc = Ssrc /\ p.sequence_number = seq /\ p.capture_time_ms = t
      /\ p.retransmission = r /\ p.priority = priority
  BY DEF Packet
<1>3. p # None
  BY <1>2, NoneType DEF Ssrc
<1> QED BY <1>1, <1>2, <1>3

\* The packet as InsertPacket queues it: with the time and its place in the order.
LEMMA EnqueuedType ==
  ASSUME pacer.packet_counter \in 0..MaxPackets + MaxNacks, now \in 1..MaxTime,
         NEW p \in Packets
  PROVE  /\ Enqueued(p) \in Packets /\ Enqueued(p).ssrc = p.ssrc
         /\ Enqueued(p).sequence_number = p.sequence_number
         /\ Enqueued(p).capture_time_ms = p.capture_time_ms
         /\ Enqueued(p).retransmission = p.retransmission /\ Enqueued(p).priority = p.priority
         /\ Enqueued(p).enqueue_time_ms = now /\ Enqueued(p).enqueue_order = pacer.packet_counter
<1>1. now \in 0..MaxTime
  BY Constants
<1> QED BY <1>1 DEF Enqueued, Packets

\* The model's Position and Seq in terms of Pos.
LEMMA Positions ==
  ASSUME first \in Seqs
  PROVE  /\ \A seq \in Seqs : Position(seq) = Pos(first, seq) /\ Pos(first, seq) \in Nat
                              /\ Pos(first, seq) >= 1
         /\ \A k \in 1..MaxPackets : Seq(k) \in Seqs /\ Pos(first, Seq(k)) = k
<1>1. ASSUME NEW seq \in Seqs
      PROVE  Position(seq) = Pos(first, seq) /\ Pos(first, seq) \in Nat /\ Pos(first, seq) >= 1
  BY PosRange, Constants DEF Position, Pos
<1>2. ASSUME NEW k \in 1..MaxPackets
      PROVE  Seq(k) \in Seqs /\ Pos(first, Seq(k)) = k
  <2>1. k \in 1..SeqRange
    BY Constants
  <2>2. Seq(k) = NumberAt(first, k)
    BY DEF Seq, NumberAt
  <2> QED BY <2>1, <2>2, PosOfNumber
<1> QED BY <1>1, <1>2

\* The types of what the invariant talks about.
LEMMA StateTypes ==
  ASSUME Typed
  PROVE  /\ first \in Seqs /\ used \in Nat /\ now \in Nat /\ now >= 1 /\ nacks \in Nat
         /\ last_first \in Nat
         /\ \A seq \in Seqs : /\ sent[seq] \in Nat /\ requested[seq] \in Nat
                              /\ resent_at[seq] \in Nat
                              /\ Pos(first, seq) \in Nat /\ Pos(first, seq) >= 1
         /\ \A p \in pacer.list : p \in Packets
         /\ \A p \in pacer.heap : p \in Packets
         /\ \A p \in Packets : /\ p.sequence_number \in Seqs /\ p.capture_time_ms \in Nat
                               /\ p.enqueue_order \in Nat /\ p.bytes \in Nat
                               /\ p.enqueue_time_ms \in Nat
         /\ pacer.packet_counter \in Nat /\ pacer.time_last_updated \in Int
<1>1. /\ first \in Seqs /\ used \in Nat /\ now \in Nat /\ now >= 1 /\ nacks \in Nat
      /\ last_first \in Nat
      /\ \A seq \in Seqs : sent[seq] \in Nat /\ requested[seq] \in Nat /\ resent_at[seq] \in Nat
  BY Constants DEF Typed
<1>2. \A seq \in Seqs : Pos(first, seq) \in Nat /\ Pos(first, seq) >= 1
  BY <1>1, Positions
<1>3. /\ pacer.packet_counter \in Nat /\ pacer.time_last_updated \in Int
      /\ pacer.list \in SUBSET Packets /\ pacer.heap \in SUBSET Packets
  BY PacerFields DEF Typed
<1>4. \A p \in Packets : /\ p.sequence_number \in Seqs /\ p.capture_time_ms \in Nat
                         /\ p.enqueue_order \in Nat /\ p.bytes \in Nat
                         /\ p.enqueue_time_ms \in Nat
  BY PacketFields
<1> QED BY <1>1, <1>2, <1>3, <1>4

\* The slots of the history and the types of what they hold.
LEMMA HistoryTypes ==
  ASSUME Typed
  PROVE  \E n \in 0..kMaxHistoryCapacity :
           /\ history \in HistoryOf(n) /\ n \in Nat /\ Size(history) = n
           /\ DOMAIN history.packets = 0..n-1
           /\ \A i \in 0..n-1 : /\ history.packets[i].sequence_number \in Seqs
                                /\ history.packets[i].send_time \in Nat
                                /\ history.packets[i].time_ms \in 0..MaxTime
<1>1. PICK n \in 0..kMaxHistoryCapacity : history \in HistoryOf(n)
  BY DEF Typed, HistoryTyped
<1>2. n \in Nat
  BY Constants
<1>3. /\ Size(history) = n /\ DOMAIN history.packets = 0..n-1
      /\ history.packets \in [0..n-1 -> StoredType]
  BY <1>1, <1>2, SizeOf
<1>4. ASSUME NEW i \in 0..n-1
      PROVE  /\ history.packets[i].sequence_number \in Seqs
             /\ history.packets[i].send_time \in Nat
             /\ history.packets[i].time_ms \in 0..MaxTime
  <2>1. PICK p \in StoredType : p = history.packets[i]
    BY <1>3
  <2> QED BY <2>1, Constants DEF StoredType, StoredPacketType, Seqs
<1> QED BY <1>1, <1>2, <1>3, <1>4

\* What Process holds is in the queue, and only that.
LEMMA OutsideIs ==
  ASSUME Held
  PROVE  Outside = IF process \in Holding THEN {current} ELSE {}
BY DEF Held, Outside, Ssrc

-----------------------------------------------------------------------------
(* What keeps the parts of the invariant.                                  *)

\* Recorded holds on while the history is left alone.
LEMMA KeepRecorded ==
  ASSUME Typed, Recorded, used' \in Nat, used <= used',
         UNCHANGED <<history, first, resent_at>>
  PROVE  Recorded'
<1>1. PICK n \in Nat : /\ DOMAIN history.packets = 0..n-1
                       /\ \A i \in 0..n-1 : history.packets[i].sequence_number \in Seqs
  BY HistoryTypes
<1> SUFFICES ASSUME NEW i \in DOMAIN history.packets, history.packets[i].stored
             PROVE  LET p == history.packets[i]
                    IN  /\ Pos(first, p.sequence_number) <= used'
                        /\ resent_at[p.sequence_number] > 0 =>
                             /\ p.has_been_retransmitted
                             /\ p.send_time >= resent_at[p.sequence_number]
  BY DEF Recorded
<1>2. history.packets[i].sequence_number \in Seqs
  BY <1>1
<1>3. /\ Pos(first, history.packets[i].sequence_number) \in Nat
      /\ Pos(first, history.packets[i].sequence_number) <= used /\ used \in Nat
  BY <1>2, StateTypes DEF Recorded
<1> QED BY <1>3 DEF Recorded

\* InOrder holds on while the queue only shrinks, if the last packet sent is before
\* all that remain.
LEMMA KeepOrder ==
  ASSUME Typed, InOrder, used' \in Nat, used <= used', now' \in Nat, now <= now',
         UNCHANGED <<first, encoder>>, pacer'.list \subseteq pacer.list,
         last_first' <= used',
         \A p \in Media(pacer') : last_first' < Pos(first, p.sequence_number),
         encoder # None => last_first' < Pos(first, encoder.sequence_number)
  PROVE  InOrder'
<1>1. \A p \in pacer.list : /\ Pos(first, p.sequence_number) \in Nat /\ p.capture_time_ms \in Nat
                            /\ Pos(first, p.sequence_number) <= used
  BY StateTypes DEF InOrder
<1>2. used \in Nat /\ now \in Nat
  BY StateTypes
<1>3. Media(pacer') \subseteq Media(pacer) /\ Media(pacer) \subseteq pacer.list
  BY DEF Media
<1>4. \A p \in pacer'.list : Pos(first, p.sequence_number) <= used'
  BY <1>1, <1>2
<1>5. \A p \in Media(pacer') : p.priority = kNormalPriority /\ p.capture_time_ms <= now'
  <2>1. \A p \in Media(pacer') : p.priority = kNormalPriority /\ p.capture_time_ms <= now
    BY <1>3 DEF InOrder
  <2>2. \A p \in Media(pacer') : p.capture_time_ms \in Nat
    BY <1>1, <1>3
  <2> QED BY <2>1, <2>2, <1>2
<1>6. \A p, q \in Media(pacer') :
        Pos(first, p.sequence_number) < Pos(first, q.sequence_number) =>
          p.capture_time_ms <= q.capture_time_ms /\ p.enqueue_order < q.enqueue_order
  BY <1>3 DEF InOrder
<1>7. encoder # None =>
        \A p \in Media(pacer') :
          /\ Pos(first, p.sequence_number) < Pos(first, encoder.sequence_number)
          /\ p.capture_time_ms <= encoder.capture_time_ms
  BY <1>3 DEF InOrder
<1> QED BY <1>4, <1>5, <1>6, <1>7 DEF InOrder, Media

\* In particular it does when no packet is sent for the first time.
LEMMA KeepInOrder ==
  ASSUME Typed, InOrder, used' \in Nat, used <= used', now' \in Nat, now <= now',
         UNCHANGED <<first, last_first, encoder>>, pacer'.list \subseteq pacer.list
  PROVE  InOrder'
<1>1. last_first' <= used'
  BY StateTypes DEF InOrder
<1>2. \A p \in Media(pacer') : last_first' < Pos(first, p.sequence_number)
  BY DEF InOrder, Media
<1>3. encoder # None => last_first' < Pos(first, encoder.sequence_number)
  BY DEF InOrder
<1> QED BY <1>1, <1>2, <1>3, KeepOrder

\* Budgeted holds on while nothing is sent or requested and the queue only shrinks.
LEMMA KeepBudgeted ==
  ASSUME Typed, Budgeted, used' \in Nat, used <= used',
         UNCHANGED <<first, sent, requested, resent_at, encoder, receiver>>,
         pacer'.list \subseteq pacer.list
  PROVE  Budgeted'
<1> SUFFICES ASSUME NEW seq \in Seqs
             PROVE  /\ sent[seq] + Copies(seq)' <= 1 + requested[seq]
                    /\ Pos(first, seq) > used' => sent[seq] = 0 /\ resent_at[seq] = 0
  BY DEF Budgeted, Copies
<1>1. /\ sent[seq] \in Nat /\ requested[seq] \in Nat /\ Pos(first, seq) \in Nat /\ used \in Nat
  BY StateTypes
<1>2. Copies(seq) \in Nat /\ Copies(seq)' \in Nat /\ Copies(seq)' <= Copies(seq)
  BY DEF Copies, One
<1> QED BY <1>1, <1>2 DEF Budgeted

\* Held holds on for the threads that are not Process.
LEMMA KeepHeld ==
  ASSUME Typed, Held, used' \in Nat, used <= used', now' \in Nat, now <= now',
         UNCHANGED <<first, encoder, receiver>>,
         current'.ssrc = (IF process' \in Holding THEN Ssrc ELSE 0)
  PROVE  Held'
<1>1. /\ Pos(first, encoder.sequence_number) \in Nat /\ Pos(first, receiver.sequence_number) \in Nat
      /\ encoder.capture_time_ms \in Nat /\ used \in Nat /\ now \in Nat
  BY StateTypes DEF Typed
<1> QED BY <1>1 DEF Held

\* Waits holds on while the history is left alone and the queue only shrinks.
LEMMA KeepWaits ==
  ASSUME Typed, Waits, UNCHANGED <<history, encoder, receiver>>,
         touched \subseteq touched', touched' \subseteq Seqs,
         pacer'.list \subseteq pacer.list, pacer'.heap \subseteq pacer.heap
  PROVE  Waits'
<1>1. \A p \in PendingPackets' : p \in PendingPackets
  BY DEF PendingPackets
<1>2. \A seq : Kept(seq) => Kept(seq)'
  BY DEF Kept, Size
<1>3. \A p \in PendingPackets' : p.retransmission \/ Kept(p.sequence_number)'
  BY <1>1, <1>2 DEF Waits
<1>4. ~history.store => touched' = Seqs
  BY DEF Waits
<1>5. encoder # None =>
        /\ receiver # None /\ receiver.sequence_number = encoder.sequence_number
             => encoder.sequence_number \in touched'
        /\ \A p \in pacer'.list : p.sequence_number = encoder.sequence_number
             => encoder.sequence_number \in touched'
  BY DEF Waits
<1> QED BY <1>3, <1>4, <1>5 DEF Waits

\* A step of the process thread, or of the clock: what it leaves to show.
LEMMA ProcessStep ==
  ASSUME IndInv,
         UNCHANGED <<history, first, encoder, receiver, requested, resent_at>>,
         sent' \in [Seqs -> Nat], last_first' \in Nat, touched' \in SUBSET Seqs,
         used' \in used..MaxPackets, now' \in now..MaxTime, nacks' \in nacks..MaxNacks,
         pacer' \in PacerType, QueueOK(pacer', Outside'),
         pacer'.packet_counter = pacer.packet_counter, pacer'.time_last_updated <= now',
         current' \in Packets, process' \in {"idle", "TimeToSendPadding"} \cup Holding,
         current'.ssrc = (IF process' \in Holding THEN Ssrc ELSE 0), Popped',
         InOrder', Budgeted', Waits'
  PROVE  IndInv'
<1> USE DEF IndInv
<1>1. /\ used \in Nat /\ now \in Nat /\ now >= 1 /\ nacks \in Nat
      /\ used' \in 0..MaxPackets /\ now' \in 1..MaxTime /\ nacks' \in 0..MaxNacks
      /\ used' \in Nat /\ now' \in Nat /\ nacks' \in Nat
      /\ used <= used' /\ now <= now' /\ nacks <= nacks'
  BY StateTypes, Constants DEF Typed
<1>2. Typed'
  BY <1>1 DEF Typed
<1>3. Slots(history)'
  BY DEF Slots, Filled
<1>4. Recorded'
  BY <1>1, KeepRecorded
<1>5. QueueOK(pacer, Outside)'
  OBVIOUS
<1>6. Clocks'
  <2>1. \A seq \in Seqs : resent_at[seq] \in Nat /\ resent_at[seq] <= now
    BY StateTypes DEF Clocks
  <2> QED BY <2>1, <1>1 DEF Clocks
<1>7. Held'
  BY <1>1, KeepHeld
<1>8. Counted'
  BY <1>1, StateTypes DEF Counted
<1> QED BY <1>2, <1>3, <1>4, <1>5, <1>6, <1>7, <1>8

\* One that puts no packet into the queue and sends none.
LEMMA QuietStep ==
  ASSUME IndInv,
         UNCHANGED <<history, first, encoder, receiver, sent, requested, resent_at, last_first,
                     touched>>,
         used' \in used..MaxPackets, now' \in now..MaxTime, nacks' \in nacks..MaxNacks,
         pacer' \in PacerType, QueueOK(pacer', Outside'),
         pacer'.list \subseteq pacer.list, pacer'.heap \subseteq pacer.heap,
         pacer'.packet_counter = pacer.packet_counter, pacer'.time_last_updated <= now',
         current' \in Packets, process' \in {"idle", "TimeToSendPadding"} \cup Holding,
         current'.ssrc = (IF process' \in Holding THEN Ssrc ELSE 0), Popped'
  PROVE  IndInv'
<1>1. Typed /\ InOrder /\ Budgeted /\ Waits
  BY DEF IndInv
<1>2. used' \in Nat /\ now' \in Nat /\ used <= used' /\ now <= now'
  BY <1>1, StateTypes, Constants
<1>3. InOrder'
  BY <1>1, <1>2, KeepInOrder
<1>4. Budgeted'
  BY <1>1, <1>2, KeepBudgeted
<1>5. /\ sent' \in [Seqs -> Nat] /\ last_first' \in Nat /\ touched' \in SUBSET Seqs
  BY <1>1 DEF Typed
<1>6. Waits'
  BY <1>1, <1>5, KeepWaits
<1> QED BY <1>3, <1>4, <1>5, <1>6, ProcessStep

\* The media packets of a queue are in the order of the stream.
Ordered(f, s) ==
  /\ \A p \in Media(s) : p.priority = kNormalPriority
  /\ \A p, q \in Media(s) :
       Pos(f, p.sequence_number) < Pos(f, q.sequence_number) =>
         p.capture_time_ms <= q.capture_time_ms /\ p.enqueue_order < q.enqueue_order

\* The top of the heap is the first media packet if it is one.
LEMMA TopIsFirst ==
  ASSUME NEW s \in PacerType, QueueOK(s, {}), NEW f \in Seqs, Ordered(f, s),
         NEW p, IsTop(p, s.heap), ~p.retransmission, NEW q \in Media(s), q # p
  PROVE  Pos(f, p.sequence_number) < Pos(f, q.sequence_number)
<1>1. /\ p \in s.list /\ q \in s.list /\ p \in Media(s) /\ Below(q, p) /\ ~q.retransmission
      /\ p \in Packets /\ q \in Packets /\ p.ssrc = q.ssrc
      /\ Key(p) = Key(q) => p = q
  BY PacerFields DEF QueueOK, IsTop, Media
<1>2. /\ p.sequence_number \in Seqs /\ q.sequence_number \in Seqs
      /\ p.sequence_number # q.sequence_number
      /\ p.capture_time_ms \in Nat /\ q.capture_time_ms \in Nat
      /\ p.enqueue_order \in Nat /\ q.enqueue_order \in Nat
  BY <1>1, PacketFields, SameKey
<1>3. PICK a \in Nat : a = Pos(f, p.sequence_number)
  BY <1>2, PosRange, Constants
<1>4. PICK b \in Nat : b = Pos(f, q.sequence_number)
  BY <1>2, PosRange, Constants
<1>5. a # b
  BY <1>2, <1>3, <1>4, PosInjective
<1>6. ASSUME b < a PROVE FALSE
  <2>1. q.capture_time_ms <= p.capture_time_ms /\ q.enqueue_order < p.enqueue_order
    BY <1>1, <1>3, <1>4, <1>6 DEF Ordered
  <2>2. p.priority = q.priority
    BY <1>1 DEF Ordered
  <2> QED BY <1>1, <1>2, <2>1, <2>2 DEF Below
<1> QED BY <1>3, <1>4, <1>5, <1>6

\* What Process does once it has s, until it leaves the critical section.
LEMMA ContinueEffect ==
  ASSUME NEW s \in PacerType, QueueOK(s, {}), first \in Seqs, first' = first,
         Ordered(first, s), Continue(s)
  PROVE  /\ pacer' \in PacerType /\ QueueOK(pacer', Outside')
         /\ pacer'.list = s.list /\ pacer'.heap \subseteq s.heap
         /\ pacer'.packet_counter = s.packet_counter
         /\ pacer'.time_last_updated = s.time_last_updated
         /\ current' \in Packets /\ process' \in {"idle", "TimeToSendPadding"} \cup Holding
         /\ current'.ssrc = (IF process' \in Holding THEN Ssrc ELSE 0)
         /\ Popped'
<1>1. CASE \E p \in s.heap : /\ IsTop(p, s.heap) /\ pacer' = BeginPop(s, p) /\ current' = p
                             /\ process' = "TimeToSendPacket"
  <2>1. PICK p \in s.heap : /\ IsTop(p, s.heap) /\ pacer' = BeginPop(s, p) /\ current' = p
                            /\ process' = "TimeToSendPacket"
    BY <1>1
  <2>2. p \in Packets /\ p \in s.list /\ p.ssrc = Ssrc
    BY PacerFields DEF QueueOK
  <2>3. /\ pacer' \in PacerType /\ QueueOK(pacer', {p})
        /\ pacer'.list = s.list /\ pacer'.heap = s.heap \ {p}
        /\ pacer'.packet_counter = s.packet_counter
        /\ pacer'.time_last_updated = s.time_last_updated
    BY <2>1, PopEffect
  <2>4. Outside' = {p}
    BY <2>1, <2>2 DEF Outside
  <2>5. Media(pacer)' = Media(s)
    BY <2>3 DEF Media
  <2>6. Popped'
    <3>1. ASSUME ~p.retransmission, NEW q \in Media(s), q # p
          PROVE  Pos(first, p.sequence_number) < Pos(first, q.sequence_number)
      BY <3>1, <2>1, TopIsFirst
    <3> QED BY <3>1, <2>1, <2>5 DEF Popped
  <2> QED BY <2>1, <2>2, <2>3, <2>4, <2>6 DEF Holding
<1>2. CASE /\ pacer' = s /\ process' = "TimeToSendPadding"
           /\ current' = [None EXCEPT !.bytes = PaddingNeeded(s)]
  <2>1. current' \in Packets /\ current'.ssrc = 0
    <3>1. PICK b \in Nat : b = PaddingNeeded(s)
      BY PaddingNat
    <3>2. current' = [None EXCEPT !.bytes = b]
      BY <1>2, <3>1
    <3> QED BY <3>2, NoneType DEF Packets
  <2>2. Outside' = {} /\ process' \notin Holding
    BY <1>2, <2>1 DEF Outside, Ssrc, Holding
  <2> QED BY <1>2, <2>1, <2>2 DEF Popped
<1>3. CASE pacer' = s /\ process' = "idle" /\ current' = None
  <2>1. Outside' = {} /\ process' \notin Holding
    BY <1>3, NoneType DEF Outside, Ssrc, Holding
  <2> QED BY <1>3, <2>1, NoneType DEF Popped
<1> QED BY <1>1, <1>2, <1>3 DEF Continue

-----------------------------------------------------------------------------
(* The steps that put no packet into the queue and send none.              *)

\* What is left alone is in its range.
LEMMA Ranges ==
  ASSUME Typed
  PROVE  /\ used \in used..MaxPackets /\ now \in now..MaxTime /\ nacks \in nacks..MaxNacks
         /\ now \in Int /\ pacer \in PacerType /\ current \in Packets
         /\ process \in {"idle", "TimeToSendPadding"} \cup Holding
BY Constants DEF Typed

\* The invariant's order is that of the queue.
LEMMA QueueOrdered == InOrder => Ordered(first, pacer)
BY DEF InOrder, Ordered

\* Pause, Resume, UpdateBitrate, TimeUntilNextProcess: the queue is the same.
LEMMA SameQueueStep ==
  ASSUME IndInv, pacer' \in PacerType, SameQueue(pacer, pacer'),
         UNCHANGED <<history, streamVars, encoder, receiver, process, current, now, nacks, auxVars>>
  PROVE  IndInv'
<1>1. Typed /\ QueueOK(pacer, Outside) /\ Clocks /\ Held /\ Popped
  BY DEF IndInv
<1>2. Outside' = Outside
  BY DEF Outside
<1>3. QueueOK(pacer', Outside)
  BY <1>1, SameQueueKept
<1>4. Popped'
  BY <1>1 DEF Popped, Media, SameQueue, streamVars
<1>5. /\ pacer'.list = pacer.list /\ pacer'.heap = pacer.heap
      /\ pacer'.packet_counter = pacer.packet_counter
      /\ pacer'.time_last_updated <= now'
  BY <1>1 DEF SameQueue, Clocks
<1>6. current'.ssrc = (IF process' \in Holding THEN Ssrc ELSE 0)
  BY <1>1 DEF Held
<1> QED BY <1>1, <1>2, <1>3, <1>4, <1>5, <1>6, Ranges, QuietStep DEF streamVars, auxVars

\* TimeUntilNextProcess changes only the prober.
LEMMA StepTimeUntilNextProcess == IndInv /\ TimeUntilNextProcess => IndInv'
<1> SUFFICES ASSUME IndInv, TimeUntilNextProcess PROVE IndInv'
  OBVIOUS
<1>1. PICK giveUp \in BOOLEAN : pacer' = TimeUntilNextProbe(pacer, giveUp)
  BY DEF TimeUntilNextProcess
<1>2. pacer \in PacerType
  BY DEF IndInv, Typed
<1>3. pacer' \in PacerType /\ SameQueue(pacer, pacer')
  BY <1>1, <1>2, TimeUntilNextProbeSame
<1> QED BY <1>3, SameQueueStep DEF TimeUntilNextProcess, boundVars

\* Pause and Resume change only the flag.
LEMMA StepSetPaused ==
  ASSUME IndInv, NEW paused \in BOOLEAN, SetPaused(paused)
  PROVE  IndInv'
<1>1. pacer \in PacerType /\ pacer' = [pacer EXCEPT !.paused = paused]
  BY DEF IndInv, Typed, SetPaused
<1>2. pacer' \in PacerType /\ SameQueue(pacer, pacer')
  BY <1>1 DEF PacerType, SameQueue
<1> QED BY <1>2, SameQueueStep DEF SetPaused

\* UpdateBitrate changes only the padding budget and the maximal rate.
LEMMA StepUpdateBitrate ==
  ASSUME IndInv, NEW rate \in Bitrates, UpdateBitrate(rate)
  PROVE  IndInv'
<1>1. pacer \in PacerType
  BY DEF IndInv, Typed
<1>2. PICK d \in BudgetType : d = set_target_rate(pacer.padding_budget, MinBitrate)
  <2>1. pacer.padding_budget \in BudgetType /\ MinBitrate \in Int
    BY <1>1, PacerFields, Constants
  <2> QED BY <2>1, Budgets
<1>3. rate \in Int
  BY Constants
<1>4. pacer' = [pacer EXCEPT !.padding_budget = d, !.max_bitrate = rate]
  BY <1>2 DEF UpdateBitrate
<1>5. pacer' \in PacerType /\ SameQueue(pacer, pacer')
  BY <1>1, <1>3, <1>4 DEF PacerType, SameQueue
<1> QED BY <1>5, SameQueueStep DEF UpdateBitrate

\* AverageQueueTimeMs brings the queue's clock up to date.
LEMMA StepAverageQueueTime == IndInv /\ AverageQueueTime => IndInv'
<1> SUFFICES ASSUME IndInv, AverageQueueTime PROVE IndInv'
  OBVIOUS
<1>1. Typed /\ QueueOK(pacer, Outside) /\ Clocks /\ Held /\ Popped
  BY DEF IndInv
<1>2. pacer \in PacerType /\ now \in Int /\ pacer.time_last_updated <= now
  BY <1>1, Ranges DEF Clocks
<1>3. pacer' = UpdateQueueTime(pacer, now)
  BY DEF AverageQueueTime
<1>4. UNCHANGED <<history, streamVars, encoder, receiver, process, current, now, nacks, auxVars>>
  BY DEF AverageQueueTime, boundVars
<1>5. /\ pacer' \in PacerType /\ QueueOK(pacer', Outside) /\ pacer'.list = pacer.list
      /\ pacer'.heap = pacer.heap /\ pacer'.packet_counter = pacer.packet_counter
      /\ pacer'.time_last_updated = now
  BY <1>1, <1>2, <1>3, UpdateQueueTimeEffect
<1>6. Outside' = Outside
  BY <1>4 DEF Outside
<1>7. Popped'
  BY <1>1, <1>4, <1>5 DEF Popped, Media, streamVars
<1>8. current'.ssrc = (IF process' \in Holding THEN Ssrc ELSE 0)
  BY <1>1, <1>4 DEF Held
<1>9. pacer'.time_last_updated <= now'
  BY <1>2, <1>4, <1>5
<1> QED BY <1>1, <1>4, <1>5, <1>6, <1>7, <1>8, <1>9, Ranges, QuietStep DEF streamVars, auxVars

\* Time passes: nothing depends on now being small.
LEMMA StepTick == IndInv /\ Tick => IndInv'
<1> SUFFICES ASSUME IndInv, Tick PROVE IndInv'
  OBVIOUS
<1>1. Typed /\ QueueOK(pacer, Outside) /\ Clocks /\ Held /\ Popped
  BY DEF IndInv
<1>2. UNCHANGED <<history, pacer, streamVars, encoder, receiver, process, current, nacks, auxVars>>
  BY DEF Tick, boundVars
<1>3. now' \in now..MaxTime /\ now <= now' /\ now' \in Int /\ now \in Int
  BY <1>1, Constants DEF Tick, Typed
<1>4. pacer'.time_last_updated <= now'
  BY <1>1, <1>2, <1>3, StateTypes DEF Clocks
<1>5. Outside' = Outside
  BY <1>2 DEF Outside
<1>6. Popped'
  BY <1>1, <1>2 DEF Popped, Media, streamVars
<1>7. current'.ssrc = (IF process' \in Holding THEN Ssrc ELSE 0)
  BY <1>1, <1>2 DEF Held
<1>8. /\ pacer' \in PacerType /\ QueueOK(pacer', Outside') /\ current' \in Packets
      /\ process' \in {"idle", "TimeToSendPadding"} \cup Holding
      /\ used' \in used..MaxPackets /\ nacks' \in nacks..MaxNacks
  BY <1>1, <1>2, <1>5, Ranges DEF streamVars
<1> QED BY <1>1, <1>2, <1>3, <1>4, <1>6, <1>7, <1>8, QuietStep DEF streamVars, auxVars

\* Process pops the top of the heap and holds it for the callback.
LEMMA StepProcess == IndInv /\ Process => IndInv'
<1> SUFFICES ASSUME IndInv, Process PROVE IndInv'
  OBVIOUS
<1>1. Typed /\ QueueOK(pacer, Outside) /\ Clocks /\ Held /\ InOrder
  BY DEF IndInv
<1>2. pacer \in PacerType /\ now \in Int /\ pacer.time_last_updated <= now /\ first \in Seqs
  BY <1>1, Ranges DEF Clocks, Typed
<1>3. UNCHANGED <<history, streamVars, encoder, receiver, now, nacks, auxVars>>
  BY DEF Process, boundVars
<1>4. CASE pacer.paused
  <2>1. pacer' = [pacer EXCEPT !.time_last_update = now] /\ UNCHANGED <<process, current>>
    BY <1>4 DEF Process
  <2>2. pacer' \in PacerType /\ SameQueue(pacer, pacer')
    BY <1>2, <2>1 DEF PacerType, SameQueue
  <2> QED BY <1>3, <2>1, <2>2, SameQueueStep
<1>5. CASE ~pacer.paused
  <2>1. PICK s : s = Refill(pacer, now) /\ Continue(s)
    BY <1>5 DEF Process
  <2>2. Outside = {}
    <3>1. process \notin Holding
      BY DEF Process, Holding
    <3> QED BY <3>1, <1>1, OutsideIs
  <2>3. /\ s \in PacerType /\ QueueOK(s, {}) /\ s.list = pacer.list /\ s.heap = pacer.heap
        /\ s.packet_counter = pacer.packet_counter
        /\ s.time_last_updated \in {pacer.time_last_updated, now}
    BY <1>1, <1>2, <2>1, <2>2, RefillEffect
  <2>4. Ordered(first, s)
    BY <1>1, <2>3, QueueOrdered DEF Ordered, Media
  <2>5. /\ pacer' \in PacerType /\ QueueOK(pacer', Outside')
        /\ pacer'.list = s.list /\ pacer'.heap \subseteq s.heap
        /\ pacer'.packet_counter = s.packet_counter
        /\ pacer'.time_last_updated = s.time_last_updated
        /\ current' \in Packets /\ process' \in {"idle", "TimeToSendPadding"} \cup Holding
        /\ current'.ssrc = (IF process' \in Holding THEN Ssrc ELSE 0)
        /\ Popped'
    BY <1>2, <1>3, <2>1, <2>3, <2>4, ContinueEffect DEF streamVars
  <2>6. pacer'.time_last_updated <= now'
    BY <1>2, <1>3, <2>3, <2>5
  <2>7. /\ used' \in used..MaxPackets /\ now' \in now..MaxTime /\ nacks' \in nacks..MaxNacks
    BY <1>1, <1>3, Ranges DEF streamVars
  <2> QED BY <1>3, <2>3, <2>5, <2>6, <2>7, QuietStep DEF streamVars, auxVars
<1> QED BY <1>4, <1>5

-----------------------------------------------------------------------------
(* The steps that send.                                                    *)

\* SendPacket has succeeded: the packet leaves the queue.
LEMMA SucceededEffect ==
  ASSUME IndInv, process \in Holding, SendSucceeded(current), first' = first, now' = now
  PROVE  /\ pacer' \in PacerType /\ QueueOK(pacer', Outside')
         /\ current \in pacer.list /\ pacer'.list = pacer.list \ {current}
         /\ pacer'.heap \subseteq pacer.heap
         /\ pacer'.packet_counter = pacer.packet_counter /\ pacer'.time_last_updated <= now'
         /\ current' \in Packets /\ process' \in {"idle", "TimeToSendPadding"} \cup Holding
         /\ current'.ssrc = (IF process' \in Holding THEN Ssrc ELSE 0)
         /\ Popped'
<1>1. Typed /\ QueueOK(pacer, Outside) /\ Clocks /\ Held /\ InOrder
  BY DEF IndInv
<1>2. /\ Outside = {current} /\ QueueOK(pacer, {current}) /\ pacer \in PacerType
      /\ first \in Seqs /\ current.bytes \in Nat
  BY <1>1, OutsideIs, PacketFields DEF Typed
<1>3. PICK t \in PacerType : /\ t = BytesSent(pacer, current.bytes) /\ SameQueue(pacer, t)
                             /\ QueueOK(t, {current})
  BY <1>2, BytesSentSame, SameQueueKept
<1>4. PICK s : /\ s = FinalizePop(BytesSent(pacer, current.bytes), current)
               /\ IF IsProbing(s) THEN pacer' = s /\ process' = "idle" /\ current' = None
                                  ELSE Continue(s)
  BY DEF SendSucceeded
<1>5. /\ s \in PacerType /\ QueueOK(s, {}) /\ s.list = t.list \ {current} /\ s.heap = t.heap
      /\ s.packet_counter = t.packet_counter /\ s.time_last_updated = t.time_last_updated
  BY <1>3, <1>4, FinalizeEffect
<1>6. /\ s.list = pacer.list \ {current} /\ s.heap = pacer.heap
      /\ s.packet_counter = pacer.packet_counter
      /\ s.time_last_updated = pacer.time_last_updated /\ s.time_last_updated <= now'
      /\ current \in pacer.list
  BY <1>1, <1>2, <1>3, <1>5 DEF SameQueue, Clocks, QueueOK
<1>7. CASE IsProbing(s)
  <2>1. pacer' = s /\ process' = "idle" /\ current' = None
    BY <1>4, <1>7
  <2>2. Outside' = {}
    BY <2>1, NoneType DEF Outside, Ssrc
  <2>3. process' \notin Holding
    BY <2>1 DEF Holding
  <2> QED BY <1>5, <1>6, <2>1, <2>2, <2>3, NoneType DEF Popped
<1>8. CASE ~IsProbing(s)
  <2>1. Continue(s)
    BY <1>4, <1>8
  <2>2. Ordered(first, s)
    BY <1>1, <1>6, QueueOrdered DEF Ordered, Media
  <2>3. /\ pacer' \in PacerType /\ QueueOK(pacer', Outside')
        /\ pacer'.list = s.list /\ pacer'.heap \subseteq s.heap
        /\ pacer'.packet_counter = s.packet_counter
        /\ pacer'.time_last_updated = s.time_last_updated
        /\ current' \in Packets /\ process' \in {"idle", "TimeToSendPadding"} \cup Holding
        /\ current'.ssrc = (IF process' \in Holding THEN Ssrc ELSE 0)
        /\ Popped'
    BY <1>2, <1>5, <2>1, <2>2, ContinueEffect
  <2> QED BY <1>6, <2>3
<1> QED BY <1>7, <1>8

\* A callback that found nothing to send counts as a success: the packet leaves the
\* queue.
LEMMA StepSendSkipped == IndInv /\ SendSkipped => IndInv'
<1> SUFFICES ASSUME IndInv, SendSkipped PROVE IndInv'
  OBVIOUS
<1>1. process \in Holding /\ SendSucceeded(current) /\ Typed
  BY DEF SendSkipped, Holding, IndInv
<1>2. UNCHANGED <<history, streamVars, encoder, receiver, now, nacks, auxVars>>
  BY DEF SendSkipped, boundVars
<1>3. /\ pacer' \in PacerType /\ QueueOK(pacer', Outside')
      /\ pacer'.list \subseteq pacer.list /\ pacer'.heap \subseteq pacer.heap
      /\ pacer'.packet_counter = pacer.packet_counter /\ pacer'.time_last_updated <= now'
      /\ current' \in Packets /\ process' \in {"idle", "TimeToSendPadding"} \cup Holding
      /\ current'.ssrc = (IF process' \in Holding THEN Ssrc ELSE 0)
      /\ Popped'
  BY <1>1, <1>2, SucceededEffect DEF streamVars
<1>4. /\ used' \in used..MaxPackets /\ now' \in now..MaxTime /\ nacks' \in nacks..MaxNacks
  BY <1>1, <1>2, Ranges DEF streamVars
<1> QED BY <1>2, <1>3, <1>4, QuietStep DEF streamVars, auxVars

\* The packet reaches the network: it is counted, and leaves the queue.
LEMMA StepSendDone == IndInv /\ SendDone => IndInv'
<1> SUFFICES ASSUME IndInv, SendDone PROVE IndInv'
  OBVIOUS
<1>1. process \in Holding /\ SendSucceeded(current)
  BY DEF SendDone, Holding
<1>2. Typed /\ QueueOK(pacer, Outside) /\ Held /\ InOrder /\ Popped /\ Budgeted /\ Waits
  BY DEF IndInv
<1>3. /\ UNCHANGED <<history, streamVars, encoder, receiver, now, nacks>>
      /\ UNCHANGED <<requested, resent_at, touched>>
  BY DEF SendDone, boundVars
<1>4. /\ pacer' \in PacerType /\ QueueOK(pacer', Outside')
      /\ current \in pacer.list /\ pacer'.list = pacer.list \ {current}
      /\ pacer'.heap \subseteq pacer.heap
      /\ pacer'.packet_counter = pacer.packet_counter /\ pacer'.time_last_updated <= now'
      /\ current' \in Packets /\ process' \in {"idle", "TimeToSendPadding"} \cup Holding
      /\ current'.ssrc = (IF process' \in Holding THEN Ssrc ELSE 0)
      /\ Popped'
  BY <1>1, <1>3, SucceededEffect DEF streamVars
<1>5. /\ used' \in used..MaxPackets /\ now' \in now..MaxTime /\ nacks' \in nacks..MaxNacks
      /\ used' = used /\ now' = now /\ first' = first /\ used \in Nat /\ now \in Nat
  BY <1>2, <1>3, Ranges, StateTypes DEF streamVars
<1>6. PICK seq \in Seqs : /\ seq = current.sequence_number /\ Position(seq) = Pos(first, seq)
                          /\ Pos(first, seq) \in Nat /\ Pos(first, seq) <= used
  BY <1>2, <1>4, StateTypes, Positions DEF InOrder
<1>7. sent' = [sent EXCEPT ![seq] = @ + 1] /\ sent \in [Seqs -> Nat] /\ sent' \in [Seqs -> Nat]
  BY <1>2, <1>6 DEF SendDone, Typed
<1>8. last_first' = IF current.retransmission THEN last_first ELSE Pos(first, seq)
  BY <1>6 DEF SendDone
<1>9. last_first' \in Nat /\ touched' \in SUBSET Seqs
  BY <1>2, <1>3, <1>6, <1>8 DEF Typed
<1>10. InOrder'
  <2>1. CASE current.retransmission
    <3>1. UNCHANGED <<first, last_first, encoder>>
      BY <1>3, <1>5, <1>8, <2>1
    <3> QED BY <1>2, <1>4, <1>5, <3>1, KeepInOrder
  <2>2. CASE ~current.retransmission
    <3>1. current \in Media(pacer) /\ last_first' = Pos(first, seq)
      BY <1>4, <1>8, <2>2 DEF Media
    <3>2. \A p \in Media(pacer') : last_first' < Pos(first, p.sequence_number)
      <4>1. \A p \in Media(pacer') : p \in Media(pacer) \ {current}
        BY <1>4 DEF Media
      <4> QED BY <1>1, <1>2, <1>6, <2>2, <3>1, <4>1 DEF Popped
    <3>3. encoder # None => last_first' < Pos(first, encoder.sequence_number)
      BY <1>2, <1>6, <3>1 DEF InOrder
    <3>4. last_first' <= used'
      BY <1>5, <1>6, <3>1
    <3> QED BY <1>2, <1>3, <1>4, <1>5, <3>2, <3>3, <3>4, KeepOrder
  <2> QED BY <2>1, <2>2
<1>11. Budgeted'
  <2> SUFFICES ASSUME NEW x \in Seqs
               PROVE  /\ sent'[x] + Copies(x)' <= 1 + requested[x]
                      /\ Pos(first, x) > used => sent'[x] = 0 /\ resent_at[x] = 0
    BY <1>3, <1>5 DEF Budgeted
  <2>1. sent[x] \in Nat /\ requested[x] \in Nat /\ Pos(first, x) \in Nat
    BY <1>2, StateTypes
  <2>2. /\ sent[x] + Copies(x) <= 1 + requested[x]
        /\ Pos(first, x) > used => sent[x] = 0 /\ resent_at[x] = 0
    BY <1>2 DEF Budgeted
  <2>3. CASE x = seq
    <3>1. \A p \in pacer'.list : p.sequence_number # seq
      <4>1. \A p \in pacer.list : p.ssrc = Ssrc /\ (Key(p) = Key(current) => p = current)
        BY <1>2, <1>4 DEF QueueOK
      <4>2. \A p \in pacer.list : p.sequence_number = seq => p = current
        BY <4>1, <1>4, <1>6, SameKey
      <4> QED BY <4>2, <1>4
    <3>2. \E p \in pacer.list : p.sequence_number = seq
      BY <1>4, <1>6
    <3>3. encoder' = encoder /\ receiver' = receiver
      BY <1>3
    <3>4. Copies(x) \in Nat /\ Copies(x)' \in Nat /\ Copies(x)' + 1 = Copies(x)
      BY <2>3, <3>1, <3>2, <3>3 DEF Copies, One
    <3>5. sent'[x] = sent[x] + 1
      BY <1>7, <2>3
    <3> QED BY <1>5, <1>6, <2>1, <2>2, <2>3, <3>4, <3>5
  <2>4. CASE x # seq
    <3>1. sent'[x] = sent[x]
      BY <1>7, <2>4
    <3>2. encoder' = encoder /\ receiver' = receiver /\ pacer'.list \subseteq pacer.list
      BY <1>3, <1>4
    <3>3. Copies(x) \in Nat /\ Copies(x)' \in Nat /\ Copies(x)' <= Copies(x)
      BY <3>2 DEF Copies, One
    <3> QED BY <2>1, <2>2, <3>1, <3>3
  <2> QED BY <2>3, <2>4
<1>12. Waits'
  BY <1>2, <1>3, <1>4, <1>9, KeepWaits
<1> QED BY <1>3, <1>4, <1>5, <1>7, <1>9, <1>10, <1>11, <1>12, ProcessStep

\* The transport refuses the packet: it goes back onto the heap.
LEMMA StepSendRefused == IndInv /\ SendRefused => IndInv'
<1> SUFFICES ASSUME IndInv, SendRefused PROVE IndInv'
  OBVIOUS
<1>1. process \in Holding
  BY DEF SendRefused, Holding
<1>2. Typed /\ QueueOK(pacer, Outside) /\ Clocks /\ Held /\ InOrder /\ Budgeted /\ Waits
  BY DEF IndInv
<1>3. /\ UNCHANGED <<history, streamVars, encoder, receiver, now, nacks>>
      /\ UNCHANGED <<sent, requested, resent_at, last_first>>
      /\ process' = "idle" /\ current' = None
      /\ touched' = touched \cup {current.sequence_number} /\ pacer' = CancelPop(pacer, current)
  BY DEF SendRefused, boundVars
<1>4. Outside = {current} /\ pacer \in PacerType /\ current.sequence_number \in Seqs
  BY <1>1, <1>2, OutsideIs, PacketFields DEF Typed
<1>5. /\ pacer' \in PacerType /\ QueueOK(pacer', {}) /\ pacer'.list = pacer.list
      /\ pacer'.heap = pacer.heap \cup {current}
      /\ pacer'.packet_counter = pacer.packet_counter
      /\ pacer'.time_last_updated = pacer.time_last_updated
  BY <1>2, <1>3, <1>4, PopEffect
<1>6. Outside' = {}
  BY <1>3, NoneType DEF Outside, Ssrc
<1>7. process' \notin Holding
  BY <1>3 DEF Holding
<1>8. /\ used' \in used..MaxPackets /\ now' \in now..MaxTime /\ nacks' \in nacks..MaxNacks
      /\ used' = used /\ now' = now /\ first' = first /\ used \in Nat /\ now \in Nat
  BY <1>2, <1>3, Ranges, StateTypes DEF streamVars
<1>9. InOrder'
  BY <1>2, <1>3, <1>5, <1>8, KeepInOrder
<1>10. Budgeted'
  BY <1>2, <1>3, <1>5, <1>8, KeepBudgeted
<1>11. sent' \in [Seqs -> Nat] /\ last_first' \in Nat /\ touched' \in SUBSET Seqs
  BY <1>2, <1>3, <1>4 DEF Typed
<1>12. Waits'
  <2>1. \A p \in PendingPackets' : p \in PendingPackets \/ p = current
    BY <1>3, <1>5 DEF PendingPackets
  <2>2. \A seq : Kept(seq) => Kept(seq)'
    BY <1>3 DEF Kept, Size
  <2>3. \A seq : seq = current.sequence_number => Kept(seq)'
    BY <1>3 DEF Kept
  <2>4. ASSUME NEW p \in PendingPackets' PROVE p.retransmission \/ Kept(p.sequence_number)'
    <3>1. CASE p = current
      BY <3>1, <2>3
    <3>2. CASE p \in PendingPackets
      BY <3>2, <1>2, <2>2 DEF Waits
    <3> QED BY <3>1, <3>2, <2>1
  <2>5. ~history.store => touched' = Seqs
    BY <1>2, <1>3, <1>11 DEF Waits
  <2>6. encoder # None =>
          /\ receiver # None /\ receiver.sequence_number = encoder.sequence_number
               => encoder.sequence_number \in touched'
          /\ \A p \in pacer'.list : p.sequence_number = encoder.sequence_number
               => encoder.sequence_number \in touched'
    BY <1>2, <1>3, <1>5 DEF Waits
  <2> QED BY <1>3, <2>4, <2>5, <2>6 DEF Waits
<1>13. /\ current' \in Packets /\ process' \in {"idle", "TimeToSendPadding"} \cup Holding
       /\ current'.ssrc = (IF process' \in Holding THEN Ssrc ELSE 0)
  BY <1>3, <1>7, NoneType
<1>14. Popped' /\ pacer'.time_last_updated <= now'
  BY <1>2, <1>5, <1>7, <1>8 DEF Popped, Clocks
<1> QED BY <1>3, <1>5, <1>6, <1>8, <1>9, <1>10, <1>11, <1>12, <1>13, <1>14, ProcessStep

LEMMA RangeNat == ASSUME NEW n PROVE 0..n \subseteq Nat
OBVIOUS

\* Padding uses the budgets, and Process ends.
LEMMA StepTimeToSendPadding == IndInv /\ TimeToSendPadding => IndInv'
<1> SUFFICES ASSUME IndInv, TimeToSendPadding PROVE IndInv'
  OBVIOUS
<1>1. process \notin Holding
  BY DEF TimeToSendPadding, Holding
<1>2. Typed /\ QueueOK(pacer, Outside) /\ Clocks /\ Held
  BY DEF IndInv
<1>3. /\ UNCHANGED <<history, first, encoder, receiver, now, nacks>>
      /\ UNCHANGED <<sent, requested, resent_at, last_first, touched>>
      /\ process' = "idle" /\ current' = None
  BY DEF TimeToSendPadding, boundVars
<1>4. PICK k \in Nat, n \in Nat :
        /\ used + n <= MaxPackets /\ used' = used + n
        /\ pacer' = IF k > 0 THEN BytesSent(pacer, k * PaddingBytes) ELSE pacer
  <2>1. PICK k \in Nat, refused \in Refuses \cup {FALSE} :
          \E numbers \in {IF refused THEN k + 1 ELSE k} :
            /\ used + numbers <= MaxPackets /\ used' = used + numbers
            /\ pacer' = IF k > 0 THEN BytesSent(pacer, k * PaddingBytes) ELSE pacer
    BY Zenon, RangeNat DEF TimeToSendPadding
  <2>2. (IF refused THEN k + 1 ELSE k) \in Nat
    OBVIOUS
  <2> QED BY <2>1, <2>2
<1>5. Outside = {} /\ pacer \in PacerType /\ used \in Nat /\ k * PaddingBytes \in Nat
  BY <1>1, <1>2, OutsideIs, StateTypes, Constants DEF Typed
<1>6. pacer' \in PacerType /\ SameQueue(pacer, pacer')
  <2>1. CASE k > 0
    BY <2>1, <1>4, <1>5, BytesSentSame
  <2>2. CASE ~(k > 0)
    BY <2>2, <1>4, <1>5 DEF SameQueue
  <2> QED BY <2>1, <2>2
<1>7. Outside' = {}
  BY <1>3, NoneType DEF Outside, Ssrc
<1>8. process' \notin Holding
  BY <1>3 DEF Holding
<1>9. QueueOK(pacer', Outside')
  BY <1>2, <1>5, <1>6, <1>7, SameQueueKept
<1>10. used' \in used..MaxPackets
  BY <1>4, <1>5, Constants
<1>11. now' \in now..MaxTime /\ nacks' \in nacks..MaxNacks
  BY <1>2, <1>3, Ranges
<1>12. /\ pacer'.list = pacer.list /\ pacer'.heap = pacer.heap
       /\ pacer'.packet_counter = pacer.packet_counter /\ pacer'.time_last_updated <= now'
  BY <1>2, <1>3, <1>6 DEF SameQueue, Clocks
<1>13. /\ current' \in Packets /\ process' \in {"idle", "TimeToSendPadding"} \cup Holding
       /\ current'.ssrc = (IF process' \in Holding THEN Ssrc ELSE 0)
  BY <1>3, <1>8, NoneType
<1>14. Popped'
  BY <1>8 DEF Popped
<1> QED BY <1>3, <1>6, <1>9, <1>10, <1>11, <1>12, <1>13, <1>14, QuietStep

-----------------------------------------------------------------------------
(* The steps that queue a packet.                                          *)

\* The pacer after InsertPacket, whichever thread calls it.
LEMMA EnqueueEffect ==
  ASSUME IndInv, NEW p \in Packets, p.ssrc = Ssrc, pacer.packet_counter < used + nacks,
         pacer' = InsertPacket(pacer, Enqueued(p)),
         UNCHANGED <<process, current, now>>
  PROVE  \E e \in Packets :
           /\ e.sequence_number = p.sequence_number /\ e.capture_time_ms = p.capture_time_ms
           /\ e.retransmission = p.retransmission /\ e.priority = p.priority
           /\ e.enqueue_order = pacer.packet_counter
           /\ pacer' \in PacerType /\ QueueOK(pacer', Outside')
           /\ pacer'.packet_counter = pacer.packet_counter + 1
           /\ pacer'.time_last_updated <= now'
           /\ \/ pacer'.list = pacer.list /\ pacer'.heap = pacer.heap
              \/ pacer'.list = pacer.list \cup {e} /\ pacer'.heap = pacer.heap \cup {e}
<1>1. Typed /\ QueueOK(pacer, Outside) /\ Clocks
  BY DEF IndInv
<1>2. /\ pacer \in PacerType /\ now \in 1..MaxTime /\ now \in Int
      /\ pacer.time_last_updated <= now /\ pacer.time_last_updated \in Int
      /\ pacer.packet_counter \in 0..MaxPackets + MaxNacks
  BY <1>1, StateTypes, Constants DEF Typed, Clocks
<1>3. PICK e \in Packets :
        /\ e = Enqueued(p) /\ e.ssrc = Ssrc /\ e.sequence_number = p.sequence_number
        /\ e.capture_time_ms = p.capture_time_ms /\ e.retransmission = p.retransmission
        /\ e.priority = p.priority /\ e.enqueue_time_ms = now
        /\ e.enqueue_order = pacer.packet_counter
  BY <1>2, EnqueuedType
<1>4. Outside' = Outside
  BY DEF Outside
<1>5. /\ pacer' \in PacerType /\ QueueOK(pacer', Outside)
      /\ pacer'.packet_counter = pacer.packet_counter + 1
      /\ pacer'.time_last_updated \in {pacer.time_last_updated, now}
      /\ \/ pacer'.list = pacer.list /\ pacer'.heap = pacer.heap
         \/ pacer'.list = pacer.list \cup {e} /\ pacer'.heap = pacer.heap \cup {e}
  BY <1>1, <1>2, <1>3, InsertEffect
<1> QED BY <1>2, <1>3, <1>4, <1>5

\* The encoder's thread queues the packet that it has stored.
LEMMA StepSendToNetworkEnqueues == IndInv /\ SendToNetworkEnqueues => IndInv'
<1> SUFFICES ASSUME IndInv, SendToNetworkEnqueues PROVE IndInv'
  OBVIOUS
<1>1. /\ Typed /\ Recorded /\ QueueOK(pacer, Outside) /\ Clocks /\ Held /\ Counted /\ InOrder
      /\ Popped /\ Budgeted /\ Waits /\ Slots(history)
  BY DEF IndInv
<1>2. /\ encoder # None /\ pacer' = InsertPacket(pacer, Enqueued(encoder)) /\ encoder' = None
      /\ UNCHANGED <<history, used, first, receiver, process, current, now, nacks>>
      /\ UNCHANGED <<sent, requested, resent_at, last_first, touched>>
  BY DEF SendToNetworkEnqueues, streamVars, boundVars, auxVars
<1>3. PICK m \in Packets :
        /\ m = encoder /\ m.ssrc = Ssrc /\ ~m.retransmission /\ m.priority = kNormalPriority
        /\ Pos(first, m.sequence_number) <= used /\ m.capture_time_ms <= now
        /\ last_first < Pos(first, m.sequence_number)
        /\ \A p \in Media(pacer) :
             /\ Pos(first, p.sequence_number) < Pos(first, m.sequence_number)
             /\ p.capture_time_ms <= m.capture_time_ms
        /\ Kept(m.sequence_number)
  BY <1>1, <1>2 DEF Typed, Held, InOrder, Waits, PendingPackets
<1>4. /\ first \in Seqs /\ used \in Nat /\ now \in Nat /\ nacks \in Nat /\ last_first \in Nat
      /\ pacer.packet_counter \in Nat
      /\ pacer.packet_counter + 1 + (IF receiver = None THEN 0 ELSE 1) <= used + nacks
  BY <1>1, <1>2, StateTypes DEF Counted
<1>5. PICK e \in Packets :
        /\ e.sequence_number = m.sequence_number /\ e.capture_time_ms = m.capture_time_ms
        /\ e.retransmission = m.retransmission /\ e.priority = m.priority
        /\ e.enqueue_order = pacer.packet_counter
        /\ pacer' \in PacerType /\ QueueOK(pacer', Outside')
        /\ pacer'.packet_counter = pacer.packet_counter + 1
        /\ pacer'.time_last_updated <= now'
        /\ \/ pacer'.list = pacer.list /\ pacer'.heap = pacer.heap
           \/ pacer'.list = pacer.list \cup {e} /\ pacer'.heap = pacer.heap \cup {e}
  <2>1. pacer.packet_counter < used + nacks /\ pacer' = InsertPacket(pacer, Enqueued(m))
    BY <1>2, <1>3, <1>4
  <2> QED BY <1>2, <1>3, <2>1, EnqueueEffect
<1>6. \A p \in Media(pacer') : p \in Media(pacer) \/ p = e
  BY <1>5 DEF Media
<1>7. Typed'
  BY <1>1, <1>2, <1>5, NoneType DEF Typed
<1>8. Slots(history)' /\ Clocks'
  BY <1>1, <1>2, <1>5 DEF Clocks
<1>9. Recorded'
  BY <1>1, <1>2, <1>4, KeepRecorded
<1>10. Held'
  BY <1>1, <1>2 DEF Held
<1>11. Counted'
  BY <1>2, <1>4, <1>5 DEF Counted
<1>12. InOrder'
  <2>1. \A p \in pacer'.list : Pos(first, p.sequence_number) <= used
    BY <1>1, <1>3, <1>5 DEF InOrder
  <2>2. \A p \in Media(pacer') :
          /\ p.priority = kNormalPriority /\ last_first < Pos(first, p.sequence_number)
          /\ p.capture_time_ms <= now
    BY <1>1, <1>3, <1>5, <1>6 DEF InOrder
  <2>3. ASSUME NEW p \in Media(pacer'), NEW q \in Media(pacer'),
               Pos(first, p.sequence_number) < Pos(first, q.sequence_number)
        PROVE  p.capture_time_ms <= q.capture_time_ms /\ p.enqueue_order < q.enqueue_order
    <3>1. CASE p \in Media(pacer) /\ q \in Media(pacer)
      BY <1>1, <2>3, <3>1 DEF InOrder
    <3>2. CASE p \in Media(pacer) /\ q = e
      <4>1. p.enqueue_order < pacer.packet_counter
        BY <1>1, <3>2 DEF QueueOK, Media
      <4> QED BY <1>3, <1>5, <3>2, <4>1
    <3>3. CASE p = e
      <4>1. Pos(first, q.sequence_number) <= Pos(first, m.sequence_number)
        <5>1. Pos(first, m.sequence_number) \in Nat
          BY <1>1, <1>3, StateTypes
        <5>2. q \in Media(pacer) => Pos(first, q.sequence_number) \in Nat
          BY <1>1, StateTypes DEF Media
        <5> QED BY <1>3, <1>5, <1>6, <5>1, <5>2
      <4>2. /\ Pos(first, m.sequence_number) \in Nat /\ Pos(first, q.sequence_number) \in Nat
            /\ Pos(first, m.sequence_number) < Pos(first, q.sequence_number)
        BY <1>1, <1>3, <1>5, <1>6, <2>3, <3>3, StateTypes DEF Media
      <4> QED BY <4>1, <4>2
    <3> QED BY <3>1, <3>2, <3>3, <1>6
  <2>4. last_first <= used
    BY <1>1 DEF InOrder
  <2> QED BY <1>2, <2>1, <2>2, <2>3, <2>4 DEF InOrder, Media
<1>13. Popped'
  <2> SUFFICES ASSUME process \in Holding, ~current.retransmission,
                      NEW p \in Media(pacer') \ {current}
               PROVE  Pos(first, current.sequence_number) < Pos(first, p.sequence_number)
    BY <1>2 DEF Popped, Media
  <2>1. CASE p \in Media(pacer)
    BY <1>1, <2>1 DEF Popped
  <2>2. CASE p = e
    <3>1. current \in Media(pacer)
      BY <1>1, OutsideIs DEF QueueOK, Media
    <3> QED BY <1>3, <1>5, <2>2, <3>1
  <2> QED BY <1>6, <2>1, <2>2
<1>14. Budgeted'
  <2> SUFFICES ASSUME NEW x \in Seqs
               PROVE  /\ sent[x] + Copies(x)' <= 1 + requested[x]
                      /\ Pos(first, x) > used => sent[x] = 0 /\ resent_at[x] = 0
    BY <1>2 DEF Budgeted
  <2>1. sent[x] \in Nat /\ requested[x] \in Nat
    BY <1>1, StateTypes
  <2>2. /\ sent[x] + Copies(x) <= 1 + requested[x]
        /\ Pos(first, x) > used => sent[x] = 0 /\ resent_at[x] = 0
    BY <1>1 DEF Budgeted
  <2>3. (\E p \in pacer'.list : p.sequence_number = x) =>
          (\E p \in pacer.list : p.sequence_number = x) \/ m.sequence_number = x
    BY <1>5
  <2>4. Copies(x) \in Nat /\ Copies(x)' \in Nat /\ Copies(x)' <= Copies(x)
    BY <1>2, <1>3, <2>3 DEF Copies, One
  <2> QED BY <2>1, <2>2, <2>4
<1>15. Waits'
  <2>1. \A seq : Kept(seq) => Kept(seq)'
    BY <1>2 DEF Kept, Size
  <2>2. ASSUME NEW p \in PendingPackets' PROVE p.retransmission \/ Kept(p.sequence_number)'
    <3>1. p \in pacer.heap \/ p = e
      BY <1>2, <1>5 DEF PendingPackets
    <3>2. CASE p \in pacer.heap
      BY <1>1, <2>1, <3>2 DEF Waits, PendingPackets
    <3>3. CASE p = e
      BY <1>3, <1>5, <2>1, <3>3
    <3> QED BY <3>1, <3>2, <3>3
  <2> QED BY <1>1, <1>2, <2>2 DEF Waits
<1> QED BY <1>5, <1>7, <1>8, <1>9, <1>10, <1>11, <1>12, <1>13, <1>14, <1>15 DEF IndInv

\* The receiver's thread queues the packet that it has found.
LEMMA StepReSendPacketEnqueues == IndInv /\ ReSendPacketEnqueues => IndInv'
<1> SUFFICES ASSUME IndInv, ReSendPacketEnqueues PROVE IndInv'
  OBVIOUS
<1>1. /\ Typed /\ Recorded /\ QueueOK(pacer, Outside) /\ Clocks /\ Held /\ Counted /\ InOrder
      /\ Popped /\ Budgeted /\ Waits /\ Slots(history)
  BY DEF IndInv
<1>2. /\ receiver # None /\ pacer' = InsertPacket(pacer, Enqueued(receiver)) /\ receiver' = None
      /\ UNCHANGED <<history, used, first, encoder, process, current, now, nacks>>
      /\ UNCHANGED <<sent, requested, resent_at, last_first, touched>>
  BY DEF ReSendPacketEnqueues, streamVars, boundVars, auxVars
<1>3. PICK m \in Packets : /\ m = receiver /\ m.ssrc = Ssrc /\ m.retransmission
                           /\ Pos(first, m.sequence_number) <= used
  BY <1>1, <1>2 DEF Typed, Held
<1>4. /\ first \in Seqs /\ used \in Nat /\ now \in Nat /\ nacks \in Nat
      /\ pacer.packet_counter \in Nat
      /\ pacer.packet_counter + 1 + (IF encoder = None THEN 0 ELSE 1) <= used + nacks
  BY <1>1, <1>2, StateTypes DEF Counted
<1>5. PICK e \in Packets :
        /\ e.sequence_number = m.sequence_number /\ e.retransmission
        /\ pacer' \in PacerType /\ QueueOK(pacer', Outside')
        /\ pacer'.packet_counter = pacer.packet_counter + 1
        /\ pacer'.time_last_updated <= now'
        /\ \/ pacer'.list = pacer.list /\ pacer'.heap = pacer.heap
           \/ pacer'.list = pacer.list \cup {e} /\ pacer'.heap = pacer.heap \cup {e}
  <2>1. pacer.packet_counter < used + nacks /\ pacer' = InsertPacket(pacer, Enqueued(m))
    BY <1>2, <1>3, <1>4
  <2> QED BY <1>2, <1>3, <2>1, EnqueueEffect
<1>6. Media(pacer') = Media(pacer)
  BY <1>5 DEF Media
<1>7. Typed'
  BY <1>1, <1>2, <1>5, NoneType DEF Typed
<1>8. Slots(history)' /\ Clocks'
  BY <1>1, <1>2, <1>5 DEF Clocks
<1>9. Recorded'
  BY <1>1, <1>2, <1>4, KeepRecorded
<1>10. Held'
  BY <1>1, <1>2 DEF Held
<1>11. Counted'
  BY <1>2, <1>4, <1>5 DEF Counted
<1>12. InOrder'
  <2>1. \A p \in pacer'.list : Pos(first, p.sequence_number) <= used
    BY <1>1, <1>3, <1>5 DEF InOrder
  <2>2. Media(pacer)' = Media(pacer)
    BY <1>6 DEF Media
  <2> QED BY <1>1, <1>2, <2>1, <2>2 DEF InOrder
<1>13. Popped'
  <2>1. Media(pacer)' = Media(pacer)
    BY <1>6 DEF Media
  <2> QED BY <1>1, <1>2, <2>1 DEF Popped
<1>14. Budgeted'
  <2> SUFFICES ASSUME NEW x \in Seqs
               PROVE  /\ sent[x] + Copies(x)' <= 1 + requested[x]
                      /\ Pos(first, x) > used => sent[x] = 0 /\ resent_at[x] = 0
    BY <1>2 DEF Budgeted
  <2>1. sent[x] \in Nat /\ requested[x] \in Nat
    BY <1>1, StateTypes
  <2>2. /\ sent[x] + Copies(x) <= 1 + requested[x]
        /\ Pos(first, x) > used => sent[x] = 0 /\ resent_at[x] = 0
    BY <1>1 DEF Budgeted
  <2>3. (\E p \in pacer'.list : p.sequence_number = x) =>
          (\E p \in pacer.list : p.sequence_number = x) \/ m.sequence_number = x
    BY <1>5
  <2>4. Copies(x) \in Nat /\ Copies(x)' \in Nat /\ Copies(x)' <= Copies(x)
    BY <1>2, <1>3, <2>3 DEF Copies, One
  <2> QED BY <2>1, <2>2, <2>4
<1>15. Waits'
  <2>1. \A seq : Kept(seq) => Kept(seq)'
    BY <1>2 DEF Kept, Size
  <2>2. ASSUME NEW p \in PendingPackets' PROVE p.retransmission \/ Kept(p.sequence_number)'
    <3>1. p \in PendingPackets \/ p = e
      BY <1>2, <1>5 DEF PendingPackets
    <3>2. CASE p \in PendingPackets
      BY <1>1, <2>1, <3>2 DEF Waits
    <3>3. CASE p = e
      BY <1>5, <3>3
    <3> QED BY <3>1, <3>2, <3>3
  <2>3. encoder # None =>
          \A p \in pacer'.list : p.sequence_number = encoder.sequence_number
            => encoder.sequence_number \in touched
    BY <1>1, <1>2, <1>3, <1>5 DEF Waits
  <2> QED BY <1>1, <1>2, <2>2, <2>3 DEF Waits
<1> QED BY <1>5, <1>7, <1>8, <1>9, <1>10, <1>11, <1>12, <1>13, <1>14, <1>15 DEF IndInv

-----------------------------------------------------------------------------
(* The steps that write to the history.                                    *)

\* A step that leaves the pacer and the clock alone.
LEMMA HistoryStep ==
  ASSUME IndInv, UNCHANGED <<pacer, current, first, now>>,
         process' \in Holding <=> process \in Holding
  PROVE  QueueOK(pacer, Outside)' /\ Popped' /\ pacer' \in PacerType /\ current' \in Packets
<1>1. Typed /\ QueueOK(pacer, Outside) /\ Popped
  BY DEF IndInv
<1>2. Outside' = Outside
  BY DEF Outside
<1>3. QueueOK(pacer, Outside)'
  BY <1>1, <1>2
<1>4. Popped'
  BY <1>1 DEF Popped, Media
<1> QED BY <1>1, <1>3, <1>4 DEF Typed

\* GetPacketAndSetSendTime has found the packet with number seq in slot i.
LEMMA MarkEffect ==
  ASSUME Typed, Slots(history), NEW seq \in Seqs, NEW least \in Nat, NEW r \in BOOLEAN,
         NEW i \in Getting(history, seq, least, r, now),
         history' = SetSendTime(history, i, r, now)
  PROVE  \E n \in 0..kMaxHistoryCapacity :
           /\ history' \in HistoryOf(n) /\ Slots(history') /\ history'.store /\ history.store
           /\ DOMAIN history.packets = 0..n-1 /\ DOMAIN history'.packets = 0..n-1
           /\ Size(history) = n /\ Size(history') = n
           /\ i \in 0..n-1 /\ history.packets[i].stored
           /\ history.packets[i].sequence_number = seq
           /\ history.packets[i].time_ms \in 0..MaxTime
           /\ MayGet(history, i, least, r, now)
           /\ \A j \in (0..n-1) \ {i} : history'.packets[j] = history.packets[j]
           /\ \A j \in (0..n-1) \ {i} : history.packets[j].stored =>
                                          history.packets[j].sequence_number # seq
           /\ history'.packets[i].stored
           /\ history'.packets[i].sequence_number = seq
           /\ history'.packets[i].send_time = now
           /\ history'.packets[i].has_been_retransmitted =
                (history.packets[i].has_been_retransmitted \/ r)
<1>1. PICK n \in 0..kMaxHistoryCapacity :
        /\ history \in HistoryOf(n) /\ n \in Nat /\ Size(history) = n
        /\ DOMAIN history.packets = 0..n-1
        /\ \A j \in 0..n-1 : history.packets[j].time_ms \in 0..MaxTime
  BY HistoryTypes
<1>2. history.store /\ i \in FindSeqNum(history, seq) /\ MayGet(history, i, least, r, now)
  BY DEF Getting
<1>3. i \in 0..n-1 /\ history.packets[i].sequence_number = seq
  BY <1>1, <1>2, FindEffect
<1>4. history.packets[i].stored
  BY <1>2 DEF MayGet
<1>5. now \in 0..MaxTime
  BY Constants DEF Typed
<1>6. PICK g : g = SetSendTime(history, i, r, now)
  OBVIOUS
<1>7. /\ g \in HistoryOf(n) /\ Slots(g) /\ g.store = history.store
      /\ \A j \in (0..n-1) \ {i} : g.packets[j] = history.packets[j]
      /\ g.packets[i].stored = history.packets[i].stored
      /\ g.packets[i].sequence_number = history.packets[i].sequence_number
      /\ g.packets[i].send_time = now
      /\ g.packets[i].has_been_retransmitted = (history.packets[i].has_been_retransmitted \/ r)
  BY <1>1, <1>3, <1>5, <1>6, SetSendTimeEffect
<1>8. Size(g) = n /\ DOMAIN g.packets = 0..n-1
  BY <1>1, <1>7, SizeOf
<1>9. \A j \in (0..n-1) \ {i} : history.packets[j].stored => history.packets[j].sequence_number # seq
  BY <1>1, <1>3, <1>4 DEF Slots
<1>10. g.store /\ g.packets[i].stored
  BY <1>2, <1>4, <1>7
<1>11. history' = g
  BY <1>6
<1> QED BY <1>1, <1>2, <1>3, <1>4, <1>7, <1>8, <1>9, <1>10, <1>11

\* The callback looks the packet up and marks it as sent.
LEMMA StepTimeToSendPacket == IndInv /\ TimeToSendPacket => IndInv'
<1> SUFFICES ASSUME IndInv, TimeToSendPacket PROVE IndInv'
  OBVIOUS
<1>1. /\ Typed /\ Recorded /\ QueueOK(pacer, Outside) /\ Clocks /\ Held /\ Counted /\ InOrder
      /\ Popped /\ Budgeted /\ Waits /\ Slots(history)
  BY DEF IndInv
<1>2. /\ UNCHANGED <<pacer, used, first, encoder, receiver, current, now, nacks>>
      /\ UNCHANGED <<sent, requested, resent_at, last_first, touched>>
  BY DEF TimeToSendPacket, streamVars, boundVars, auxVars
<1>3. /\ process \in Holding /\ process' \in Holding
      /\ \/ UNCHANGED history
         \/ \E i \in Getting(history, current.sequence_number, 0, current.retransmission, now) :
              history' = SetSendTime(history, i, current.retransmission, now)
  BY DEF TimeToSendPacket, Holding
<1>4. QueueOK(pacer, Outside)' /\ Popped' /\ pacer' \in PacerType /\ current' \in Packets
  BY <1>2, <1>3, HistoryStep
<1>5. current'.ssrc = (IF process' \in Holding THEN Ssrc ELSE 0)
  BY <1>1, <1>2, <1>3 DEF Held
<1>6. CASE UNCHANGED history
  <2>1. /\ used' \in used..MaxPackets /\ now' \in now..MaxTime /\ nacks' \in nacks..MaxNacks
        /\ pacer'.time_last_updated <= now' /\ pacer'.list = pacer.list /\ pacer'.heap = pacer.heap
        /\ pacer'.packet_counter = pacer.packet_counter
    BY <1>1, <1>2, Ranges DEF Clocks
  <2> QED BY <1>2, <1>3, <1>4, <1>5, <1>6, <2>1, QuietStep
<1>7. CASE \E i \in Getting(history, current.sequence_number, 0, current.retransmission, now) :
             history' = SetSendTime(history, i, current.retransmission, now)
  <2>1. PICK seq \in Seqs : seq = current.sequence_number
    BY <1>1, PacketFields DEF Typed
  <2>2. PICK r \in BOOLEAN : r = current.retransmission
    BY <1>1, PacketFields DEF Typed
  <2>3. PICK i \in Getting(history, seq, 0, r, now) : history' = SetSendTime(history, i, r, now)
    BY <1>7, <2>1, <2>2
  <2>4. PICK n \in 0..kMaxHistoryCapacity :
           /\ history' \in HistoryOf(n) /\ Slots(history') /\ history'.store /\ history.store
           /\ DOMAIN history.packets = 0..n-1 /\ DOMAIN history'.packets = 0..n-1
           /\ Size(history) = n /\ Size(history') = n
           /\ i \in 0..n-1 /\ history.packets[i].stored
           /\ history.packets[i].sequence_number = seq
           /\ \A j \in (0..n-1) \ {i} : history'.packets[j] = history.packets[j]
           /\ \A j \in (0..n-1) \ {i} : history.packets[j].stored =>
                                          history.packets[j].sequence_number # seq
           /\ history'.packets[i].stored
           /\ history'.packets[i].sequence_number = seq
           /\ history'.packets[i].send_time = now
           /\ history'.packets[i].has_been_retransmitted =
                (history.packets[i].has_been_retransmitted \/ r)
    BY <1>1, <2>3, MarkEffect
  <2>5. Typed'
    BY <1>1, <1>2, <1>3, <1>4, <2>4 DEF Typed, HistoryTyped
  <2>6. Recorded'
    <3> SUFFICES ASSUME NEW j \in 0..n-1, history'.packets[j].stored
                 PROVE  LET p == history'.packets[j]
                        IN  /\ Pos(first, p.sequence_number) <= used
                            /\ resent_at[p.sequence_number] > 0 =>
                                 /\ p.has_been_retransmitted
                                 /\ p.send_time >= resent_at[p.sequence_number]
      BY <1>2, <2>4 DEF Recorded
    <3>1. CASE j # i
      BY <1>1, <2>4, <3>1 DEF Recorded
    <3>2. CASE j = i
      <4>1. /\ Pos(first, seq) <= used
            /\ resent_at[seq] > 0 => history.packets[i].has_been_retransmitted
        BY <1>1, <2>4 DEF Recorded
      <4>2. now >= resent_at[seq]
        BY <1>1, StateTypes DEF Clocks
      <4> QED BY <2>4, <3>2, <4>1, <4>2
    <3> QED BY <3>1, <3>2
  <2>7. Slots(history)' /\ Clocks' /\ Counted' /\ InOrder' /\ Budgeted'
    <3>1. Slots(history)' /\ Clocks' /\ Counted'
      BY <1>1, <1>2, <2>4 DEF Clocks, Counted
    <3>2. InOrder'
      BY <1>1, <1>2 DEF InOrder, Media
    <3>3. Budgeted'
      BY <1>1, <1>2 DEF Budgeted, Copies
    <3> QED BY <3>1, <3>2, <3>3
  <2>8. Held'
    BY <1>1, <1>2, <1>5 DEF Held
  <2>9. Waits'
    <3>1. ASSUME NEW x \in Seqs, x # seq, Kept(x) PROVE Kept(x)'
      BY <1>2, <2>4, <3>1 DEF Kept
    <3>2. ASSUME NEW p \in PendingPackets' PROVE p.retransmission \/ Kept(p.sequence_number)'
      <4>1. p \in PendingPackets /\ p \in Packets /\ p.sequence_number \in Seqs
        BY <1>1, <1>2, StateTypes DEF PendingPackets, Typed
      <4>2. CASE p.sequence_number # seq
        BY <1>1, <3>1, <4>1, <4>2 DEF Waits
      <4>3. CASE p.sequence_number = seq
        <5>1. current \in pacer.list /\ current \notin pacer.heap /\ pacer.heap \subseteq pacer.list
          BY <1>1, <1>3, OutsideIs DEF QueueOK
        <5>2. p \notin pacer.heap
          <6>1. ASSUME p \in pacer.heap PROVE FALSE
            <7>1. p \in pacer.list /\ p.ssrc = current.ssrc /\ (Key(p) = Key(current) => p = current)
              BY <1>1, <5>1, <6>1 DEF QueueOK
            <7>2. p = current
              BY <7>1, <2>1, <4>3, SameKey
            <7> QED BY <5>1, <6>1, <7>2
          <6> QED BY <6>1
        <5>3. encoder # None /\ p = encoder
          BY <4>1, <5>2 DEF PendingPackets
        <5>4. seq \in touched
          BY <1>1, <2>1, <4>3, <5>1, <5>3 DEF Waits
        <5> QED BY <1>2, <4>3, <5>4 DEF Kept
      <4> QED BY <4>2, <4>3
    <3> QED BY <1>1, <1>2, <2>4, <3>2 DEF Waits
  <2> QED BY <1>4, <2>5, <2>6, <2>7, <2>8, <2>9 DEF IndInv
<1> QED BY <1>3, <1>6, <1>7

\* What ReSendPacket does when it finds the packet in slot i.
Finds(seq, i) ==
  /\ i \in Getting(history, seq, MinResendMs, TRUE, now)
  /\ history' = SetSendTime(history, i, TRUE, now)
  /\ receiver' = Packet(kHighPriority, seq, history.packets[i].time_ms, TRUE)
  /\ requested' = [requested EXCEPT ![seq] = @ + 1]
  /\ resent_at' = [resent_at EXCEPT ![seq] = now]
  /\ touched' = IF Waiting(seq) THEN touched \cup {seq} ELSE touched

\* A NACK finds its packet, or changes nothing but the count of NACKs.
LEMMA ReSendCases ==
  ASSUME NEW seq \in Seqs, ReSendPacket(seq)
  PROVE  /\ receiver = None /\ nacks < MaxNacks /\ nacks' = nacks + 1
         /\ UNCHANGED <<pacer, used, first, encoder, process, current, now>>
         /\ UNCHANGED <<sent, last_first>>
         /\ \/ UNCHANGED <<history, receiver, requested, resent_at, touched>>
            \/ \E i : Finds(seq, i)
BY DEF ReSendPacket, Finds, streamVars

\* A NACK: the packet found is marked, remembered and held for the pacer.
LEMMA StepReSendPacket ==
  ASSUME IndInv, NEW seq \in Seqs, ReSendPacket(seq)
  PROVE  IndInv'
<1>1. /\ Typed /\ Recorded /\ QueueOK(pacer, Outside) /\ Clocks /\ Held /\ Counted /\ InOrder
      /\ Popped /\ Budgeted /\ Waits /\ Slots(history)
  BY DEF IndInv
<1>2. /\ receiver = None /\ nacks < MaxNacks /\ nacks' = nacks + 1
      /\ UNCHANGED <<pacer, used, first, encoder, process, current, now>>
      /\ UNCHANGED <<sent, last_first>>
  BY ReSendCases
<1>3. QueueOK(pacer, Outside)' /\ Popped' /\ pacer' \in PacerType /\ current' \in Packets
  BY <1>2, HistoryStep
<1>4. /\ nacks' \in nacks..MaxNacks /\ nacks' \in 0..MaxNacks /\ nacks \in Nat /\ used \in Nat
      /\ now \in Nat /\ pacer.packet_counter \in Nat
  BY <1>1, <1>2, StateTypes, Constants
<1>5. CASE UNCHANGED <<history, receiver, requested, resent_at, touched>>
  <2>1. /\ used' \in used..MaxPackets /\ now' \in now..MaxTime
        /\ pacer'.time_last_updated <= now' /\ pacer'.list = pacer.list /\ pacer'.heap = pacer.heap
        /\ pacer'.packet_counter = pacer.packet_counter
        /\ process' \in {"idle", "TimeToSendPadding"} \cup Holding
        /\ current'.ssrc = (IF process' \in Holding THEN Ssrc ELSE 0)
    BY <1>1, <1>2, Ranges DEF Clocks, Held
  <2> QED BY <1>2, <1>3, <1>4, <1>5, <2>1, QuietStep
<1>6. CASE \E i : Finds(seq, i)
  <2>1. PICK i : Finds(seq, i)
    BY <1>6
  <2>a. PICK r \in BOOLEAN : r = TRUE
    OBVIOUS
  <2>2. PICK n \in 0..kMaxHistoryCapacity :
           /\ history' \in HistoryOf(n) /\ Slots(history') /\ history'.store /\ history.store
           /\ DOMAIN history.packets = 0..n-1 /\ DOMAIN history'.packets = 0..n-1
           /\ Size(history) = n /\ Size(history') = n
           /\ i \in 0..n-1 /\ history.packets[i].stored
           /\ history.packets[i].sequence_number = seq
           /\ history.packets[i].time_ms \in 0..MaxTime
           /\ \A j \in (0..n-1) \ {i} : history'.packets[j] = history.packets[j]
           /\ \A j \in (0..n-1) \ {i} : history.packets[j].stored =>
                                          history.packets[j].sequence_number # seq
           /\ history'.packets[i].stored
           /\ history'.packets[i].sequence_number = seq
           /\ history'.packets[i].send_time = now
           /\ history'.packets[i].has_been_retransmitted =
                (history.packets[i].has_been_retransmitted \/ r)
    <3>1. MinResendMs \in Nat
      BY Constants
    <3>2. /\ i \in Getting(history, seq, MinResendMs, r, now)
          /\ history' = SetSendTime(history, i, r, now)
      BY <2>1, <2>a DEF Finds
    <3> QED BY <1>1, <3>1, <3>2, MarkEffect
  <2>b. history'.packets[i].has_been_retransmitted
    BY <2>2, <2>a
  <2>3. PICK m \in Packets : /\ m = receiver' /\ m # None /\ m.ssrc = Ssrc /\ m.retransmission
                             /\ m.sequence_number = seq
    <3>1. PICK t \in 0..MaxTime : t = history.packets[i].time_ms
      BY <2>2
    <3>2. receiver' = Packet(kHighPriority, seq, t, r)
      BY <2>1, <2>a, <3>1 DEF Finds
    <3> QED BY ZenonT(40), <2>a, <3>2, PacketType
  <2>4. /\ requested' = [requested EXCEPT ![seq] = @ + 1] /\ requested \in [Seqs -> Nat]
        /\ resent_at' = [resent_at EXCEPT ![seq] = now] /\ resent_at \in [Seqs -> Nat]
        /\ touched' = IF Waiting(seq) THEN touched \cup {seq} ELSE touched
        /\ touched \in SUBSET Seqs
    BY <1>1, <2>1 DEF Finds, Typed
  <2>5. /\ requested' \in [Seqs -> Nat] /\ resent_at' \in [Seqs -> Nat]
        /\ requested'[seq] = requested[seq] + 1 /\ resent_at'[seq] = now
        /\ \A x \in Seqs : x # seq => requested'[x] = requested[x] /\ resent_at'[x] = resent_at[x]
        /\ touched \subseteq touched' /\ touched' \subseteq Seqs
    BY <1>4, <2>4
  <2>6. Pos(first, seq) <= used
    BY <1>1, <2>2 DEF Recorded
  <2>7. Typed'
    BY <1>1, <1>2, <1>3, <1>4, <2>2, <2>3, <2>5 DEF Typed, HistoryTyped
  <2>8. Recorded'
    <3> SUFFICES ASSUME NEW j \in 0..n-1, history'.packets[j].stored
                 PROVE  LET p == history'.packets[j]
                        IN  /\ Pos(first, p.sequence_number) <= used
                            /\ resent_at'[p.sequence_number] > 0 =>
                                 /\ p.has_been_retransmitted
                                 /\ p.send_time >= resent_at'[p.sequence_number]
      BY <1>2, <2>2 DEF Recorded
    <3>1. CASE j # i
      <4>1. history'.packets[j] = history.packets[j] /\ history.packets[j].stored
        BY <2>2, <3>1
      <4>2. history.packets[j].sequence_number \in Seqs /\ history.packets[j].sequence_number # seq
        BY <1>1, <2>2, <3>1, <4>1, HistoryTypes
      <4>3. resent_at'[history.packets[j].sequence_number] =
              resent_at[history.packets[j].sequence_number]
        BY <4>2, <2>5
      <4> QED BY <1>1, <2>2, <4>1, <4>3 DEF Recorded
    <3>2. CASE j = i
      <4>1. now >= resent_at'[seq]
        BY <1>4, <2>5
      <4> QED BY <2>2, <2>b, <2>6, <3>2, <4>1
    <3> QED BY <3>1, <3>2
  <2>9. Slots(history)' /\ Clocks' /\ Counted'
    <3>1. Clocks'
      <4>1. \A x \in Seqs : resent_at'[x] <= now
        BY <1>1, <1>4, <2>5 DEF Clocks
      <4> QED BY <1>1, <1>2, <4>1 DEF Clocks
    <3>2. Counted'
      <4>1. pacer.packet_counter + (IF encoder = None THEN 0 ELSE 1) <= used + nacks
        BY <1>1, <1>2, <1>4 DEF Counted
      <4>2. /\ pacer'.packet_counter = pacer.packet_counter /\ used' = used
            /\ (encoder' = None <=> encoder = None) /\ receiver' # None
        BY <1>2, <2>3
      <4> QED BY <1>2, <1>4, <4>1, <4>2 DEF Counted
    <3> QED BY <2>2, <3>1, <3>2
  <2>10. Held'
    BY <1>1, <1>2, <2>3, <2>6 DEF Held
  <2>11. InOrder'
    BY <1>1, <1>2 DEF InOrder, Media
  <2>12. Budgeted'
    <3> SUFFICES ASSUME NEW x \in Seqs
                 PROVE  /\ sent[x] + Copies(x)' <= 1 + requested'[x]
                        /\ Pos(first, x) > used => sent[x] = 0 /\ resent_at'[x] = 0
      BY <1>2 DEF Budgeted
    <3>1. sent[x] \in Nat /\ requested[x] \in Nat /\ Pos(first, x) \in Nat
      BY <1>1, StateTypes
    <3>2. /\ sent[x] + Copies(x) <= 1 + requested[x]
          /\ Pos(first, x) > used => sent[x] = 0 /\ resent_at[x] = 0
      BY <1>1 DEF Budgeted
    <3>3. CASE x = seq
      <4>1. Copies(x) \in Nat /\ Copies(x)' \in Nat /\ Copies(x)' <= Copies(x) + 1
        BY <1>2 DEF Copies, One
      <4> QED BY <1>4, <2>5, <2>6, <3>1, <3>2, <3>3, <4>1
    <3>4. CASE x # seq
      <4>1. Copies(x) \in Nat /\ Copies(x)' \in Nat /\ Copies(x)' <= Copies(x)
        BY <1>2, <2>3, <3>4 DEF Copies, One
      <4> QED BY <2>5, <3>1, <3>2, <3>4, <4>1
    <3> QED BY <3>3, <3>4
  <2>13. Waits'
    <3>1. ASSUME NEW x \in Seqs, x # seq, Kept(x) PROVE Kept(x)'
      BY <2>2, <2>5, <3>1 DEF Kept
    <3>2. ASSUME NEW p \in PendingPackets' PROVE p.retransmission \/ Kept(p.sequence_number)'
      <4>1. p \in PendingPackets /\ p \in Packets /\ p.sequence_number \in Seqs
        BY <1>1, <1>2, StateTypes DEF PendingPackets, Typed
      <4>2. CASE p.sequence_number # seq
        BY <1>1, <3>1, <4>1, <4>2 DEF Waits
      <4>3. CASE p.sequence_number = seq /\ ~p.retransmission
        <5>1. Waiting(seq)
          BY <4>1, <4>3 DEF Waiting, PendingPackets
        <5> QED BY <2>4, <4>3, <5>1 DEF Kept
      <4> QED BY <4>2, <4>3
    <3>3. encoder # None /\ encoder.sequence_number = seq => seq \in touched'
      BY <2>4 DEF Waiting
    <3>4. encoder # None =>
            /\ m.sequence_number = encoder.sequence_number => encoder.sequence_number \in touched'
            /\ \A p \in pacer.list : p.sequence_number = encoder.sequence_number
                 => encoder.sequence_number \in touched'
      BY <1>1, <2>3, <2>5, <3>3 DEF Waits
    <3> QED BY <1>2, <2>2, <2>3, <3>2, <3>4 DEF Waits
  <2> QED BY <1>3, <2>7, <2>8, <2>9, <2>10, <2>11, <2>12, <2>13 DEF IndInv
<1> QED BY <1>5, <1>6, ReSendCases

\* SetStorePacketsStatus frees the slots and may allocate new ones.
LEMMA StepSetStatus ==
  ASSUME IndInv, NEW enable \in BOOLEAN, NEW c \in Capacities, SetStatus(enable, c)
  PROVE  IndInv'
<1>1. /\ Typed /\ Recorded /\ QueueOK(pacer, Outside) /\ Clocks /\ Held /\ Counted /\ InOrder
      /\ Popped /\ Budgeted /\ Waits /\ Slots(history)
  BY DEF IndInv
<1>2. /\ history' = SetStorePacketsStatus(history, enable, c) /\ touched' = Seqs
      /\ UNCHANGED <<pacer, used, first, encoder, receiver, process, current, now, nacks>>
      /\ UNCHANGED <<sent, requested, resent_at, last_first>>
  BY DEF SetStatus, streamVars
<1>3. QueueOK(pacer, Outside)' /\ Popped' /\ pacer' \in PacerType /\ current' \in Packets
  BY <1>2, HistoryStep
<1>4. PICK n \in 0..kMaxHistoryCapacity : history \in HistoryOf(n)
  BY <1>1 DEF Typed, HistoryTyped
<1>5. PICK m \in 0..kMaxHistoryCapacity :
        /\ history' \in HistoryOf(m) /\ Slots(history')
        /\ \A i \in 0..m-1 : ~history'.packets[i].stored
  BY <1>1, <1>2, <1>4, StatusEffect
<1>6. m \in Nat /\ DOMAIN history'.packets = 0..m-1
  BY <1>5, SizeOf, Constants
<1>7. Typed'
  BY <1>1, <1>2, <1>5 DEF Typed, HistoryTyped
<1>8. Recorded'
  BY <1>5, <1>6 DEF Recorded
<1>9. Slots(history)' /\ Clocks' /\ Counted' /\ Held'
  BY <1>1, <1>2, <1>5 DEF Clocks, Counted, Held
<1>10. InOrder'
  BY <1>1, <1>2 DEF InOrder, Media
<1>11. Budgeted'
  BY <1>1, <1>2 DEF Budgeted, Copies
<1>12. Waits'
  <2>1. \A x \in Seqs : Kept(x)' /\ x \in touched'
    BY <1>2 DEF Kept
  <2>2. \A p \in PendingPackets' : p.sequence_number \in Seqs
    BY <1>1, <1>2, StateTypes DEF PendingPackets, Typed
  <2>3. encoder' # None => encoder'.sequence_number \in Seqs
    BY <1>1, <1>2, StateTypes DEF Typed
  <2> QED BY <1>2, <2>1, <2>2, <2>3 DEF Waits
<1> QED BY <1>3, <1>7, <1>8, <1>9, <1>10, <1>11, <1>12 DEF IndInv

\* PutRTPPacket keeps what waits, and the new packet.
LEMMA PutStep ==
  ASSUME Typed, Slots(history), Waits, NEW seq \in Seqs, NEW r \in BOOLEAN,
         \A i \in DOMAIN history.packets :
           history.packets[i].stored => history.packets[i].sequence_number # seq,
         history' = PutRTPPacket(history, seq, now, r), touched' = touched
  PROVE  /\ HistoryTyped(history') /\ Slots(history')
         /\ ~history'.store => touched = Seqs
         /\ \A j \in DOMAIN history'.packets :
              history'.packets[j].stored =>
                \/ history'.packets[j].sequence_number = seq
                \/ j \in DOMAIN history.packets /\ history'.packets[j] = history.packets[j]
         /\ Kept(seq)' /\ \A x : Kept(x) => Kept(x)'
<1>1. PICK n \in 0..kMaxHistoryCapacity : /\ history \in HistoryOf(n) /\ n \in Nat
                                          /\ Size(history) = n /\ DOMAIN history.packets = 0..n-1
  BY HistoryTypes
<1>2. now \in 0..MaxTime
  BY Constants DEF Typed
<1>3. CASE ~history.store
  <2>1. history' = history /\ touched = Seqs
    BY <1>3 DEF PutRTPPacket, Waits
  <2>2. Kept(seq)' /\ \A x : Kept(x) => Kept(x)'
    BY <2>1 DEF Kept, Size
  <2> QED BY <2>1, <2>2, <1>1 DEF HistoryTyped
<1>4. CASE history.store
  <2>1. PICK m \in n..kMaxHistoryCapacity : \E k \in 0..m-1 :
          Puts(history, n, PutRTPPacket(history, seq, now, r), m, k, NewPacket(seq, now, r))
    BY <1>1, <1>2, <1>4, PutEffect
  <2>2. PICK k \in 0..m-1 : Puts(history, n, history', m, k, NewPacket(seq, now, r))
    BY <2>1
  <2>3. PICK p : p = NewPacket(seq, now, r)
    OBVIOUS
  <2>4. p.stored /\ p.sequence_number = seq /\ p.send_time = 0
    BY <2>3 DEF NewPacket
  <2>5. /\ history' \in HistoryOf(m) /\ history'.store /\ Slots(history')
        /\ history'.packets[k] = p
        /\ \A i \in (0..m-1) \ {k} :
             history'.packets[i] = IF i < n THEN history.packets[i] ELSE DefaultPacket
        /\ \/ n = kMaxHistoryCapacity \/ k >= n
           \/ ~history.packets[k].stored \/ history.packets[k].send_time # 0
    BY <2>2, <2>3 DEF Puts
  <2>6. m \in Nat /\ n <= m /\ m <= kMaxHistoryCapacity /\ m \in 0..kMaxHistoryCapacity
    BY <1>1, Constants
  <2>7. DOMAIN history'.packets = 0..m-1 /\ Size(history') = m
    BY <2>5, <2>6, SizeOf
  <2>8. ASSUME NEW j \in 0..m-1, history'.packets[j].stored
        PROVE  \/ history'.packets[j].sequence_number = seq
               \/ j \in 0..n-1 /\ history'.packets[j] = history.packets[j]
    <3>1. CASE j = k
      BY <2>4, <2>5, <3>1
    <3>2. CASE j # k
      <4>1. history'.packets[j] = IF j < n THEN history.packets[j] ELSE DefaultPacket
        BY <2>5, <3>2
      <4>2. j < n
        BY <2>8, <4>1 DEF DefaultPacket
      <4> QED BY <4>1, <4>2, <1>1
    <3> QED BY <3>1, <3>2
  <2>9. Kept(seq)'
    BY <2>4, <2>5, <2>7 DEF Kept
  <2>10. ASSUME NEW x, Kept(x) PROVE Kept(x)'
    <3>1. CASE x \in touched
      BY <3>1 DEF Kept
    <3>2. CASE n = kMaxHistoryCapacity
      <4>1. Size(history') = kMaxHistoryCapacity
        BY <2>6, <2>7, <3>2, Constants
      <4> QED BY <4>1 DEF Kept
    <3>3. CASE x \notin touched /\ n # kMaxHistoryCapacity
      <4>1. PICK i \in 0..n-1 : /\ history.packets[i].stored
                                /\ history.packets[i].sequence_number = x
                                /\ history.packets[i].send_time = 0
        BY <1>1, <2>10, <3>3 DEF Kept
      <4>2. i # k /\ i \in 0..m-1 /\ i < n
        BY <1>1, <2>5, <2>6, <3>3, <4>1
      <4>3. history'.packets[i] = history.packets[i]
        BY <2>5, <4>2
      <4> QED BY <2>7, <4>1, <4>2, <4>3 DEF Kept
    <3> QED BY <3>1, <3>2, <3>3
  <2> QED BY <1>1, <2>5, <2>6, <2>7, <2>8, <2>9, <2>10 DEF HistoryTyped
<1> QED BY <1>3, <1>4

\* A packet that cannot be stored only uses its number.
LEMMA StepSendToNetworkFails == IndInv /\ SendToNetworkFails => IndInv'
<1> SUFFICES ASSUME IndInv, SendToNetworkFails PROVE IndInv'
  OBVIOUS
<1>1. Typed /\ QueueOK(pacer, Outside) /\ Clocks /\ Held /\ Popped
  BY DEF IndInv
<1>2. /\ used < MaxPackets /\ used' = used + 1
      /\ UNCHANGED <<history, first, pacer, encoder, receiver, process, current, now, nacks>>
      /\ UNCHANGED <<sent, requested, resent_at, last_first, touched>>
  BY DEF SendToNetworkFails, boundVars, auxVars
<1>3. used \in Nat /\ used' \in used..MaxPackets
  BY <1>1, <1>2, StateTypes, Constants
<1>4. now' \in now..MaxTime /\ nacks' \in nacks..MaxNacks
  BY <1>1, <1>2, Ranges
<1>5. QueueOK(pacer, Outside)' /\ Popped' /\ pacer' \in PacerType /\ current' \in Packets
  BY <1>2, HistoryStep
<1>6. /\ pacer'.list = pacer.list /\ pacer'.heap = pacer.heap
      /\ pacer'.packet_counter = pacer.packet_counter /\ pacer'.time_last_updated <= now'
  BY <1>1, <1>2 DEF Clocks
<1>7. /\ process' \in {"idle", "TimeToSendPadding"} \cup Holding
      /\ current'.ssrc = (IF process' \in Holding THEN Ssrc ELSE 0)
  BY <1>1, <1>2 DEF Typed, Held
<1> QED BY <1>2, <1>3, <1>4, <1>5, <1>6, <1>7, QuietStep

\* The encoder's thread stores the next packet of the stream.
LEMMA StepSendToNetwork ==
  ASSUME IndInv, NEW r \in Retransmittable, SendToNetwork(r)
  PROVE  IndInv'
<1>1. /\ Typed /\ Recorded /\ QueueOK(pacer, Outside) /\ Clocks /\ Held /\ Counted /\ InOrder
      /\ Popped /\ Budgeted /\ Waits /\ Slots(history)
  BY DEF IndInv
<1>2. /\ encoder = None /\ used < MaxPackets /\ used' = used + 1
      /\ UNCHANGED <<first, pacer, receiver, process, current, now, nacks>>
      /\ UNCHANGED <<sent, requested, resent_at, last_first, touched>>
  BY DEF SendToNetwork, boundVars, auxVars
<1>3. /\ used \in Nat /\ used' \in Nat /\ used' \in 0..MaxPackets /\ used <= used'
      /\ used + 1 \in 1..MaxPackets /\ first \in Seqs /\ nacks \in Nat /\ now \in Nat
      /\ pacer.packet_counter \in Nat /\ last_first \in Nat
  BY <1>1, <1>2, StateTypes, Constants
<1>4. PICK seq \in Seqs : seq = Seq(used + 1) /\ Pos(first, seq) = used + 1
  BY <1>3, Positions
<1>5. PICK t \in 0..MaxTime : t = now
  BY <1>1, Constants DEF Typed
<1>6. PICK m \in Packets :
        /\ m = encoder' /\ m # None /\ m.ssrc = Ssrc /\ m.sequence_number = seq
        /\ m.capture_time_ms = now /\ ~m.retransmission /\ m.priority = kNormalPriority
  <2>1. PICK f \in BOOLEAN : f = FALSE
    OBVIOUS
  <2>2. encoder' = Packet(kNormalPriority, seq, t, f)
    BY <1>4, <1>5, <2>1 DEF SendToNetwork
  <2> QED BY <1>5, <2>1, <2>2, PacketType
<1>7. \A x \in Seqs : Pos(first, x) <= used => x # seq
  BY <1>3, <1>4
<1>8. \A i \in DOMAIN history.packets :
        history.packets[i].stored => history.packets[i].sequence_number # seq
  <2>1. \A i \in DOMAIN history.packets : history.packets[i].sequence_number \in Seqs
    BY <1>1, HistoryTypes
  <2> QED BY <1>1, <1>7, <2>1 DEF Recorded
<1>9. /\ HistoryTyped(history') /\ Slots(history')
      /\ ~history'.store => touched = Seqs
      /\ \A j \in DOMAIN history'.packets :
           history'.packets[j].stored =>
             \/ history'.packets[j].sequence_number = seq
             \/ j \in DOMAIN history.packets /\ history'.packets[j] = history.packets[j]
      /\ Kept(seq)' /\ \A x : Kept(x) => Kept(x)'
  <2>1. history' = PutRTPPacket(history, seq, now, r) /\ r \in BOOLEAN
    BY <1>4, Constants DEF SendToNetwork
  <2> QED BY <1>1, <1>2, <1>8, <2>1, PutStep
<1>10. QueueOK(pacer, Outside)' /\ Popped' /\ pacer' \in PacerType /\ current' \in Packets
  BY <1>2, HistoryStep
<1>11. Typed'
  BY <1>1, <1>2, <1>3, <1>6, <1>9 DEF Typed
<1>12. Recorded'
  <2> SUFFICES ASSUME NEW j \in DOMAIN history'.packets, history'.packets[j].stored
               PROVE  LET p == history'.packets[j]
                      IN  /\ Pos(first, p.sequence_number) <= used'
                          /\ resent_at[p.sequence_number] > 0 =>
                               /\ p.has_been_retransmitted
                               /\ p.send_time >= resent_at[p.sequence_number]
    BY <1>2 DEF Recorded
  <2>1. CASE history'.packets[j].sequence_number = seq
    <3>1. Pos(first, seq) <= used' /\ resent_at[seq] = 0
      BY <1>1, <1>2, <1>3, <1>4 DEF Budgeted
    <3> QED BY <2>1, <3>1
  <2>2. CASE j \in DOMAIN history.packets /\ history'.packets[j] = history.packets[j]
    <3>1. history.packets[j].sequence_number \in Seqs
      BY <1>1, <2>2, HistoryTypes
    <3>2. /\ Pos(first, history.packets[j].sequence_number) \in Nat
          /\ Pos(first, history.packets[j].sequence_number) <= used
      BY <1>1, <2>2, <3>1, StateTypes DEF Recorded
    <3> QED BY <1>1, <1>3, <2>2, <3>2 DEF Recorded
  <2> QED BY <1>9, <2>1, <2>2
<1>13. Slots(history)' /\ Clocks'
  BY <1>1, <1>2, <1>9 DEF Clocks
<1>14. Counted'
  <2>1. pacer.packet_counter + (IF receiver = None THEN 0 ELSE 1) <= used + nacks
    BY <1>1, <1>2, <1>3 DEF Counted
  <2>2. /\ pacer'.packet_counter = pacer.packet_counter /\ nacks' = nacks
        /\ (receiver' = None <=> receiver = None) /\ encoder' # None
    BY <1>2, <1>6
  <2> QED BY <1>2, <1>3, <2>1, <2>2 DEF Counted
<1>15. Held'
  <2>1. receiver # None => Pos(first, receiver.sequence_number) <= used'
    <3>1. Pos(first, receiver.sequence_number) \in Nat
      BY <1>1, StateTypes DEF Typed
    <3> QED BY <1>1, <1>3, <3>1 DEF Held
  <2>2. Pos(first, m.sequence_number) <= used' /\ m.capture_time_ms <= now
    BY <1>2, <1>3, <1>4, <1>6
  <2> QED BY <1>1, <1>2, <1>6, <2>1, <2>2 DEF Held
<1>16. InOrder'
  <2>1. \A p \in pacer.list : Pos(first, p.sequence_number) \in Nat /\ p.capture_time_ms \in Nat
    BY <1>1, StateTypes
  <2>2. last_first <= used /\ \A p \in pacer.list : Pos(first, p.sequence_number) <= used
    BY <1>1 DEF InOrder
  <2>3. last_first <= used' /\ \A p \in pacer.list : Pos(first, p.sequence_number) <= used'
    BY <1>2, <1>3, <2>1, <2>2
  <2>4. last_first < Pos(first, m.sequence_number)
    BY <1>3, <1>4, <1>6, <2>2
  <2>5. \A p \in Media(pacer) : /\ Pos(first, p.sequence_number) < Pos(first, m.sequence_number)
                                /\ p.capture_time_ms <= m.capture_time_ms
    <3>1. \A p \in Media(pacer) : p \in pacer.list /\ p.capture_time_ms <= now
      BY <1>1 DEF InOrder, Media
    <3> QED BY <1>3, <1>4, <1>6, <2>1, <2>2, <3>1
  <2>6. Media(pacer)' = Media(pacer)
    BY <1>2 DEF Media
  <2> QED BY <1>1, <1>2, <1>6, <2>3, <2>4, <2>5, <2>6 DEF InOrder
<1>17. Budgeted'
  <2> SUFFICES ASSUME NEW x \in Seqs
               PROVE  /\ sent[x] + Copies(x)' <= 1 + requested[x]
                      /\ Pos(first, x) > used' => sent[x] = 0 /\ resent_at[x] = 0
    BY <1>2 DEF Budgeted
  <2>1. sent[x] \in Nat /\ requested[x] \in Nat /\ Pos(first, x) \in Nat
    BY <1>1, StateTypes
  <2>2. /\ sent[x] + Copies(x) <= 1 + requested[x]
        /\ Pos(first, x) > used => sent[x] = 0 /\ resent_at[x] = 0
    BY <1>1 DEF Budgeted
  <2>3. CASE x = seq
    <3>1. sent[x] = 0
      BY <1>3, <1>4, <2>2, <2>3
    <3>2. ~(receiver # None /\ receiver.sequence_number = x)
      <4>1. receiver # None => Pos(first, receiver.sequence_number) <= used
                               /\ receiver.sequence_number \in Seqs
        BY <1>1, StateTypes DEF Held, Typed
      <4> QED BY <1>7, <2>3, <4>1
    <3>3. \A p \in pacer.list : p.sequence_number # x
      BY <1>1, <1>7, <2>3, StateTypes DEF InOrder
    <3>4. Copies(x)' = 1
      BY <1>2, <1>6, <2>3, <3>2, <3>3 DEF Copies, One
    <3> QED BY <1>3, <2>1, <2>2, <3>1, <3>4
  <2>4. CASE x # seq
    <3>1. Copies(x) \in Nat /\ Copies(x)' = Copies(x)
      BY <1>2, <1>6, <2>4 DEF Copies, One
    <3> QED BY <1>2, <1>3, <2>1, <2>2, <3>1
  <2> QED BY <2>3, <2>4
<1>18. Waits'
  <2>1. ASSUME NEW p \in PendingPackets' PROVE p.retransmission \/ Kept(p.sequence_number)'
    <3>1. p \in pacer.heap \/ p = m
      BY <1>2, <1>6 DEF PendingPackets
    <3>2. CASE p \in pacer.heap
      BY <1>1, <1>9, <3>2 DEF Waits, PendingPackets
    <3>3. CASE p = m
      BY <1>6, <1>9, <3>3
    <3> QED BY <3>1, <3>2, <3>3
  <2>2. ~(receiver # None /\ receiver.sequence_number = seq)
    <3>1. receiver # None => Pos(first, receiver.sequence_number) <= used
                             /\ receiver.sequence_number \in Seqs
      BY <1>1, StateTypes DEF Held, Typed
    <3> QED BY <1>7, <3>1
  <2>3. \A p \in pacer.list : p.sequence_number # seq
    BY <1>1, <1>7, StateTypes DEF InOrder
  <2> QED BY <1>2, <1>6, <1>9, <2>1, <2>2, <2>3 DEF Waits
<1> QED BY <1>10, <1>11, <1>12, <1>13, <1>14, <1>15, <1>16, <1>17, <1>18 DEF IndInv

-----------------------------------------------------------------------------
(* The invariant.                                                          *)

\* The invariant holds initially.
LEMMA InitInd == Init => IndInv
<1> SUFFICES ASSUME Init PROVE IndInv
  OBVIOUS
<1>1. PICK n \in Capacities :
        history = Allocated([store |-> FALSE, prev_index |-> 0, packets |-> NoPackets], n)
  BY DEF Init
<1>2. /\ history \in HistoryOf(n) /\ Slots(history) /\ history.store
      /\ n \in 1..kMaxHistoryCapacity /\ \A i \in 0..n-1 : ~history.packets[i].stored
  BY <1>1, EmptyHistory
<1>3. n \in 0..kMaxHistoryCapacity /\ DOMAIN history.packets = 0..n-1
  BY <1>2, SizeOf, Constants
<1>4. /\ used = 0 /\ first \in Seqs /\ encoder = None /\ receiver = None /\ process = "idle"
      /\ current = None /\ now = 1 /\ nacks = 0 /\ last_first = 0 /\ touched = {}
      /\ sent \in [Seqs -> Nat] /\ requested \in [Seqs -> Nat] /\ resent_at \in [Seqs -> Nat]
      /\ \A x \in Seqs : sent[x] = 0 /\ requested[x] = 0 /\ resent_at[x] = 0
  BY Constants DEF Init
<1>5. PICK probing \in Probing : pacer = PacedSenderInit(probing, InitialBitrate, MinBitrate, 1)
  BY DEF Init
<1>6. /\ pacer \in PacerType /\ QueueOK(pacer, {}) /\ pacer.list = {} /\ pacer.heap = {}
      /\ pacer.packet_counter = 0 /\ pacer.time_last_updated = 1
  BY <1>5, PacerInit, Constants
<1>7. Typed
  BY <1>2, <1>3, <1>4, <1>6, NoneType, Constants DEF Typed, HistoryTyped
<1>8. Recorded
  BY <1>2, <1>3 DEF Recorded
<1>9. process \notin Holding
  BY <1>4 DEF Holding
<1>10. Held
  BY <1>4, <1>9, NoneType DEF Held
<1>11. QueueOK(pacer, Outside)
  BY <1>6, <1>9, <1>10, OutsideIs
<1>12. Clocks /\ Counted /\ InOrder /\ Popped
  BY <1>4, <1>6, <1>9 DEF Clocks, Counted, InOrder, Popped, Media
<1>13. Budgeted
  BY <1>4, <1>6 DEF Budgeted, Copies, One
<1>14. Waits
  BY <1>2, <1>4, <1>6 DEF Waits, PendingPackets
<1> QED BY <1>2, <1>7, <1>8, <1>10, <1>11, <1>12, <1>13, <1>14 DEF IndInv

\* A stuttering step keeps it.
LEMMA StepStutter == IndInv /\ UNCHANGED vars => IndInv'
<1> SUFFICES ASSUME IndInv, UNCHANGED vars PROVE IndInv'
  OBVIOUS
<1>1. pacer' \in PacerType /\ SameQueue(pacer, pacer')
  BY DEF IndInv, Typed, SameQueue, vars
<1> QED BY <1>1, SameQueueStep DEF vars, boundVars

\* Every step keeps it.
LEMMA StepInd == IndInv /\ [Next]_vars => IndInv'
<1> SUFFICES ASSUME IndInv, [Next]_vars PROVE IndInv'
  OBVIOUS
<1>1. ASSUME NEW r \in Retransmittable, SendToNetwork(r) PROVE IndInv'
  BY <1>1, StepSendToNetwork
<1>2. CASE SendToNetworkEnqueues
  BY <1>2, StepSendToNetworkEnqueues
<1>3. ASSUME NEW seq \in Seqs, ReSendPacket(seq) PROVE IndInv'
  BY <1>3, StepReSendPacket
<1>4. CASE ReSendPacketEnqueues
  BY <1>4, StepReSendPacketEnqueues
<1>5. CASE Process
  BY <1>5, StepProcess
<1>6. CASE TimeToSendPacket
  BY <1>6, StepTimeToSendPacket
<1>7. CASE SendSkipped
  BY <1>7, StepSendSkipped
<1>8. CASE SendDone
  BY <1>8, StepSendDone
<1>9. CASE SendRefused
  BY <1>9, StepSendRefused
<1>10. CASE TimeToSendPadding
  BY <1>10, StepTimeToSendPadding
<1>11. CASE TimeUntilNextProcess
  BY <1>11, StepTimeUntilNextProcess
<1>12. CASE AverageQueueTime
  BY <1>12, StepAverageQueueTime
<1>13. ASSUME NEW paused \in BOOLEAN, SetPaused(paused) PROVE IndInv'
  BY <1>13, StepSetPaused
<1>14. ASSUME NEW rate \in Bitrates, UpdateBitrate(rate) PROVE IndInv'
  BY <1>14, StepUpdateBitrate
<1>15. ASSUME NEW enable \in BOOLEAN, NEW n \in Capacities, SetStatus(enable, n) PROVE IndInv'
  BY <1>15, StepSetStatus
<1>16. CASE Tick
  BY <1>16, StepTick
<1>17. CASE UNCHANGED vars
  BY <1>17, StepStutter
<1>18. CASE SendToNetworkFails
  BY <1>18, StepSendToNetworkFails
<1> QED BY <1>1, <1>2, <1>3, <1>4, <1>5, <1>6, <1>7, <1>8, <1>9, <1>10, <1>11, <1>12, <1>13,
          <1>14, <1>15, <1>16, <1>17, <1>18 DEF Next

\* The inductive invariant holds in every reachable state: history, queue, threads
\* and counters agree, whatever the threads of RTPSender and PacedSender do.
THEOREM Invariance == Spec => []IndInv
<1>1. Init => IndInv
  BY InitInd
<1>2. IndInv /\ [Next]_vars => IndInv'
  BY StepInd
<1> QED BY <1>1, <1>2, PTL DEF Spec

-----------------------------------------------------------------------------
(* What follows from it.                                                   *)

\* The types of the model.
LEMMA TypeFollows == IndInv => TypeOK
<1> SUFFICES ASSUME IndInv PROVE TypeOK
  OBVIOUS
<1>1. Typed /\ Slots(history) /\ QueueOK(pacer, Outside)
  BY DEF IndInv
<1>2. PICK n \in 0..kMaxHistoryCapacity : /\ history \in HistoryOf(n) /\ n \in Nat
                                          /\ Size(history) = n /\ DOMAIN history.packets = 0..n-1
  BY <1>1, HistoryTypes
<1>3. IsHistory(history, 0..MaxTime)
  <2>1. DOMAIN history = {"store", "prev_index", "packets"}
    BY <1>2 DEF HistoryOf
  <2>2. history.packets \in [0..Size(history)-1 -> StoredPacketType(0..MaxTime)]
    BY <1>2, SizeOf DEF StoredType
  <2>3. Size(history) <= kMaxHistoryCapacity
    BY <1>2, Constants
  <2>4. ~history.store => Size(history) = 0
    <3>1. ASSUME ~history.store PROVE n = 0
      <4>1. 0..n-1 = {}
        BY <1>1, <1>2, <3>1 DEF Slots
      <4> QED BY <1>2, <4>1
    <3> QED BY <1>2, <3>1
  <2> QED BY <1>1, <2>1, <2>2, <2>3, <2>4 DEF IsHistory, Slots
<1>4. /\ pacer \in PacerType /\ pacer.list \in SUBSET Packets /\ pacer.heap \in SUBSET Packets
      /\ pacer.time_last_updated \in Int /\ IsFiniteSet(pacer.list)
      /\ pacer.bytes = BytesOf(pacer.list)
      /\ pacer.queue_time_sum = TimesOf(pacer.list, pacer.time_last_updated)
      /\ \A p \in pacer.list : p.enqueue_time_ms <= pacer.time_last_updated
  BY <1>1, PacerFields DEF Typed, QueueOK
<1>5. pacer.bytes \in Nat /\ pacer.queue_time_sum \in Nat
  BY <1>4, BytesAdded, TimesAdded
<1>6. /\ pacer.media_budget.bytes_remaining \in Int
      /\ pacer.prober.state \in {"kDisabled", "kProbing", "kWait"}
      /\ pacer.prober.probes \in 0..NumProbes
  BY <1>4, PacerFields DEF BudgetType
<1>7. /\ {encoder, receiver, current} \subseteq Packets
      /\ process \in {"idle", "TimeToSendPacket", "not found", "SendPacketToNetwork",
                      "TimeToSendPadding"}
      /\ used \in 0..MaxPackets /\ first \in Seqs /\ now \in 1..MaxTime
  BY <1>1 DEF Typed, Holding
<1> QED BY <1>3, <1>4, <1>5, <1>6, <1>7 DEF TypeOK

\* Type correctness of the history, the pacer and the threads' places
\* (RTPPacketHistory, PacedSender, RTPSender): in particular the two sums of
\* PacketQueue, of which bytes_ is unsigned, never go below zero.
THEOREM TypeCorrect == Spec => []TypeOK
BY Invariance, TypeFollows, PTL

\* QueueConsistent is what QueueOK says, in the words of the queue alone.
LEMMA QueueFollows == IndInv => QueueConsistent
<1> SUFFICES ASSUME IndInv PROVE QueueConsistent
  OBVIOUS
<1>1. QueueOK(pacer, Outside)
  BY DEF IndInv
<1>2. /\ pacer.heap = pacer.list \ Outside /\ Outside \subseteq pacer.list
      /\ pacer.dupe = {Key(p) : p \in pacer.list}
      /\ IsFiniteSet(pacer.list) /\ \A p, q \in pacer.list : Key(p) = Key(q) => p = q
  BY <1>1 DEF QueueOK
<1>3. Cardinality(pacer.dupe) = Cardinality(pacer.list)
  BY <1>2, KeysCount
<1>4. pacer.bytes = SumFunction([p \in pacer.list |-> p.bytes])
  BY <1>1 DEF QueueOK, BytesOf
<1>5. pacer.queue_time_sum =
        SumFunction([p \in pacer.list |-> pacer.time_last_updated - p.enqueue_time_ms])
  BY <1>1 DEF QueueOK, TimesOf
<1> QED BY <1>2, <1>3, <1>4, <1>5 DEF QueueConsistent

\* PacketQueue's list, heap, set of duplicates and sums agree in every state, also
\* while Process is outside its critical section with a popped packet
\* (paced_sender.cc: Push, BeginPop, CancelPop, FinalizePop, UpdateQueueTime).
THEOREM QueueAlwaysConsistent == Spec => []QueueConsistent
BY Invariance, QueueFollows, PTL

\* A packet that is kept is found: its slot is in the history.
LEMMA PendingFollows == IndInv => PendingStored
<1> SUFFICES ASSUME IndInv, NEW p \in PendingPackets
             PROVE  \/ p.retransmission \/ p.sequence_number \in touched
                    \/ Size(history) = kMaxHistoryCapacity
                    \/ Stored(history, p.sequence_number)
  BY DEF PendingStored
<1>1. p.retransmission \/ Kept(p.sequence_number)
  BY DEF IndInv, Waits
<1> QED BY <1>1 DEF Kept, Stored

\* A packet that waits in the pacer and was never marked as sent is in the history
\* until the history has its largest size or is purged, however small it was
\* allocated and however many packets are stored meanwhile (rtp_packet_history.cc:
\* the expansion in PutRTPPacket).  It says nothing of a packet marked while it
\* waits, by a NACK or by a send that the transport refused.
THEOREM PendingAlwaysStored == Spec => []PendingStored
BY Invariance, PendingFollows, PTL

\* A stored packet is found: the guess of FindSeqNum may fail, the search over all
\* slots does not.
LEMMA FindsFollows == IndInv => FindsStored
<1> SUFFICES ASSUME IndInv, NEW seq \in Seqs
             PROVE  HasRTPPacket(history, seq) <=> Stored(history, seq)
  BY DEF FindsStored
<1>1. Typed /\ Slots(history)
  BY DEF IndInv
<1>2. PICK n \in Nat : history \in HistoryOf(n) /\ DOMAIN history.packets = 0..n-1
  BY <1>1, HistoryTypes
<1>3. CASE history.store
  <2>1. /\ \A i \in FindSeqNum(history, seq) :
             i \in 0..n-1 /\ history.packets[i].sequence_number = seq
        /\ \A i \in 0..n-1 : history.packets[i].stored /\ history.packets[i].sequence_number = seq
             => i \in FindSeqNum(history, seq)
    BY <1>1, <1>2, <1>3, FindEffect
  <2> QED BY <1>2, <1>3, <2>1 DEF HasRTPPacket, Stored
<1>4. CASE ~history.store
  BY <1>1, <1>4 DEF HasRTPPacket, Stored, Slots
<1> QED BY <1>3, <1>4

\* FindSeqNum's guess and its search find a packet exactly if it is stored, for
\* every order that expansions, padding and wrapping numbers leave in the slots
\* (rtp_packet_history.cc: FindSeqNum).
THEOREM StoredAlwaysFound == Spec => []FindsStored
BY Invariance, FindsFollows, PTL

\* Copies is never negative.
LEMMA OnceFollows == IndInv => SentOncePerRequest
<1> SUFFICES ASSUME IndInv, NEW seq \in Seqs PROVE sent[seq] <= 1 + requested[seq]
  BY DEF SentOncePerRequest
<1>1. Typed /\ Budgeted
  BY DEF IndInv
<1>2. sent[seq] \in Nat /\ requested[seq] \in Nat /\ Copies(seq) \in Nat
  BY <1>1, StateTypes DEF Copies, One
<1>3. sent[seq] + Copies(seq) <= 1 + requested[seq]
  BY <1>1 DEF Budgeted
<1> QED BY <1>2, <1>3

\* A packet reaches the transport at most once, and once more for every NACK that
\* found it, for every interleaving of the three threads and every refusal of the
\* transport (paced_sender.cc: dupe_map_, BeginPop, CancelPop).
THEOREM NothingSentUnasked == Spec => []SentOncePerRequest
BY Invariance, OnceFollows, PTL

\* What Process holds is after the last packet sent.
LEMMA OrderFollows == IndInv /\ [Next]_vars => (last_first' # last_first => last_first' > last_first)
<1> SUFFICES ASSUME IndInv, [Next]_vars, last_first' # last_first PROVE last_first' > last_first
  OBVIOUS
<1>1. SendDone
  BY DEF Next, vars, SendToNetwork, SendToNetworkFails, SendToNetworkEnqueues, ReSendPacket,
         ReSendPacketEnqueues,
         Process, TimeToSendPacket, SendSkipped, SendRefused, TimeToSendPadding,
         TimeUntilNextProcess, AverageQueueTime, SetPaused, UpdateBitrate, SetStatus, Tick, auxVars
<1>2. Typed /\ QueueOK(pacer, Outside) /\ Held /\ InOrder
  BY DEF IndInv
<1>3. process \in Holding /\ ~current.retransmission
      /\ last_first' = Position(current.sequence_number)
  BY <1>1 DEF SendDone, Holding
<1>4. current \in Media(pacer) /\ current.sequence_number \in Seqs
  BY <1>2, <1>3, OutsideIs, StateTypes DEF QueueOK, Media, Typed
<1>5. last_first < Pos(first, current.sequence_number)
  BY <1>2, <1>4 DEF InOrder
<1>6. /\ Position(current.sequence_number) = Pos(first, current.sequence_number)
      /\ Pos(first, current.sequence_number) \in Nat /\ last_first \in Nat
  BY <1>2, <1>4, Positions, StateTypes
<1> QED BY <1>3, <1>5, <1>6

\* Packets leave, retransmissions not counted, in the order of their sequence
\* numbers: the top of the priority queue is the first of the media packets, and a
\* refused packet goes back before those that came after it (paced_sender.cc:
\* Comparator).
THEOREM FirstSendsInOrder == Spec => MediaInOrder
<1>1. IndInv /\ [Next]_vars => [last_first' # last_first => last_first' > last_first]_vars
  BY OrderFollows
<1> QED BY <1>1, Invariance, PTL DEF Spec, MediaInOrder

\* A NACK for a packet marked less than the minimal time ago is ignored.
LEMMA SpacedFollows ==
  IndInv /\ [Next]_vars =>
    \A seq \in Seqs : requested'[seq] # requested[seq] /\ resent_at[seq] > 0
                        => now - resent_at[seq] >= MinResendMs
<1> SUFFICES ASSUME IndInv, [Next]_vars, NEW seq \in Seqs, requested'[seq] # requested[seq],
                    resent_at[seq] > 0
             PROVE  now - resent_at[seq] >= MinResendMs
  OBVIOUS
<1>1. PICK x \in Seqs : ReSendPacket(x)
  BY DEF Next, vars, SendToNetwork, SendToNetworkFails, SendToNetworkEnqueues,
         ReSendPacketEnqueues,
         Process, TimeToSendPacket, SendSkipped, SendDone, SendRefused, TimeToSendPadding,
         TimeUntilNextProcess, AverageQueueTime, SetPaused, UpdateBitrate, SetStatus, Tick, auxVars
<1>2. Typed /\ Slots(history) /\ Recorded /\ Clocks
  BY DEF IndInv
<1>3. PICK i : Finds(x, i)
  BY <1>1, ReSendCases
<1>4. x = seq
  <2>1. requested \in [Seqs -> Nat] /\ requested' = [requested EXCEPT ![x] = @ + 1]
    BY <1>2, <1>3 DEF Typed, Finds
  <2> QED BY <2>1
<1>5. PICK r \in BOOLEAN : r = TRUE
  OBVIOUS
<1>6. /\ i \in DOMAIN history.packets /\ history.packets[i].stored
      /\ history.packets[i].sequence_number = seq /\ history.packets[i].send_time \in Nat
      /\ MayGet(history, i, MinResendMs, r, now)
  <2>1. i \in Getting(history, seq, MinResendMs, r, now)
    BY <1>3, <1>4, <1>5 DEF Finds
  <2>2. history.store /\ i \in FindSeqNum(history, seq) /\ MayGet(history, i, MinResendMs, r, now)
    BY <2>1 DEF Getting
  <2>3. PICK n \in Nat : /\ history \in HistoryOf(n) /\ DOMAIN history.packets = 0..n-1
                         /\ \A j \in 0..n-1 : history.packets[j].send_time \in Nat
    BY <1>2, HistoryTypes
  <2>4. i \in 0..n-1 /\ history.packets[i].sequence_number = seq
    BY <1>2, <2>2, <2>3, FindEffect
  <2>5. history.packets[i].stored
    BY <2>2 DEF MayGet
  <2> QED BY <2>2, <2>3, <2>4, <2>5
<1>7. /\ history.packets[i].has_been_retransmitted
      /\ history.packets[i].send_time >= resent_at[seq]
  BY <1>2, <1>6 DEF Recorded
<1>8. /\ resent_at[seq] \in Nat /\ now \in Nat /\ resent_at[seq] <= now /\ MinResendMs \in Nat
  BY <1>2, StateTypes, Constants DEF Clocks
<1>9. MinResendMs = 0 \/ now - history.packets[i].send_time >= MinResendMs
  <2>1. ~ /\ MinResendMs > 0 /\ r
          /\ history.packets[i].has_been_retransmitted
          /\ now - history.packets[i].send_time < MinResendMs
    BY <1>6 DEF MayGet
  <2> QED BY <1>5, <1>6, <1>7, <1>8, <2>1
<1> QED BY <1>6, <1>7, <1>8, <1>9

\* Between two retransmissions of a packet at least 5 ms and the round-trip time
\* pass, although the pacer's own sending moves the send time that is compared
\* (rtp_packet_history.cc: GetPacketAndSetSendTime).
THEOREM ResendsAlwaysSpaced == Spec => ResendSpaced
<1>1. IndInv /\ [Next]_vars =>
        [\A seq \in Seqs : requested'[seq] # requested[seq] /\ resent_at[seq] > 0
                             => now - resent_at[seq] >= MinResendMs]_vars
  BY SpacedFollows
<1> QED BY <1>1, Invariance, PTL DEF Spec, ResendSpaced

=============================================================================
