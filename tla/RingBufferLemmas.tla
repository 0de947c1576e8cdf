-------------------------- MODULE RingBufferLemmas --------------------------
(***************************************************************************)
(* What the operations of ring_buffer.c do to a well-formed buffer of any  *)
(* capacity N with elements of any set V: the lemmas that the proofs about *)
(* the ring buffer and about its users share.                              *)
(***************************************************************************)
EXTENDS RingBufferOps, TLAPS

\* The fields of a buffer whose flag agrees with its positions.
WellFormed(b, N, V) ==
  /\ b \in RingBufferType(N, V)
  /\ b.rw_wrap = "SAME_WRAP" => b.read_pos <= b.write_pos
  /\ b.rw_wrap = "DIFF_WRAP" => b.write_pos <= b.read_pos

\* What is unread plus what is free is the capacity; neither is negative.
LEMMA AvailableBounds ==
  ASSUME NEW N \in Nat \ {0}, NEW V, NEW b, WellFormed(b, N, V)
  PROVE  /\ available_read(b) \in 0..N
         /\ available_write(b) \in 0..N
         /\ available_write(b) = N - available_read(b)
  BY DEF WellFormed, RingBufferType, Wraps, available_read, available_write

\* An initialized buffer is well formed and empty.
LEMMA InitializedWellFormed ==
  ASSUME NEW N \in Nat \ {0}, NEW V, NEW zero \in V
  PROVE  /\ WellFormed(Initialized(N, zero), N, V)
         /\ available_read(Initialized(N, zero)) = 0
         /\ Written(Initialized(N, zero)) = [i \in 1..N |-> zero]
  <1>1. /\ WellFormed(Initialized(N, zero), N, V)
        /\ available_read(Initialized(N, zero)) = 0
    BY DEF WellFormed, RingBufferType, Wraps, Initialized, available_read
  <1> DEFINE b == Initialized(N, zero)
  <1>2. ASSUME NEW i \in 1..N PROVE b.data[Slot(b, i)] = zero
    BY DEF Initialized, Slot
  <1>3. b.element_count = N
    BY DEF Initialized
  <1> QED BY <1>1, <1>2, <1>3 DEF Written

\* A seek moves by the clamped distance, keeps the memory, and leaves a
\* well-formed buffer.
LEMMA MoveWellFormed ==
  ASSUME NEW N \in Nat \ {0}, NEW V, NEW b, WellFormed(b, N, V), NEW k \in Int
  PROVE  /\ WellFormed(MoveReadPtr(b, k), N, V)
         /\ MoveCount(b, k) \in -available_write(b)..available_read(b)
         /\ available_read(MoveReadPtr(b, k)) = available_read(b) - MoveCount(b, k)
         /\ MoveReadPtr(b, k).data = b.data
         /\ MoveReadPtr(b, k).write_pos = b.write_pos
  <1> DEFINE m == MoveCount(b, k)
             pos == b.read_pos + m
             c == MoveReadPtr(b, k)
  <1>1. m \in -available_write(b)..available_read(b)
    BY AvailableBounds DEF MoveCount
  <1>2. /\ m \in Int /\ N \in Nat
        /\ b.read_pos \in 0..N /\ b.write_pos \in 0..N
        /\ b.element_count = N /\ b.rw_wrap \in Wraps
        /\ b = [b EXCEPT !.rw_wrap = b.rw_wrap]
    BY <1>1, AvailableBounds DEF WellFormed, RingBufferType
  <1>3. PICK p \in 0..N, f \in Wraps :
          /\ c = [b EXCEPT !.read_pos = p, !.rw_wrap = f]
          /\ f = "SAME_WRAP" => p <= b.write_pos /\ b.write_pos - p = available_read(b) - m
          /\ f = "DIFF_WRAP" => b.write_pos <= p /\ N - p + b.write_pos = available_read(b) - m
    <2>1. CASE pos > N
      <3>1. c = [b EXCEPT !.read_pos = pos - N, !.rw_wrap = "SAME_WRAP"]
        BY <2>1, <1>2 DEF MoveReadPtr
      <3>2. b.rw_wrap = "DIFF_WRAP"
        BY <2>1, <1>1, <1>2 DEF WellFormed, Wraps, available_read
      <3>3. pos - N \in 0..N /\ pos - N <= b.write_pos /\ b.write_pos - (pos - N) = available_read(b) - m
        BY <2>1, <3>2, <1>1, <1>2 DEF available_read
      <3> QED BY <3>1, <3>3 DEF Wraps
    <2>2. CASE pos < 0
      <3>1. c = [b EXCEPT !.read_pos = pos + N, !.rw_wrap = "DIFF_WRAP"]
        BY <2>2, <1>2 DEF MoveReadPtr
      <3>2. b.rw_wrap = "SAME_WRAP"
        BY <2>2, <1>1, <1>2 DEF WellFormed, Wraps, available_read, available_write
      <3>3. pos + N \in 0..N /\ b.write_pos <= pos + N /\ N - (pos + N) + b.write_pos = available_read(b) - m
        BY <2>2, <3>2, <1>1, <1>2 DEF available_read, available_write
      <3> QED BY <3>1, <3>3 DEF Wraps
    <2>3. CASE ~(pos > N) /\ ~(pos < 0)
      <3>1. c = [b EXCEPT !.read_pos = pos, !.rw_wrap = b.rw_wrap]
        BY <2>3, <1>2 DEF MoveReadPtr, WellFormed, RingBufferType
      <3>2. pos \in 0..N
        BY <2>3, <1>2
      <3>3. b.rw_wrap = "SAME_WRAP" => pos <= b.write_pos /\ b.write_pos - pos = available_read(b) - m
        BY <2>3, <1>1, <1>2 DEF available_read
      <3>4. b.rw_wrap = "DIFF_WRAP" => b.write_pos <= pos /\ N - pos + b.write_pos = available_read(b) - m
        BY <2>3, <1>1, <1>2 DEF available_read, available_write
      <3> QED BY <3>1, <3>2, <3>3, <3>4, <1>2
    <2> QED
      BY <2>1, <2>2, <2>3
  <1> HIDE DEF c
  <1>4. /\ WellFormed(c, N, V) /\ c.read_pos = p /\ c.rw_wrap = f
        /\ c.data = b.data /\ c.write_pos = b.write_pos /\ c.element_count = N
    BY <1>2, <1>3 DEF WellFormed, RingBufferType, Wraps
  <1>5. available_read(c) = available_read(b) - m
    BY <1>3, <1>4 DEF available_read, Wraps
  <1> QED
    BY <1>1, <1>4, <1>5 DEF c

\* A write accepts what fits, makes exactly that readable, and leaves a
\* well-formed buffer.
LEMMA WriteWellFormed ==
  ASSUME NEW N \in Nat \ {0}, NEW V, NEW b, WellFormed(b, N, V), NEW d \in Seq(V)
  PROVE  /\ WriteCount(b, d) \in 0..available_write(b)
         /\ WriteCount(b, d) <= Len(d)
         /\ WellFormed(WriteBuffer(b, d), N, V)
         /\ available_read(WriteBuffer(b, d)) = available_read(b) + WriteCount(b, d)
         /\ Written(WriteBuffer(b, d)) =
              [i \in 1..N |->
                 IF i + WriteCount(b, d) <= N
                 THEN Written(b)[i + WriteCount(b, d)]
                 ELSE d[i + WriteCount(b, d) - N]]
         /\ \A i \in 1..N :
              i + WriteCount(b, d) <= N =>
                 Slot(WriteBuffer(b, d), i) = Slot(b, i + WriteCount(b, d))
  <1> DEFINE av == available_read(b)
             c == WriteBuffer(b, d)
  <1>1. PICK r \in 0..N, w \in 0..N, f \in Wraps, old \in [0..N-1 -> V] :
          b = [read_pos |-> r, write_pos |-> w, element_count |-> N,
               rw_wrap |-> f, data |-> old]
    BY DEF WellFormed, RingBufferType
  <1>2. PICK L \in Nat, k \in Nat :
          /\ L = Len(d) /\ d \in [1..L -> V]
          /\ k = WriteCount(b, d) /\ k <= N - av /\ k <= L
    BY AvailableBounds DEF WriteCount, Smaller
  <1>3. /\ N \in Nat \ {0} /\ av \in 0..N
        /\ f = "SAME_WRAP" => r <= w /\ av = w - r
        /\ f # "SAME_WRAP" => f = "DIFF_WRAP" /\ w <= r /\ av = N - r + w
    BY <1>1, AvailableBounds DEF WellFormed, available_read, Wraps
  <1>4. available_write(b) = N - av
    BY AvailableBounds
  <1>a. /\ N \in Nat /\ N > 0 /\ av \in Int /\ 0 <= av
        /\ r \in Int /\ 0 <= r /\ r <= N /\ w \in Int /\ 0 <= w /\ w <= N
        /\ k \in Int /\ 0 <= k /\ k <= N - av
    BY <1>1, <1>2, <1>3
  <1>b. /\ L \in Nat /\ k <= L /\ d \in [1..L -> V]
        /\ old \in [0..N-1 -> V]
    BY <1>1, <1>2
  <1> HIDE DEF av, c
  <1>5. PICK v \in 0..N, g \in Wraps, new \in [0..N-1 -> V] :
          /\ c = [read_pos |-> r, write_pos |-> v, element_count |-> N,
                  rw_wrap |-> g, data |-> new]
          /\ g = "SAME_WRAP" => r <= v /\ v - r = av + k
          /\ g = "DIFF_WRAP" => v <= r /\ N - r + v = av + k
          /\ v = (IF w + k > N THEN w + k - N ELSE w + k)
          /\ \A i \in 0..N-1 :
               new[i] = IF w <= i /\ i < w + k THEN d[i - w + 1]
                        ELSE IF i < w + k - N THEN d[N - w + i + 1]
                        ELSE old[i]
    <2>1. CASE k > N - w
      <3> DEFINE mem == [i \in 0..N-1 |->
                           IF w <= i /\ i < w + k THEN d[i - w + 1]
                           ELSE IF i < w + k - N THEN d[N - w + i + 1]
                           ELSE old[i]]
      <3>1. /\ f = "SAME_WRAP" /\ k - (N - w) \in 0..N /\ k - (N - w) <= r
            /\ k - (N - w) = w + k - N /\ w + k > N
            /\ N - r + (k - (N - w)) = av + k
        BY <2>1, <1>a, <1>3
      <3>2. mem \in [0..N-1 -> V]
        BY <2>1, <1>a, <1>b, <1>3, <3>1
      <3>3. Memcpy(old, w, d, 0, N - w) =
              [i \in 0..N-1 |-> IF w <= i THEN d[i - w + 1] ELSE old[i]]
        BY <2>1, <1>a, <1>b, <1>3 DEF Memcpy
      <3>4. Memcpy(Memcpy(old, w, d, 0, N - w), 0, d, N - w, k - (N - w)) = mem
        BY <2>1, <1>a, <1>b, <1>3, <3>1, <3>3 DEF Memcpy
      <3>5. c = [read_pos |-> r, write_pos |-> k - (N - w), element_count |-> N,
                 rw_wrap |-> "DIFF_WRAP", data |-> mem]
        BY <2>1, <1>1, <1>2, <3>4 DEF WriteBuffer, c
      <3> QED
        BY <3>1, <3>2, <3>5 DEF Wraps
    <2>2. CASE ~(k > N - w)
      <3> DEFINE mem == [i \in 0..N-1 |->
                           IF w <= i /\ i < w + k THEN d[i - w + 1]
                           ELSE IF i < w + k - N THEN d[N - w + i + 1]
                           ELSE old[i]]
      <3>1. /\ w + k \in 0..N
            /\ f = "SAME_WRAP" => r <= w + k /\ (w + k) - r = av + k
            /\ f = "DIFF_WRAP" => w + k <= r /\ N - r + (w + k) = av + k
        BY <2>2, <1>a, <1>3
      <3>2. mem \in [0..N-1 -> V]
        BY <2>2, <1>a, <1>b, <1>3, <3>1
      <3>3. Memcpy(old, w, d, 0, k) = mem
        BY <2>2, <1>a, <1>b, <1>3, <3>1 DEF Memcpy
      <3>4. c = [read_pos |-> r, write_pos |-> w + k, element_count |-> N,
                 rw_wrap |-> f, data |-> mem]
        BY <2>2, <1>1, <1>2, <3>3 DEF WriteBuffer, c
      <3>5. w + k = IF w + k > N THEN w + k - N ELSE w + k
        BY <3>1, <1>a
      <3> QED
        BY <3>1, <3>2, <3>4, <3>5
    <2> QED BY <2>1, <2>2
  <1>6. WellFormed(c, N, V) /\ available_read(c) = av + k
    BY <1>5 DEF WellFormed, RingBufferType, available_read, Wraps
  <1>7. ASSUME NEW i \in 1..N
        PROVE  /\ new[Slot(c, i)] = IF i + k <= N THEN old[Slot(b, i + k)] ELSE d[i + k - N]
               /\ i + k <= N => Slot(c, i) = Slot(b, i + k)
    <2> DEFINE s == Slot(c, i)
               t == Slot(b, i + k)
    <2>1. s = IF v + i > N THEN v + i - N - 1 ELSE v + i - 1
      BY <1>5 DEF Slot
    <2>2. t = IF w + (i + k) > N THEN w + (i + k) - N - 1 ELSE w + (i + k) - 1
      BY <1>1 DEF Slot
    <2>3. v \in Int /\ 0 <= v /\ v <= N /\ v = (IF w + k > N THEN w + k - N ELSE w + k)
      BY <1>5
    <2> HIDE DEF s, t
    <2>4. s \in 0..N-1
      BY <2>1, <2>3, <1>a
    <2>5. new[s] = IF w <= s /\ s < w + k THEN d[s - w + 1]
                   ELSE IF s < w + k - N THEN d[N - w + s + 1]
                   ELSE old[s]
      BY <2>4, <1>5
    <2>6. CASE i + k <= N
      <3>1. s = t /\ ~(w <= s /\ s < w + k) /\ ~(s < w + k - N)
        BY <2>1, <2>2, <2>3, <2>6, <1>a
      <3> QED BY <3>1, <2>5, <2>6 DEF s, t
    <2>7. CASE ~(i + k <= N)
      <3>1. CASE w <= s /\ s < w + k
        <4>1. s - w + 1 = i + k - N
          BY <2>1, <2>3, <2>7, <3>1, <1>a
        <4> QED BY <4>1, <3>1, <2>5, <2>7 DEF s
      <3>2. CASE ~(w <= s /\ s < w + k)
        <4>1. s < w + k - N /\ N - w + s + 1 = i + k - N
          BY <2>1, <2>3, <2>7, <3>2, <1>a
        <4> QED BY <4>1, <3>2, <2>5, <2>7 DEF s
      <3> QED BY <3>1, <3>2
    <2> QED BY <2>6, <2>7
  <1>8. ASSUME NEW i \in 1..N, i + k <= N
        PROVE  Written(b)[i + k] = old[Slot(b, i + k)]
    BY <1>8, <1>1, <1>2 DEF Written
  <1>9. Written(c) = [i \in 1..N |-> new[Slot(c, i)]]
    BY <1>5 DEF Written
  <1>10. Written(c) = [i \in 1..N |-> IF i + k <= N THEN Written(b)[i + k] ELSE d[i + k - N]]
    BY <1>7, <1>8, <1>9
  <1> QED
    BY <1>2, <1>4, <1>6, <1>7, <1>10, AvailableBounds DEF c, av

\* A read takes at most what is there, which is then no longer unread, and
\* keeps the memory.
LEMMA ReadWellFormed ==
  ASSUME NEW N \in Nat \ {0}, NEW V, NEW b, WellFormed(b, N, V), NEW n \in Nat
  PROVE  /\ ReadCount(b, n) \in 0..available_read(b)
         /\ WellFormed(ReadBuffer(b, n), N, V)
         /\ available_read(ReadBuffer(b, n)) = available_read(b) - ReadCount(b, n)
         /\ ReadBuffer(b, n).data = b.data
         /\ ReadBuffer(b, n).write_pos = b.write_pos
  <1> DEFINE av == available_read(b)
             k == ReadCount(b, n)
  <1>1. k \in 0..av /\ av \in 0..N /\ N \in Nat
    BY AvailableBounds DEF ReadCount, Smaller
  <1>2. MoveCount(b, k) = k
    BY <1>1, AvailableBounds DEF MoveCount
  <1>3. k \in Int
    BY <1>1
  <1>4. /\ WellFormed(ReadBuffer(b, n), N, V)
        /\ available_read(ReadBuffer(b, n)) = av - k
        /\ ReadBuffer(b, n).data = b.data
        /\ ReadBuffer(b, n).write_pos = b.write_pos
    <2>1. /\ WellFormed(MoveReadPtr(b, k), N, V)
          /\ available_read(MoveReadPtr(b, k)) = av - MoveCount(b, k)
          /\ MoveReadPtr(b, k).data = b.data
          /\ MoveReadPtr(b, k).write_pos = b.write_pos
      BY <1>3, MoveWellFormed, ZenonT(40)
    <2> QED BY <2>1, <1>2 DEF ReadBuffer
  <1> QED
    BY <1>1, <1>4

\* The elements a read delivers are the oldest unread ones of the written
\* stream.
LEMMA ReadDelivers ==
  ASSUME NEW N \in Nat \ {0}, NEW V, NEW b, WellFormed(b, N, V), NEW n \in Nat
  PROVE  /\ ReadData(b, n) \in [1..ReadCount(b, n) -> V]
         /\ \A i \in 1..ReadCount(b, n) :
              ReadData(b, n)[i] = Written(b)[N - available_read(b) + i]
  <1> DEFINE av == available_read(b)
             k == ReadCount(b, n)
  <1>1. k \in 0..av /\ av \in 0..N /\ N \in Nat
    BY AvailableBounds DEF ReadCount, Smaller
  <1>5. PICK r \in 0..N, w \in 0..N, f \in Wraps, old \in [0..N-1 -> V] :
          b = [read_pos |-> r, write_pos |-> w, element_count |-> N,
               rw_wrap |-> f, data |-> old]
    BY DEF WellFormed, RingBufferType
  <1>6. /\ f = "SAME_WRAP" => r <= w /\ av = w - r
        /\ f # "SAME_WRAP" => w <= r /\ av = N - r + w
    BY <1>5 DEF WellFormed, available_read, Wraps
  <1>7. /\ r \in Int /\ 0 <= r /\ r <= N /\ w \in Int /\ 0 <= w /\ w <= N
        /\ av \in Int /\ 0 <= av /\ av <= N /\ k \in Int /\ 0 <= k /\ k <= av
    BY <1>1, <1>5
  <1> HIDE DEF av, k
  <1>8. ASSUME NEW i \in 1..k
        PROVE  Written(b)[N - av + i] =
                 IF i <= N - r THEN old[r + i - 1] ELSE old[i - (N - r) - 1]
    <2> DEFINE j == N - av + i
               s == Slot(b, j)
    <2>1. j \in 1..N
      BY <1>1, <1>7
    <2>2. s = IF w + j > N THEN w + j - N - 1 ELSE w + j - 1
      BY <1>5 DEF Slot
    <2>3. Written(b)[j] = old[s]
      BY <2>1, <1>5 DEF Written
    <2> HIDE DEF s
    <2>4. s = IF i <= N - r THEN r + i - 1 ELSE i - (N - r) - 1
      BY <2>2, <1>1, <1>6, <1>7
    <2> QED BY <2>3, <2>4
  <1>9. ReadData(b, n) = [i \in 1..k |-> IF i <= N - r THEN old[r + i - 1] ELSE old[i - (N - r) - 1]]
    BY <1>5 DEF ReadData, k
  <1>10. ASSUME NEW i \in 1..k
         PROVE  (IF i <= N - r THEN old[r + i - 1] ELSE old[i - (N - r) - 1]) \in V
    BY <1>6, <1>7
  <1>11. /\ ReadData(b, n) \in [1..k -> V]
         /\ \A i \in 1..k : ReadData(b, n)[i] = Written(b)[N - av + i]
    BY <1>8, <1>9, <1>10
  <1> QED
    BY <1>11 DEF av, k

-----------------------------------------------------------------------------
(* A buffer that is never written beyond its free space nor read beyond    *)
(* what is unread is a queue.                                              *)

\* The i-th unread element, the oldest first.
Unread(b, i) == Written(b)[b.element_count - available_read(b) + i]

\* A write that fits appends its elements.
LEMMA QueueWrite ==
  ASSUME NEW N \in Nat \ {0}, NEW V, NEW b, WellFormed(b, N, V),
         NEW d \in Seq(V), available_read(b) + Len(d) <= N
  PROVE  /\ WellFormed(WriteBuffer(b, d), N, V)
         /\ available_read(WriteBuffer(b, d)) = available_read(b) + Len(d)
         /\ \A i \in 1..available_read(b) : Unread(WriteBuffer(b, d), i) = Unread(b, i)
         /\ \A i \in 1..Len(d) :
              Unread(WriteBuffer(b, d), available_read(b) + i) = d[i]
  <1> DEFINE c == WriteBuffer(b, d)
             n == WriteCount(b, d)
  <1>1. PICK av \in Nat, len \in Nat : av = available_read(b) /\ len = Len(d) /\ av + len <= N
    BY AvailableBounds
  <1>2. n = len
    BY <1>1, AvailableBounds DEF WriteCount, Smaller
  <1>3. WellFormed(c, N, V) /\ available_read(c) = av + len
    BY <1>1, <1>2, WriteWellFormed
  <1>4. Written(c) = [i \in 1..N |-> IF i + n <= N THEN Written(b)[i + n] ELSE d[i + n - N]]
    BY WriteWellFormed
  <1>5. b.element_count = N /\ c.element_count = N
    BY <1>3 DEF WellFormed, RingBufferType
  <1> HIDE DEF c, n
  <1>6. ASSUME NEW i \in 1..av PROVE Unread(c, i) = Unread(b, i)
    <2>0. i \in Int /\ 1 <= i /\ i <= av /\ av + len <= N /\ N \in Int
      BY <1>1
    <2>1. /\ N - (av + len) + i \in 1..N
          /\ N - (av + len) + i + len = N - av + i
          /\ N - av + i <= N
      BY <2>0
    <2> QED BY <2>1, <1>1, <1>2, <1>3, <1>4, <1>5 DEF Unread
  <1>7. ASSUME NEW i \in 1..len PROVE Unread(c, av + i) = d[i]
    <2>1. /\ N - (av + len) + (av + i) \in 1..N
          /\ N - (av + len) + (av + i) + len = N + i
          /\ ~(N + i <= N) /\ N + i - N = i
      BY <1>1
    <2> QED BY <2>1, <1>1, <1>2, <1>3, <1>4, <1>5 DEF Unread
  <1> QED BY <1>1, <1>3, <1>6, <1>7 DEF c

\* A read of elements that are there takes them from the front.
LEMMA QueueRead ==
  ASSUME NEW N \in Nat \ {0}, NEW V, NEW b, WellFormed(b, N, V),
         NEW n \in Nat, n <= available_read(b)
  PROVE  /\ WellFormed(ReadBuffer(b, n), N, V)
         /\ available_read(ReadBuffer(b, n)) = available_read(b) - n
         /\ Written(ReadBuffer(b, n)) = Written(b)
         /\ ReadData(b, n) \in [1..n -> V]
         /\ \A i \in 1..n : ReadData(b, n)[i] = Unread(b, i)
         /\ \A i \in 1..available_read(b) - n :
              Unread(ReadBuffer(b, n), i) = Unread(b, n + i)
  <1> DEFINE c == ReadBuffer(b, n)
  <1>1. PICK av \in Nat : av = available_read(b) /\ n <= av /\ av <= N
    BY AvailableBounds
  <1>2. ReadCount(b, n) = n
    BY <1>1 DEF ReadCount, Smaller
  <1>3. WellFormed(c, N, V) /\ available_read(c) = av - n
    BY <1>1, <1>2, ReadWellFormed
  <1>4. c.data = b.data /\ c.write_pos = b.write_pos
    BY ReadWellFormed
  <1>5. b.element_count = N /\ c.element_count = N
    BY <1>3 DEF WellFormed, RingBufferType
  <1>6. Written(c) = Written(b)
    BY <1>4, <1>5 DEF Written, Slot
  <1>7. ReadData(b, n) \in [1..n -> V]
    BY <1>2, ReadDelivers
  <1>8. \A i \in 1..n : ReadData(b, n)[i] = Unread(b, i)
    <2>1. \A i \in 1..n : ReadData(b, n)[i] = Written(b)[N - av + i]
      BY <1>1, <1>2, ReadDelivers
    <2> QED BY <2>1, <1>1, <1>5 DEF Unread
  <1> HIDE DEF c
  <1>9. ASSUME NEW i \in 1..av - n PROVE Unread(c, i) = Unread(b, n + i)
    <2>1. N - (av - n) + i = N - av + (n + i)
      BY <1>1
    <2> QED BY <2>1, <1>1, <1>3, <1>5, <1>6 DEF Unread
  <1> QED BY <1>1, <1>3, <1>6, <1>7, <1>8, <1>9 DEF c

\* A seek to k unread elements, back over ones that were read before.
LEMMA QueueRewind ==
  ASSUME NEW N \in Nat \ {0}, NEW V, NEW b, WellFormed(b, N, V),
         NEW k \in Nat, available_read(b) <= k, k <= N
  PROVE  /\ WellFormed(MoveReadPtr(b, available_read(b) - k), N, V)
         /\ available_read(MoveReadPtr(b, available_read(b) - k)) = k
         /\ Written(MoveReadPtr(b, available_read(b) - k)) = Written(b)
  <1> DEFINE m == available_read(b) - k
             c == MoveReadPtr(b, m)
  <1>1. m \in Int /\ available_read(b) \in 0..N /\ available_write(b) = N - available_read(b)
    BY AvailableBounds
  <1>2. MoveCount(b, m) = m
    BY <1>1 DEF MoveCount
  <1>3. /\ WellFormed(c, N, V) /\ available_read(c) = available_read(b) - MoveCount(b, m)
        /\ c.data = b.data /\ c.write_pos = b.write_pos
    BY ZenonT(40), <1>1, MoveWellFormed
  <1>4. c.element_count = N /\ b.element_count = N
    BY <1>3 DEF WellFormed, RingBufferType
  <1>5. Written(c) = Written(b)
    BY <1>3, <1>4 DEF Written, Slot
  <1>6. available_read(c) = k
    BY <1>1, <1>2, <1>3
  <1> QED BY <1>3, <1>5, <1>6
=============================================================================
