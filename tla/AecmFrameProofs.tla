-------------------------- MODULE AecmFrameProofs ---------------------------
(***************************************************************************)
(* Proofs about the reframing of WebRtcAecm_ProcessFrame for every frame   *)
(* length, block length and delay line.                                    *)
(***************************************************************************)
EXTENDS AecmFrame, RingBufferLemmas

Capacity == FRAME_LEN + PART_LEN

\* One of the four buffers of the core.
IsBuf(b) == WellFormed(b, Capacity, Samples)

-----------------------------------------------------------------------------
(* Arithmetic.                                                             *)

\* Quotient and remainder are unique.
LEMMA ModIs ==
  ASSUME NEW n \in Nat \ {0}, NEW a \in Int, NEW q \in Int, NEW r \in 0..n-1,
         a = n * q + r
  PROVE  a % n = r
  OBVIOUS

LEMMA ModRange ==
  ASSUME NEW n \in Nat \ {0}, NEW a \in Int
  PROVE  a % n \in 0..n-1
  OBVIOUS

LEMMA ModOnce ==
  ASSUME NEW n \in Nat \ {0}, NEW a \in Nat, a < 2 * n
  PROVE  a % n = IF a < n THEN a ELSE a - n
  OBVIOUS

\* The remainder may be taken before or after an addition.
LEMMA ModAdd ==
  ASSUME NEW n \in Nat \ {0}, NEW a \in Int, NEW k \in Int
  PROVE  ((a % n) + k) % n = (a + k) % n
  <1>1. PICK p \in Int, r \in 0..n-1 : a = n * p + r /\ r = a % n
    <2>1. a = n * (a \div n) + (a % n) /\ a \div n \in Int
      OBVIOUS
    <2> QED BY <2>1, ModRange
  <1>2. PICK q \in Int, t \in 0..n-1 : r + k = n * q + t /\ t = (r + k) % n
    <2>1. r + k \in Int
      BY <1>1
    <2>2. r + k = n * ((r + k) \div n) + ((r + k) % n) /\ (r + k) \div n \in Int
      BY <2>1
    <2> QED BY <2>1, <2>2, ModRange
  <1>3. a + k = n * (p + q) + t /\ a + k \in Int /\ p + q \in Int
    BY <1>1, <1>2
  <1>4. (a + k) % n = t
    BY <1>3, ModIs
  <1> QED BY <1>1, <1>2, <1>4

\* A smaller multiple of a positive number is smaller by a whole multiple.
LEMMA MultipleBelow ==
  ASSUME NEW n \in Nat \ {0}, NEW j \in Int, NEW k \in Int, n * j < n * k
  PROVE  n * j <= n * k - n
  <1>1. j < k
    <2> SUFFICES ASSUME j >= k PROVE FALSE
      OBVIOUS
    <2>1. PICK e \in Nat : j = k + e
      OBVIOUS
    <2>2. n * j = n * k + n * e /\ n * e >= 0
      BY <2>1
    <2> QED BY <2>2
  <1>2. PICK e \in Nat : k = j + 1 + e
    BY <1>1
  <1>3. n * k = n * j + n + n * e /\ n * e >= 0
    BY <1>2
  <1> QED BY <1>3

LEMMA LatencyBounds ==
  /\ Latency \in Nat /\ Latency < PART_LEN /\ PART_LEN <= Latency + FRAME_LEN
  /\ \A k \in Nat : k * FRAME_LEN < PART_LEN => k * FRAME_LEN <= Latency
  <1> DEFINE q == (PART_LEN - 1) \div FRAME_LEN
  <1>1. FRAME_LEN \in Nat \ {0} /\ PART_LEN \in Nat \ {0}
    BY AecmFrameAssumption
  <1>2. /\ q \in Int /\ FRAME_LEN * q <= PART_LEN - 1
        /\ PART_LEN - 1 < FRAME_LEN * q + FRAME_LEN
    BY <1>1
  <1>3. q >= 0
    BY <1>1
  <1> HIDE DEF q
  <1>4. FRAME_LEN * q \in Nat
    BY <1>1, <1>2, <1>3
  <1>5. ASSUME NEW k \in Nat, k * FRAME_LEN < PART_LEN
        PROVE  k * FRAME_LEN <= FRAME_LEN * q
    <2>1. FRAME_LEN * (q + 1) = FRAME_LEN * q + FRAME_LEN /\ q + 1 \in Int
      BY <1>1, <1>2
    <2>2. FRAME_LEN * k < FRAME_LEN * (q + 1) /\ FRAME_LEN * k = k * FRAME_LEN /\ k \in Int
      BY <2>1, <1>1, <1>2, <1>5
    <2>3. FRAME_LEN * k <= FRAME_LEN * (q + 1) - FRAME_LEN
      BY <2>1, <2>2, <1>1, MultipleBelow
    <2> QED BY <2>1, <2>2, <2>3, <1>1, <1>2
  <1> QED BY <1>1, <1>2, <1>4, <1>5 DEF Latency, q

-----------------------------------------------------------------------------
(* The state.                                                              *)

CoreType ==
  LET Buf == RingBufferType(Capacity, Samples)
  IN  [farBuf : [0..FAR_BUF_LEN-1 -> Samples], farBufWritePos : 0..FAR_BUF_LEN,
       farBufReadPos : 0..FAR_BUF_LEN, farFrameBuf : Buf, nearNoisyFrameBuf : Buf,
       nearCleanFrameBuf : Buf, outFrameBuf : Buf]

\* The facts about the constants that the steps below use.
LEMMA Constants ==
  /\ FRAME_LEN \in Nat \ {0} /\ PART_LEN \in Nat \ {0} /\ FAR_BUF_LEN \in Nat \ {0}
  /\ Period \in Nat \ {0} /\ FRAME_LEN <= PART_LEN /\ FRAME_LEN <= FAR_BUF_LEN
  /\ Capacity \in Nat \ {0} /\ Capacity = FRAME_LEN + PART_LEN
  BY AecmFrameAssumption DEF Capacity

\* The frame of the next call is a sequence of FRAME_LEN samples.
LEMMA FrameSamples ==
  ASSUME next \in 0..Period-1
  PROVE  /\ Frame \in [1..FRAME_LEN -> Samples] /\ Frame \in Seq(Samples)
         /\ Len(Frame) = FRAME_LEN
         /\ \A i \in 1..FRAME_LEN : Frame[i] = (next + i - 1) % Period
  <1>1. ASSUME NEW i \in 1..FRAME_LEN PROVE (next + i - 1) % Period \in Samples
    <2>1. next + i - 1 \in Int
      BY Constants
    <2> QED BY <2>1, Constants, ModRange DEF Samples
  <1>2. Frame \in [1..FRAME_LEN -> Samples]
    BY <1>1 DEF Frame
  <1>3. Frame \in Seq(Samples) /\ Len(Frame) = FRAME_LEN
    BY <1>2, Constants
  <1> QED BY <1>2, <1>3 DEF Frame

\* The delay line gives back the frame just put into it, wherever it wraps, and
\* leaves both positions equal.
LEMMA DelayLine ==
  ASSUME core \in CoreType, core.farBufWritePos = core.farBufReadPos,
         next \in 0..Period-1
  PROVE  LET c == BufferFarFrame(core, Frame)
         IN  /\ FetchedFrame(c) = Frame
             /\ \E fb \in [0..FAR_BUF_LEN-1 -> Samples], w \in 0..FAR_BUF_LEN :
                  FetchFarFrame(c) = [core EXCEPT !.farBuf = fb, !.farBufWritePos = w,
                                                  !.farBufReadPos = w]
  <1> DEFINE c == BufferFarFrame(core, Frame)
             L == FAR_BUF_LEN
             n == FRAME_LEN
  <1>1. PICK p \in Nat, old \in [0..L-1 -> Samples] :
          /\ p = core.farBufWritePos /\ p = core.farBufReadPos /\ p <= L
          /\ old = core.farBuf
    BY Constants DEF CoreType
  <1>2. /\ L \in Nat \ {0} /\ n \in Nat \ {0} /\ n <= L
    BY Constants
  <1>3. p % L = IF p < L THEN p ELSE 0
    BY <1>1, <1>2, ModOnce
  <1>4. PICK start \in 0..L-1 : start = p % L /\ start = (IF p < L THEN p ELSE 0)
    BY <1>1, <1>2, <1>3
  <1> DEFINE new == [j \in 0..L-1 |->
                       IF start <= j /\ j < start + n THEN Frame[j - start + 1]
                       ELSE IF j < start + n - L THEN Frame[L - start + j + 1]
                       ELSE old[j]]
             w == IF start + n > L THEN start + n - L ELSE start + n
  <1>5. new \in [0..L-1 -> Samples]
    <2>1. ASSUME NEW j \in 0..L-1
          PROVE  (IF start <= j /\ j < start + n THEN Frame[j - start + 1]
                  ELSE IF j < start + n - L THEN Frame[L - start + j + 1]
                  ELSE old[j]) \in Samples
      <3>1. Frame \in [1..n -> Samples]
        BY FrameSamples
      <3>2. j \in Int /\ start \in Int /\ 0 <= j /\ j < L /\ start < L
        BY <1>2
      <3>3. CASE start <= j /\ j < start + n
        <4>1. j - start + 1 \in 1..n
          BY <3>2, <3>3, <1>2
        <4> QED BY <3>1, <3>3, <4>1
      <3>4. CASE ~(start <= j /\ j < start + n) /\ j < start + n - L
        <4>1. L - start + j + 1 \in 1..n
          BY <3>2, <3>4, <1>2
        <4> QED BY <3>1, <3>4, <4>1
      <3>5. CASE ~(start <= j /\ j < start + n) /\ ~(j < start + n - L)
        <4>1. old[j] \in Samples
          BY <1>1
        <4> QED BY <3>5, <4>1
      <3> QED BY <3>3, <3>4, <3>5
    <2> QED BY <2>1
  <1>6. w \in 0..L
    BY <1>2
  <1>7. c = [core EXCEPT !.farBuf = new, !.farBufWritePos = w]
    <2> DEFINE room == L - p
    <2>1. CASE n > room
      <3>1. c = [core EXCEPT
                   !.farBuf = Memcpy(Memcpy(old, p, Frame, 0, room), 0, Frame, room, n - room),
                   !.farBufWritePos = n - room]
        BY <2>1, <1>1 DEF BufferFarFrame
      <3>2. n - room = w
        <4>1. CASE p < L
          <5>1. start = p /\ p + n > L
            BY <4>1, <2>1, <1>1, <1>2, <1>4
          <5>2. w = p + n - L
            BY <5>1
          <5> QED BY <5>2, <1>1, <1>2
        <4>2. CASE p = L
          <5>1. start = 0 /\ ~(0 + n > L)
            BY <4>2, <1>2, <1>4
          <5>2. w = 0 + n
            BY <5>1
          <5>3. n - room = 0 + n
            BY <4>2, <1>2
          <5> QED BY <5>2, <5>3
        <4> QED BY <4>1, <4>2, <1>1, <1>2
      <3>3. Memcpy(old, p, Frame, 0, room) =
              [j \in 0..L-1 |-> IF p <= j THEN Frame[j - p + 1] ELSE old[j]]
        BY <2>1, <1>1, <1>2 DEF Memcpy
      <3>4. Memcpy(Memcpy(old, p, Frame, 0, room), 0, Frame, room, n - room) = new
        <4> DEFINE mem == [j \in 0..L-1 |-> IF p <= j THEN Frame[j - p + 1] ELSE old[j]]
        <4>1. Memcpy(mem, 0, Frame, room, n - room) =
                [j \in 0..L-1 |-> IF 0 <= j /\ j < 0 + (n - room)
                                  THEN Frame[room + (j - 0) + 1] ELSE mem[j]]
          BY DEF Memcpy
        <4>2. ASSUME NEW j \in 0..L-1
              PROVE  (IF 0 <= j /\ j < 0 + (n - room) THEN Frame[room + (j - 0) + 1]
                      ELSE mem[j]) = new[j]
          <5>1. mem[j] = IF p <= j THEN Frame[j - p + 1] ELSE old[j]
            OBVIOUS
          <5>2. new[j] = IF start <= j /\ j < start + n THEN Frame[j - start + 1]
                         ELSE IF j < start + n - L THEN Frame[L - start + j + 1]
                         ELSE old[j]
            OBVIOUS
          <5>3. j \in Int /\ 0 <= j /\ j < L
            BY <1>2
          <5> HIDE DEF mem, new
          <5>4. CASE p < L
            <6>1. start = p
              BY <5>4, <1>4
            <6>2. CASE j < n - room
              <7>1. 0 + (n - room) = n - room /\ ~(start <= j) /\ j < start + n - L
                    /\ room + (j - 0) + 1 = L - start + j + 1
                BY <6>1, <6>2, <5>3, <5>4, <1>1, <1>2
              <7> QED BY <7>1, <6>2, <5>2, <5>3
            <6>3. CASE ~(j < n - room)
              <7>1. 0 + (n - room) = n - room /\ ~(j < start + n - L) /\ (start <= j => j < start + n)
                BY <6>1, <6>3, <5>3, <5>4, <2>1, <1>1, <1>2
              <7> QED BY <7>1, <6>1, <6>3, <5>1, <5>2, <5>3
            <6> QED BY <6>2, <6>3
          <5>5. CASE p = L
            <6>1. start = 0 /\ room = 0
              BY <5>5, <1>2, <1>4
            <6>2. /\ 0 + (n - room) = n /\ room + (j - 0) + 1 = j - start + 1
                  /\ ~(j < start + n - L) /\ ~(p <= j)
              BY <6>1, <5>3, <5>5, <1>2
            <6>3. start <= j /\ (j < start + n <=> j < n)
              BY <6>1, <5>3, <1>2
            <6>4. CASE j < n
              BY <6>2, <6>3, <6>4, <5>2, <5>3
            <6>5. CASE ~(j < n)
              BY <6>2, <6>3, <6>5, <5>1, <5>2
            <6> QED BY <6>4, <6>5
          <5> QED BY <5>4, <5>5, <1>1, <1>2
        <4>3. new = [j \in 0..L-1 |-> new[j]]
          OBVIOUS
        <4> QED BY <3>3, <4>1, <4>2, <4>3
      <3> QED BY <3>1, <3>2, <3>4
    <2>2. CASE ~(n > room)
      <3>1. c = [core EXCEPT !.farBuf = Memcpy(old, p, Frame, 0, n), !.farBufWritePos = p + n]
        BY <2>2, <1>1 DEF BufferFarFrame
      <3>2. p + n = w /\ start = p
        BY <2>2, <1>1, <1>2, <1>3, <1>4
      <3>3. Memcpy(old, p, Frame, 0, n) = new
        <4>1. Memcpy(old, p, Frame, 0, n) =
                [j \in 0..L-1 |-> IF p <= j /\ j < p + n THEN Frame[0 + (j - p) + 1] ELSE old[j]]
          BY DEF Memcpy
        <4>2. ASSUME NEW j \in 0..L-1
              PROVE  (IF p <= j /\ j < p + n THEN Frame[0 + (j - p) + 1] ELSE old[j]) = new[j]
          <5>1. new[j] = IF start <= j /\ j < start + n THEN Frame[j - start + 1]
                         ELSE IF j < start + n - L THEN Frame[L - start + j + 1]
                         ELSE old[j]
            OBVIOUS
          <5>2. j \in Int /\ 0 <= j
            BY <1>2
          <5> HIDE DEF new
          <5>3. start = p /\ ~(j < start + n - L) /\ 0 + (j - p) + 1 = j - start + 1
            BY <2>2, <3>2, <5>2, <1>1, <1>2
          <5> QED BY <5>1, <5>3
        <4>3. new = [j \in 0..L-1 |-> new[j]]
          OBVIOUS
        <4> HIDE DEF new
        <4> QED BY <4>1, <4>2, <4>3
      <3> QED BY <3>1, <3>2, <3>3
    <2> QED BY <2>1, <2>2
  <1> HIDE DEF c, w, new
  <1>8. c.farBuf = new /\ c.farBufReadPos = p
    BY <1>1, <1>7 DEF CoreType
  <1>9. FetchedFrame(c) = Frame
    <2>1. ASSUME NEW i \in 1..n
          PROVE  new[(start + i - 1) % L] = Frame[i]
      <3>1. PICK x \in Nat : x = start + i - 1 /\ x < 2 * L
        BY <1>2
      <3>2. x % L = IF x < L THEN x ELSE x - L
        BY <3>1, <1>2, ModOnce
      <3>3. CASE x < L
        <4>1. x \in 0..L-1 /\ x - start + 1 = i /\ start <= x /\ x < start + n
          BY <3>1, <3>3, <1>2
        <4>2. new[x] = Frame[x - start + 1]
          BY <4>1 DEF new
        <4> QED BY <3>1, <3>2, <3>3, <4>1, <4>2
      <3>4. CASE ~(x < L)
        <4>1. PICK j \in 0..L-1 : j = x - L
          BY <3>1, <3>4, <1>2
        <4>2. L - start + j + 1 = i /\ j < start + n - L /\ ~(start <= j)
          BY <4>1, <3>1, <1>2
        <4>3. new[j] = Frame[L - start + j + 1]
          BY <4>2 DEF new
        <4> QED BY <3>1, <3>2, <3>4, <4>1, <4>2, <4>3
      <3> QED BY <3>3, <3>4
    <2>2. FetchedFrame(c) = [i \in 1..n |-> new[(start + i - 1) % L]]
      BY <1>4, <1>8 DEF FetchedFrame, FetchPos
    <2>3. [i \in 1..n |-> new[(start + i - 1) % L]] = [i \in 1..n |-> Frame[i]]
      BY <2>1
    <2>4. Frame = [i \in 1..n |-> Frame[i]]
      BY FrameSamples
    <2> QED BY <2>2, <2>3, <2>4
  <1>10. FetchFarFrame(c) = [core EXCEPT !.farBuf = new, !.farBufWritePos = w, !.farBufReadPos = w]
    <2>1. FetchFarFrame(c) = [c EXCEPT !.farBufReadPos = w]
      BY <1>4, <1>8 DEF FetchFarFrame, FetchPos, w
    <2> QED BY <2>1, <1>7 DEF CoreType
  <1> QED BY <1>5, <1>6, <1>9, <1>10 DEF c

-----------------------------------------------------------------------------
(* The inductive invariant.                                                *)

\* What waits to fill a block, and what waits to be output.
Waiting == available_read(core.nearNoisyFrameBuf)
Pending == available_read(core.outFrameBuf)

\* The four buffers are well formed; the far end lies in its buffer exactly as
\* the noisy near end in its own, and so does the clean near end for a caller
\* that always passes one.
InStep ==
  /\ core \in CoreType
  /\ IsBuf(core.nearNoisyFrameBuf) /\ IsBuf(core.nearCleanFrameBuf)
  /\ IsBuf(core.outFrameBuf)
  /\ core.farBufWritePos = core.farBufReadPos
  /\ core.farFrameBuf = core.nearNoisyFrameBuf
  /\ FALSE \notin CleanGiven => core.nearCleanFrameBuf = core.nearNoisyFrameBuf

\* What waits is the end of the input, and a whole number of units.
Backlog ==
  /\ \E k \in Nat : Waiting = Unit * k
  /\ Waiting + Pending <= Latency
  /\ \A i \in 1..Waiting :
       Unread(core.nearNoisyFrameBuf, i) = (next - Waiting + i - 1) % Period

\* Before the first block there is no output but the silence stuffed into it.
Starting ==
  fails = 0 /\ frames * FRAME_LEN <= Latency =>
    /\ Waiting = frames * FRAME_LEN /\ Pending = 0
    /\ \A i \in 1..Capacity : Written(core.outFrameBuf)[i] = Zero

\* Afterwards input and output wait for Latency samples together.
Steady ==
  fails = 0 /\ frames * FRAME_LEN > Latency =>
    /\ Waiting + Pending = Latency
    /\ \A i \in 1..Pending :
         Unread(core.outFrameBuf, i) = (next - Latency + i - 1) % Period

Results ==
  /\ out = << >> \/ out \in [1..FRAME_LEN -> Samples]
  /\ Synchronized /\ SteadyLatency
  /\ CleanGiven # BOOLEAN => CleanSynchronized

Counters == next \in 0..Period-1 /\ frames \in 0..MaxFrames /\ fails \in 0..MaxFails

IndInv == Counters /\ InStep /\ Backlog /\ Starting /\ Steady /\ Results

-----------------------------------------------------------------------------
(* What one call does to the core.                                         *)

\* A core whose positions agree and whose far and noisy buffers are the same.
CoreWith(fb, w, nb, cb, ob) ==
  [farBuf |-> fb, farBufWritePos |-> w, farBufReadPos |-> w,
   farFrameBuf |-> nb, nearNoisyFrameBuf |-> nb, nearCleanFrameBuf |-> cb,
   outFrameBuf |-> ob]

FarBufs == [0..FAR_BUF_LEN-1 -> Samples]

NoisyWritten == WriteBuffer(core.nearNoisyFrameBuf, Frame)

CleanWritten(withClean) ==
  IF withClean THEN WriteBuffer(core.nearCleanFrameBuf, Frame) ELSE core.nearCleanFrameBuf

CleanTaken(withClean) ==
  IF withClean THEN ReadBuffer(CleanWritten(withClean), PART_LEN) ELSE CleanWritten(withClean)

LEMMA BufferedIs ==
  ASSUME Counters, InStep, NEW wc \in BOOLEAN
  PROVE  \E fb \in FarBufs, w \in 0..FAR_BUF_LEN :
           Buffered(wc) = CoreWith(fb, w, NoisyWritten, CleanWritten(wc), core.outFrameBuf)
  <1>1. /\ core \in CoreType /\ core.farBufWritePos = core.farBufReadPos
        /\ next \in 0..Period-1 /\ core.farFrameBuf = core.nearNoisyFrameBuf
    BY DEF InStep, Counters
  <1>2. PICK c : c = BufferFarFrame(core, Frame)
    OBVIOUS
  <1>3. FetchedFrame(c) = Frame
    BY <1>1, <1>2, DelayLine
  <1>4. PICK fb \in FarBufs, w \in 0..FAR_BUF_LEN :
          FetchFarFrame(c) = [core EXCEPT !.farBuf = fb, !.farBufWritePos = w,
                                          !.farBufReadPos = w]
    BY <1>1, <1>2, DelayLine DEF FarBufs
  <1>5. Buffered(wc) = BufferFrames(FetchFarFrame(c), Frame, Frame, wc)
    BY <1>2, <1>3 DEF Buffered
  <1>6. core = [farBuf |-> core.farBuf, farBufWritePos |-> core.farBufWritePos,
                farBufReadPos |-> core.farBufReadPos, farFrameBuf |-> core.farFrameBuf,
                nearNoisyFrameBuf |-> core.nearNoisyFrameBuf,
                nearCleanFrameBuf |-> core.nearCleanFrameBuf,
                outFrameBuf |-> core.outFrameBuf]
    BY <1>1 DEF CoreType
  <1>7. FetchFarFrame(c) = CoreWith(fb, w, core.nearNoisyFrameBuf, core.nearCleanFrameBuf,
                                    core.outFrameBuf)
    BY <1>1, <1>4, <1>6 DEF CoreWith
  <1>8. PICK d : d = FetchFarFrame(c)
    OBVIOUS
  <1>9. /\ d.farFrameBuf = core.nearNoisyFrameBuf
        /\ d.nearNoisyFrameBuf = core.nearNoisyFrameBuf
        /\ d.nearCleanFrameBuf = core.nearCleanFrameBuf
    BY <1>7, <1>8 DEF CoreWith
  <1>10. PICK e, n, cl, o : /\ e = BufferFrames(d, Frame, Frame, wc) /\ n = NoisyWritten
                            /\ cl = CleanWritten(wc) /\ o = core.outFrameBuf
    OBVIOUS
  <1>11. e = [d EXCEPT !.farFrameBuf = n, !.nearNoisyFrameBuf = n, !.nearCleanFrameBuf = cl]
    BY <1>9, <1>10 DEF BufferFrames, NoisyWritten, CleanWritten
  <1>12. PICK x, y : d = CoreWith(fb, w, x, y, o)
    BY <1>7, <1>8, <1>10
  <1>13. e = CoreWith(fb, w, n, cl, o)
    BY <1>11, <1>12 DEF CoreWith
  <1> QED BY <1>5, <1>8, <1>10, <1>13

LEMMA TakenIs ==
  ASSUME NEW fb, NEW w, NEW ob, NEW wc \in BOOLEAN, NEW c,
         c = CoreWith(fb, w, NoisyWritten, CleanWritten(wc), ob)
  PROVE  /\ TakeBlock(c, wc) = CoreWith(fb, w, ReadBuffer(NoisyWritten, PART_LEN),
                                        CleanTaken(wc), ob)
         /\ TakenBlock(c, wc) =
              [far |-> ReadData(NoisyWritten, PART_LEN),
               noisy |-> ReadData(NoisyWritten, PART_LEN),
               clean |-> IF wc THEN ReadData(CleanWritten(wc), PART_LEN) ELSE << >>]
  <1>1. /\ c.farFrameBuf = NoisyWritten /\ c.nearNoisyFrameBuf = NoisyWritten
        /\ c.nearCleanFrameBuf = CleanWritten(wc)
    BY DEF CoreWith
  <1>2. TakeBlock(c, wc) =
          [c EXCEPT !.farFrameBuf = ReadBuffer(NoisyWritten, PART_LEN),
                    !.nearNoisyFrameBuf = ReadBuffer(NoisyWritten, PART_LEN),
                    !.nearCleanFrameBuf = CleanTaken(wc)]
    BY <1>1 DEF TakeBlock, CleanTaken
  <1>3. TakeBlock(c, wc) = CoreWith(fb, w, ReadBuffer(NoisyWritten, PART_LEN),
                                    CleanTaken(wc), ob)
    BY <1>2 DEF CoreWith
  <1>4. TakenBlock(c, wc) =
              [far |-> ReadData(NoisyWritten, PART_LEN),
               noisy |-> ReadData(NoisyWritten, PART_LEN),
               clean |-> IF wc THEN ReadData(CleanWritten(wc), PART_LEN) ELSE << >>]
    BY <1>1 DEF TakenBlock
  <1> QED BY <1>3, <1>4

\* The output buffer from which the frame is read.
Stuffed(ob) == IF available_read(ob) < FRAME_LEN
               THEN MoveReadPtr(ob, available_read(ob) - FRAME_LEN) ELSE ob

LEMMA OutputIs ==
  ASSUME NEW fb, NEW w, NEW nb, NEW cb, NEW ob, Output(CoreWith(fb, w, nb, cb, ob))
  PROVE  /\ out' = ReadData(Stuffed(ob), FRAME_LEN)
         /\ core' = CoreWith(fb, w, nb, cb, ReadBuffer(Stuffed(ob), FRAME_LEN))
  BY DEF CoreWith, Output, MustStuff, Stuff, Stuffed

\* The frame that leaves the core when there is enough output ...
LEMMA Delivered ==
  ASSUME NEW ob, IsBuf(ob), available_read(ob) >= FRAME_LEN
  PROVE  /\ IsBuf(ReadBuffer(Stuffed(ob), FRAME_LEN))
         /\ available_read(ReadBuffer(Stuffed(ob), FRAME_LEN)) = available_read(ob) - FRAME_LEN
         /\ ReadData(Stuffed(ob), FRAME_LEN) \in [1..FRAME_LEN -> Samples]
         /\ \A i \in 1..FRAME_LEN : ReadData(Stuffed(ob), FRAME_LEN)[i] = Unread(ob, i)
         /\ \A i \in 1..available_read(ob) - FRAME_LEN :
              Unread(ReadBuffer(Stuffed(ob), FRAME_LEN), i) = Unread(ob, FRAME_LEN + i)
  <1>1. WellFormed(ob, Capacity, Samples) /\ FRAME_LEN \in Nat /\ Capacity \in Nat \ {0}
    BY Constants DEF IsBuf
  <1>2. available_read(ob) \in 0..Capacity
    BY <1>1, AvailableBounds
  <1>3. Stuffed(ob) = ob
    BY <1>1, <1>2 DEF Stuffed
  <1>4. FRAME_LEN <= available_read(ob)
    BY <1>1, <1>2
  <1> QED BY <1>1, <1>3, <1>4, QueueRead DEF IsBuf

\* ... and when there is not: the buffer is rewound over what it held before.
LEMMA Rewound ==
  ASSUME NEW ob, IsBuf(ob), available_read(ob) < FRAME_LEN
  PROVE  /\ IsBuf(ReadBuffer(Stuffed(ob), FRAME_LEN))
         /\ available_read(ReadBuffer(Stuffed(ob), FRAME_LEN)) = 0
         /\ Written(ReadBuffer(Stuffed(ob), FRAME_LEN)) = Written(ob)
         /\ ReadData(Stuffed(ob), FRAME_LEN) \in [1..FRAME_LEN -> Samples]
         /\ \A i \in 1..FRAME_LEN :
              ReadData(Stuffed(ob), FRAME_LEN)[i] = Written(ob)[PART_LEN + i]
  <1>1. /\ WellFormed(ob, Capacity, Samples) /\ FRAME_LEN \in Nat /\ Capacity \in Nat \ {0}
        /\ PART_LEN \in Nat /\ Capacity = FRAME_LEN + PART_LEN
    BY Constants DEF IsBuf
  <1>2. available_read(ob) \in 0..Capacity
    BY <1>1, AvailableBounds
  <1>3. Stuffed(ob) = MoveReadPtr(ob, available_read(ob) - FRAME_LEN)
    BY DEF Stuffed
  <1>4. available_read(ob) <= FRAME_LEN /\ FRAME_LEN <= Capacity
    BY <1>1, <1>2
  <1>5. PICK sb : sb = Stuffed(ob)
    OBVIOUS
  <1>6. WellFormed(sb, Capacity, Samples) /\ available_read(sb) = FRAME_LEN
        /\ Written(sb) = Written(ob)
    BY <1>1, <1>3, <1>4, <1>5, QueueRewind
  <1>7. FRAME_LEN <= available_read(sb)
    BY <1>6, <1>1
  <1>8. /\ WellFormed(ReadBuffer(sb, FRAME_LEN), Capacity, Samples)
        /\ available_read(ReadBuffer(sb, FRAME_LEN)) = available_read(sb) - FRAME_LEN
        /\ Written(ReadBuffer(sb, FRAME_LEN)) = Written(sb)
        /\ ReadData(sb, FRAME_LEN) \in [1..FRAME_LEN -> Samples]
        /\ \A i \in 1..FRAME_LEN : ReadData(sb, FRAME_LEN)[i] = Unread(sb, i)
    BY <1>1, <1>6, <1>7, QueueRead
  <1>9. ASSUME NEW i \in 1..FRAME_LEN PROVE Unread(sb, i) = Written(ob)[PART_LEN + i]
    <2>1. sb.element_count = Capacity
      BY <1>6 DEF WellFormed, RingBufferType
    <2>2. sb.element_count - available_read(sb) + i = PART_LEN + i
      BY <2>1, <1>1, <1>6
    <2> QED BY <2>2, <1>6 DEF Unread
  <1>10. available_read(sb) - FRAME_LEN = 0
    BY <1>6, <1>1
  <1> QED BY <1>5, <1>6, <1>8, <1>9, <1>10 DEF IsBuf

-----------------------------------------------------------------------------
(* The parts of a step that several actions share.                         *)

LEMMA UnitFacts ==
  /\ Unit \in Nat \ {0} /\ Latency = PART_LEN - Unit
  /\ \E k \in Nat : FRAME_LEN = Unit * k
  /\ \E k \in Nat : PART_LEN = Unit * k
  <1>1. Latency \in Nat /\ Latency < PART_LEN /\ PART_LEN \in Nat /\ FRAME_LEN \in Nat
    BY LatencyBounds, Constants
  <1>2. PICK u \in Nat \ {0} : u = Unit /\ Latency = PART_LEN - u
    BY <1>1 DEF Unit
  <1>3. FRAME_LEN % u = 0 /\ PART_LEN % u = 0
    BY <1>2, UnitAssumption
  <1>4. ASSUME NEW n \in Nat, n % u = 0 PROVE \E k \in Nat : n = u * k
    <2>1. n = u * (n \div u) + (n % u) /\ n \div u \in Nat
      OBVIOUS
    <2>2. PICK k \in Nat : k = n \div u
      BY <2>1
    <2>3. n = u * k + 0
      BY <2>1, <2>2, <1>4
    <2>4. n = u * k
      BY <2>3
    <2> QED BY <2>4
  <1> QED BY <1>1, <1>2, <1>3, <1>4

\* Less than a block, in units, is at most the latency.
LEMMA UnitBelow ==
  ASSUME NEW a \in Nat, \E k \in Nat : a = Unit * k, a < PART_LEN
  PROVE  a <= Latency
  <1>1. PICK j \in Nat, k \in Nat, u \in Nat \ {0} :
          u = Unit /\ a = u * j /\ PART_LEN = u * k /\ Latency = PART_LEN - u
    BY UnitFacts
  <1>2. u * j < u * k /\ j \in Int /\ k \in Int
    BY <1>1
  <1>3. u * j <= u * k - u
    BY <1>2, MultipleBelow
  <1> QED BY <1>1, <1>3

\* A frame more, and a block less, are whole numbers of units as well.
LEMMA UnitSteps ==
  ASSUME NEW a \in Nat, \E k \in Nat : a = Unit * k
  PROVE  /\ \E k \in Nat : a + FRAME_LEN = Unit * k
         /\ a + FRAME_LEN >= PART_LEN => \E k \in Nat : a + FRAME_LEN - PART_LEN = Unit * k
  <1>1. PICK j \in Nat, f \in Nat, p \in Nat, u \in Nat \ {0} :
          u = Unit /\ a = u * j /\ FRAME_LEN = u * f /\ PART_LEN = u * p
    BY UnitFacts
  <1>2. a + FRAME_LEN = u * (j + f) /\ j + f \in Nat
    BY <1>1
  <1>3. ASSUME a + FRAME_LEN >= PART_LEN
        PROVE  \E k \in Nat : a + FRAME_LEN - PART_LEN = Unit * k
    <2>1. j + f >= p
      <3> SUFFICES ASSUME j + f < p PROVE FALSE
        BY <1>1
      <3>1. PICK e \in Nat : p = j + f + 1 + e
        BY <1>1
      <3>2. u * p = u * (j + f) + u + u * e /\ u * e >= 0
        BY <1>1, <3>1
      <3> QED BY <3>2, <1>1, <1>2, <1>3
    <2>2. PICK k \in Nat : j + f = p + k
      BY <2>1, <1>1
    <2>3. u * (j + f) = u * p + u * k
      BY <2>2, <1>1
    <2>4. u * k \in Nat
      BY <1>1
    <2>5. a + FRAME_LEN - PART_LEN = u * k
      BY <2>3, <2>4, <1>1, <1>2
    <2> QED BY <2>5, <1>1
  <1> QED BY <1>1, <1>2, <1>3

\* The next frame starts where this one ends.
LEMMA NextIs ==
  ASSUME Counters, Advance
  PROVE  /\ next' \in 0..Period-1
         /\ \A k \in Int : (next' + k) % Period = (next + FRAME_LEN + k) % Period
  <1>1. PICK a \in Int : a = next + FRAME_LEN
    BY Constants DEF Counters
  <1>2. next' = a % Period
    BY <1>1 DEF Advance
  <1> QED BY <1>1, <1>2, ModRange, ModAdd, Constants

\* The near-end buffer after the frame is written: nothing was cut.
LEMMA InputQueue ==
  ASSUME Counters, InStep, Backlog
  PROVE  /\ Waiting \in Nat /\ Pending \in Nat
         /\ IsBuf(NoisyWritten)
         /\ available_read(NoisyWritten) = Waiting + FRAME_LEN
         /\ \A i \in 1..Waiting + FRAME_LEN :
              Unread(NoisyWritten, i) = (next - Waiting + i - 1) % Period
  <1> DEFINE b == core.nearNoisyFrameBuf
  <1>1. WellFormed(b, Capacity, Samples) /\ Capacity \in Nat \ {0}
    BY Constants DEF InStep, IsBuf
  <1>2. Waiting \in Nat /\ Waiting = available_read(b)
    BY <1>1, AvailableBounds DEF Waiting
  <1>3. Pending \in Nat
    BY Constants, AvailableBounds DEF Pending, InStep, IsBuf
  <1>4. Frame \in Seq(Samples) /\ Len(Frame) = FRAME_LEN
    BY FrameSamples DEF Counters
  <1>5. available_read(b) + Len(Frame) <= Capacity
    BY <1>2, <1>3, <1>4, LatencyBounds, Constants DEF Backlog
  <1>6. /\ IsBuf(NoisyWritten) /\ available_read(NoisyWritten) = Waiting + FRAME_LEN
    BY <1>1, <1>2, <1>4, <1>5, QueueWrite DEF NoisyWritten, IsBuf
  <1>7. \A i \in 1..available_read(b) : Unread(NoisyWritten, i) = Unread(b, i)
    BY <1>1, <1>4, <1>5, QueueWrite DEF NoisyWritten
  <1>8. \A i \in 1..Len(Frame) : Unread(NoisyWritten, available_read(b) + i) = Frame[i]
    BY <1>1, <1>4, <1>5, QueueWrite DEF NoisyWritten
  <1>9. ASSUME NEW i \in 1..Waiting + FRAME_LEN
        PROVE  Unread(NoisyWritten, i) = (next - Waiting + i - 1) % Period
    <2>0. next \in Int /\ FRAME_LEN \in Nat
      BY Constants DEF Counters
    <2>1. CASE i <= Waiting
      BY <2>1, <1>2, <1>7 DEF Backlog
    <2>2. CASE ~(i <= Waiting)
      <3>1. PICK j \in 1..FRAME_LEN : i = Waiting + j
        <4>1. i - Waiting \in 1..FRAME_LEN /\ i = Waiting + (i - Waiting)
          BY <2>0, <2>2, <1>2
        <4> QED BY <4>1
      <3>2. Frame[j] = (next + j - 1) % Period
        BY FrameSamples DEF Counters
      <3>3. next - Waiting + i - 1 = next + j - 1
        BY <3>1, <2>0, <1>2
      <3> QED BY <3>1, <3>2, <3>3, <1>2, <1>4, <1>8
    <2> QED BY <2>1, <2>2
  <1> QED BY <1>2, <1>3, <1>6, <1>9

\* The clean buffer is well formed whatever the caller passes.
LEMMA CleanBufs ==
  ASSUME Counters, InStep, NEW wc \in CleanGiven
  PROVE  /\ wc \in BOOLEAN
         /\ IsBuf(CleanWritten(wc)) /\ IsBuf(CleanTaken(wc))
         /\ FALSE \notin CleanGiven => /\ CleanWritten(wc) = NoisyWritten
                                       /\ CleanTaken(wc) = ReadBuffer(NoisyWritten, PART_LEN)
  <1>1. wc \in BOOLEAN
    BY AecmFrameAssumption
  <1>2. Frame \in Seq(Samples) /\ Capacity \in Nat \ {0} /\ PART_LEN \in Nat
    BY FrameSamples, Constants DEF Counters
  <1>3. IsBuf(WriteBuffer(core.nearCleanFrameBuf, Frame))
    BY <1>2, WriteWellFormed DEF InStep, IsBuf
  <1>4. IsBuf(CleanWritten(wc))
    BY <1>3 DEF CleanWritten, InStep
  <1>5. IsBuf(ReadBuffer(CleanWritten(wc), PART_LEN))
    BY <1>2, <1>4, ReadWellFormed DEF IsBuf
  <1>6. IsBuf(CleanTaken(wc))
    BY <1>4, <1>5 DEF CleanTaken
  <1>7. ASSUME FALSE \notin CleanGiven
        PROVE  /\ CleanWritten(wc) = NoisyWritten
               /\ CleanTaken(wc) = ReadBuffer(NoisyWritten, PART_LEN)
    <2>1. wc = TRUE
      BY <1>1, <1>7
    <2> QED BY <1>7, <2>1 DEF CleanWritten, CleanTaken, NoisyWritten, InStep
  <1> QED BY <1>1, <1>4, <1>6, <1>7

LEMMA InStepNext ==
  ASSUME NEW fb \in FarBufs, NEW w \in 0..FAR_BUF_LEN, NEW nb, NEW cb, NEW ob,
         IsBuf(nb), IsBuf(cb), IsBuf(ob), FALSE \notin CleanGiven => cb = nb,
         core' = CoreWith(fb, w, nb, cb, ob)
  PROVE  /\ InStep' /\ core'.nearNoisyFrameBuf = nb /\ core'.outFrameBuf = ob
         /\ Waiting' = available_read(nb) /\ Pending' = available_read(ob)
  <1>1. /\ core'.nearNoisyFrameBuf = nb /\ core'.outFrameBuf = ob
        /\ core'.nearCleanFrameBuf = cb /\ core'.farFrameBuf = nb
        /\ core'.farBufWritePos = w /\ core'.farBufReadPos = w
    BY DEF CoreWith
  <1>2. core' \in CoreType
    BY DEF CoreWith, CoreType, FarBufs, IsBuf, WellFormed
  <1> QED BY <1>1, <1>2 DEF InStep, IsBuf, Waiting, Pending

\* The counter of frames passes the latency once.
LEMMA FrameCount ==
  ASSUME Counters, Advance
  PROVE  /\ frames' \in 0..MaxFrames
         /\ frames * FRAME_LEN \in Nat /\ frames' * FRAME_LEN \in Nat
         /\ frames * FRAME_LEN <= Latency =>
              frames' * FRAME_LEN = frames * FRAME_LEN + FRAME_LEN
         /\ frames * FRAME_LEN > Latency => frames' * FRAME_LEN > Latency
  <1>1. /\ FRAME_LEN \in Nat \ {0} /\ Latency \in Nat /\ MaxFrames \in Nat
        /\ MaxFrames * FRAME_LEN > Latency /\ frames \in 0..MaxFrames
    BY Constants, LatencyBounds, AecmFrameAssumption, UnitAssumption DEF Counters
  <1>2. CASE frames < MaxFrames
    <2>1. frames' = frames + 1
      BY <1>2 DEF Advance
    <2>2. frames' * FRAME_LEN = frames * FRAME_LEN + FRAME_LEN
      BY <2>1, <1>1
    <2>3. frames * FRAME_LEN \in Nat
      BY <1>1
    <2> QED BY <1>1, <1>2, <2>1, <2>2, <2>3
  <1>3. CASE ~(frames < MaxFrames)
    <2>1. frames' = frames /\ frames = MaxFrames
      BY <1>1, <1>3 DEF Advance
    <2> QED BY <1>1, <2>1
  <1> QED BY <1>2, <1>3

-----------------------------------------------------------------------------
(* Each action preserves the invariant.                                    *)

LEMMA WithoutBlock ==
  ASSUME IndInv, NEW wc \in CleanGiven, FrameWithoutBlock(wc)
  PROVE  IndInv'
  <1>0. Counters /\ InStep /\ Backlog /\ Starting /\ Steady /\ wc \in BOOLEAN
    BY CleanBufs DEF IndInv
  <1>1. PICK fb \in FarBufs, w \in 0..FAR_BUF_LEN :
          Buffered(wc) = CoreWith(fb, w, NoisyWritten, CleanWritten(wc), core.outFrameBuf)
    BY <1>0, BufferedIs
  <1>2. PICK c, ob : c = Buffered(wc) /\ ob = core.outFrameBuf
    OBVIOUS
  <1>3. /\ ~BlockReady(c) /\ block' = NoBlock /\ Output(c) /\ Advance /\ fails' = fails
    BY <1>2 DEF FrameWithoutBlock
  <1>4. PICK ob2 : ob2 = ReadBuffer(Stuffed(ob), FRAME_LEN)
    OBVIOUS
  <1>5. /\ out' = ReadData(Stuffed(ob), FRAME_LEN)
        /\ core' = CoreWith(fb, w, NoisyWritten, CleanWritten(wc), ob2)
    BY <1>1, <1>2, <1>3, <1>4, OutputIs
  <1>6. PICK a \in Nat, o \in Nat : a = Waiting /\ o = Pending
    BY <1>0, InputQueue
  <1>7. /\ IsBuf(NoisyWritten) /\ available_read(NoisyWritten) = a + FRAME_LEN
        /\ \A i \in 1..a + FRAME_LEN : Unread(NoisyWritten, i) = (next - a + i - 1) % Period
    BY <1>0, <1>6, InputQueue
  <1>8. a + FRAME_LEN < PART_LEN
    <2>1. c.farFrameBuf = NoisyWritten
      BY <1>1, <1>2 DEF CoreWith
    <2> QED BY <2>1, <1>3, <1>6, <1>7, Constants DEF BlockReady
  <1>9. /\ FRAME_LEN \in Nat \ {0} /\ PART_LEN \in Nat /\ Latency \in Nat
        /\ next \in Int /\ Capacity = FRAME_LEN + PART_LEN
    BY <1>0, Constants, LatencyBounds DEF Counters
  <1>10. IsBuf(ob) /\ o = available_read(ob)
    BY <1>0, <1>2, <1>6 DEF InStep, Pending
  <1>11. a + o <= Latency /\ \E k \in Nat : a = Unit * k
    BY <1>0, <1>6 DEF Backlog
  <1>12. (\E k \in Nat : a + FRAME_LEN = Unit * k) /\ a + FRAME_LEN <= Latency
    <2>1. \E k \in Nat : a + FRAME_LEN = Unit * k
      BY <1>6, <1>11, UnitSteps
    <2>2. PICK b \in Nat : b = a + FRAME_LEN
      BY <1>6, <1>9
    <2> QED BY <2>1, <2>2, <1>8, UnitBelow
  <1>13. /\ IsBuf(ob2) /\ out' \in [1..FRAME_LEN -> Samples]
         /\ available_read(ob2) = IF o < FRAME_LEN THEN 0 ELSE o - FRAME_LEN
    <2>1. CASE o < FRAME_LEN
      BY <2>1, <1>4, <1>5, <1>10, Rewound
    <2>2. CASE ~(o < FRAME_LEN)
      <3>1. o >= FRAME_LEN
        BY <2>2, <1>6, <1>9
      <3> QED BY <2>2, <3>1, <1>4, <1>5, <1>10, Delivered
    <2> QED BY <2>1, <2>2
  <1>14. /\ InStep' /\ core'.nearNoisyFrameBuf = NoisyWritten /\ core'.outFrameBuf = ob2
         /\ Waiting' = a + FRAME_LEN /\ Pending' = available_read(ob2)
    BY <1>0, <1>5, <1>7, <1>13, CleanBufs, InStepNext
  <1>15. /\ next' \in 0..Period-1
         /\ \A k \in Int : (next' + k) % Period = (next + FRAME_LEN + k) % Period
    BY <1>0, <1>3, NextIs
  <1>16. Counters'
    BY <1>0, <1>3, <1>15, FrameCount DEF Counters
  <1>17. Backlog'
    <2>1. a + FRAME_LEN + available_read(ob2) <= Latency
      BY <1>6, <1>9, <1>11, <1>12, <1>13
    <2>2. ASSUME NEW i \in 1..a + FRAME_LEN
          PROVE  Unread(NoisyWritten, i) = (next' - (a + FRAME_LEN) + i - 1) % Period
      <3>1. PICK k \in Int : k = i - 1 - (a + FRAME_LEN)
        BY <1>6, <1>9
      <3>2. /\ next' - (a + FRAME_LEN) + i - 1 = next' + k
            /\ next + FRAME_LEN + k = next - a + i - 1
        BY <3>1, <1>6, <1>9, <1>15
      <3> QED BY <3>2, <1>7, <1>15
    <2> QED BY <2>1, <2>2, <1>12, <1>14 DEF Backlog
  <1>18. frames * FRAME_LEN \in Nat
    BY <1>0, <1>3, FrameCount
  <1>19. Starting' /\ Steady' /\ SteadyLatency'
    <2>1. CASE fails = 0 /\ frames * FRAME_LEN <= Latency
      <3>1. a = frames * FRAME_LEN /\ o = 0 /\ \A i \in 1..Capacity : Written(ob)[i] = Zero
        BY <1>0, <1>2, <1>6, <2>1 DEF Starting
      <3>2. frames' * FRAME_LEN = a + FRAME_LEN /\ frames' * FRAME_LEN <= Latency
        BY <3>1, <1>0, <1>3, <1>12, <2>1, FrameCount
      <3>3. available_read(ob) < FRAME_LEN
        BY <3>1, <1>9, <1>10
      <3>4. /\ available_read(ob2) = 0 /\ Written(ob2) = Written(ob)
            /\ \A i \in 1..FRAME_LEN : out'[i] = Written(ob)[PART_LEN + i]
        BY <3>3, <1>4, <1>5, <1>10, Rewound
      <3>5. ASSUME NEW i \in 1..FRAME_LEN PROVE out'[i] = Zero
        <4>1. PART_LEN + i \in 1..Capacity
          BY <1>9
        <4> QED BY <4>1, <3>1, <3>4
      <3>6. Starting'
        BY <3>1, <3>2, <3>4, <1>3, <1>14 DEF Starting
      <3>7. Steady'
        BY <3>2, <1>9, <1>12 DEF Steady
      <3>8. SteadyLatency'
        BY <3>2, <3>5 DEF SteadyLatency
      <3> QED BY <3>6, <3>7, <3>8
    <2>2. CASE fails = 0 /\ frames * FRAME_LEN > Latency
      <3>1. a + o = Latency /\ \A i \in 1..o : Unread(ob, i) = (next - Latency + i - 1) % Period
        BY <1>0, <1>2, <1>6, <2>2 DEF Steady
      <3>2. frames' * FRAME_LEN > Latency /\ frames' * FRAME_LEN \in Nat
        BY <1>0, <1>3, <2>2, FrameCount
      <3>3. o >= FRAME_LEN
        BY <3>1, <1>6, <1>9, <1>12
      <3>4. /\ available_read(ob2) = o - FRAME_LEN
            /\ \A i \in 1..FRAME_LEN : out'[i] = Unread(ob, i)
            /\ \A i \in 1..o - FRAME_LEN : Unread(ob2, i) = Unread(ob, FRAME_LEN + i)
        BY <3>3, <1>4, <1>5, <1>10, Delivered
      <3>5. ASSUME NEW i \in 1..FRAME_LEN
            PROVE  out'[i] = (next' - FRAME_LEN - Latency + i - 1) % Period
        <4>1. PICK k \in Int : k = i - 1 - Latency - FRAME_LEN
          BY <1>9
        <4>2. /\ next' - FRAME_LEN - Latency + i - 1 = next' + k
              /\ next + FRAME_LEN + k = next - Latency + i - 1 /\ i \in 1..o
          BY <4>1, <3>3, <1>6, <1>9, <1>15
        <4> QED BY <4>2, <3>1, <3>4, <1>15
      <3>6. ASSUME NEW i \in 1..o - FRAME_LEN
            PROVE  Unread(ob2, i) = (next' - Latency + i - 1) % Period
        <4>1. PICK k \in Int, j \in 1..o : k = i - 1 - Latency /\ j = FRAME_LEN + i
          <5>1. FRAME_LEN + i \in 1..o /\ i - 1 - Latency \in Int
            BY <3>3, <1>6, <1>9
          <5> QED BY <5>1
        <4>2. /\ next' - Latency + i - 1 = next' + k
              /\ next + FRAME_LEN + k = next - Latency + j - 1
          BY <4>1, <1>6, <1>9, <1>15
        <4> QED BY <4>1, <4>2, <3>1, <3>4, <1>15
      <3>7. a + FRAME_LEN + (o - FRAME_LEN) = Latency
        BY <3>1, <1>6, <1>9
      <3>8. Steady'
        BY <3>4, <3>6, <3>7, <1>14 DEF Steady
      <3>9. ~(frames' * FRAME_LEN <= Latency)
        BY <3>2, <1>9
      <3>10. Starting' /\ SteadyLatency'
        BY <3>5, <3>9 DEF Starting, SteadyLatency
      <3> QED BY <3>8, <3>10
    <2>3. CASE fails # 0
      BY <1>3, <2>3 DEF Starting, Steady, SteadyLatency
    <2> QED BY <1>9, <1>18, <2>1, <2>2, <2>3
  <1>20. Results'
    BY <1>3, <1>13, <1>19 DEF Results, Synchronized, CleanSynchronized, NoBlock
  <1> QED BY <1>14, <1>16, <1>17, <1>19, <1>20 DEF IndInv

\* The block that is taken, and what is left of the input behind it.
LEMMA TakenFacts ==
  ASSUME Counters, InStep, Backlog, Waiting + FRAME_LEN >= PART_LEN
  PROVE  /\ IsBuf(ReadBuffer(NoisyWritten, PART_LEN))
         /\ available_read(ReadBuffer(NoisyWritten, PART_LEN))
              = Waiting + FRAME_LEN - PART_LEN
         /\ \A i \in 1..Waiting + FRAME_LEN - PART_LEN :
              Unread(ReadBuffer(NoisyWritten, PART_LEN), i)
                = (next - Waiting + PART_LEN + i - 1) % Period
         /\ ReadData(NoisyWritten, PART_LEN) \in [1..PART_LEN -> Samples]
         /\ \A i \in 1..PART_LEN :
              ReadData(NoisyWritten, PART_LEN)[i] = (next - Waiting + i - 1) % Period
  <1>1. /\ Waiting \in Nat /\ PART_LEN \in Nat /\ FRAME_LEN \in Nat /\ next \in Int
        /\ Capacity \in Nat \ {0}
    BY InputQueue, Constants DEF Counters
  <1>2. PICK nb : nb = NoisyWritten
    OBVIOUS
  <1>3. /\ WellFormed(nb, Capacity, Samples) /\ available_read(nb) = Waiting + FRAME_LEN
        /\ \A i \in 1..Waiting + FRAME_LEN : Unread(nb, i) = (next - Waiting + i - 1) % Period
    BY <1>2, InputQueue DEF IsBuf
  <1>4. PART_LEN <= available_read(nb)
    BY <1>1, <1>3
  <1>5. /\ WellFormed(ReadBuffer(nb, PART_LEN), Capacity, Samples)
        /\ available_read(ReadBuffer(nb, PART_LEN)) = available_read(nb) - PART_LEN
        /\ ReadData(nb, PART_LEN) \in [1..PART_LEN -> Samples]
        /\ \A i \in 1..PART_LEN : ReadData(nb, PART_LEN)[i] = Unread(nb, i)
        /\ \A i \in 1..available_read(nb) - PART_LEN :
             Unread(ReadBuffer(nb, PART_LEN), i) = Unread(nb, PART_LEN + i)
    BY <1>1, <1>3, <1>4, QueueRead
  <1>6. available_read(nb) - PART_LEN = Waiting + FRAME_LEN - PART_LEN
    BY <1>1, <1>3
  <1>7. ASSUME NEW i \in 1..PART_LEN
        PROVE  ReadData(nb, PART_LEN)[i] = (next - Waiting + i - 1) % Period
    <2>1. i \in 1..Waiting + FRAME_LEN
      BY <1>1
    <2> QED BY <2>1, <1>3, <1>5
  <1>8. ASSUME NEW i \in 1..Waiting + FRAME_LEN - PART_LEN
        PROVE  Unread(ReadBuffer(nb, PART_LEN), i)
                 = (next - Waiting + PART_LEN + i - 1) % Period
    <2>1. PICK j \in 1..Waiting + FRAME_LEN : j = PART_LEN + i
      <3>1. PART_LEN + i \in 1..Waiting + FRAME_LEN
        BY <1>1
      <3> QED BY <3>1
    <2>2. Unread(ReadBuffer(nb, PART_LEN), i) = Unread(nb, j)
      <3>1. i \in 1..available_read(nb) - PART_LEN
        BY <1>6
      <3> QED BY <3>1, <2>1, <1>5
    <2>3. Unread(nb, j) = (next - Waiting + j - 1) % Period
      BY <1>3
    <2>4. next - Waiting + j - 1 = next - Waiting + PART_LEN + i - 1
      BY <2>1, <1>1
    <2> QED BY <2>2, <2>3, <2>4
  <1> QED BY <1>2, <1>5, <1>7, <1>8, <1>6 DEF IsBuf

\* A taken block is in step.
LEMMA BlockInStep ==
  ASSUME Counters, InStep, Backlog, Waiting + FRAME_LEN >= PART_LEN, NEW wc \in CleanGiven,
         block' = [far |-> ReadData(NoisyWritten, PART_LEN),
                   noisy |-> ReadData(NoisyWritten, PART_LEN),
                   clean |-> IF wc THEN ReadData(CleanWritten(wc), PART_LEN) ELSE << >>]
  PROVE  Synchronized' /\ (CleanGiven # BOOLEAN => CleanSynchronized')
  <1>1. PICK d, cl : /\ d = ReadData(NoisyWritten, PART_LEN)
                     /\ block' = [far |-> d, noisy |-> d, clean |-> cl]
                     /\ cl = IF wc THEN ReadData(CleanWritten(wc), PART_LEN) ELSE << >>
    OBVIOUS
  <1>2. /\ PART_LEN \in Nat \ {0} /\ Period \in Nat \ {0} /\ next \in Int /\ Waiting \in Nat
    BY Constants, InputQueue DEF Counters
  <1>3. d \in [1..PART_LEN -> Samples] /\ \A i \in 1..PART_LEN : d[i] = (next - Waiting + i - 1) % Period
    BY <1>1, TakenFacts
  <1>4. Len(d) = PART_LEN
    <2>1. d \in Seq(Samples) /\ DOMAIN d = 1..PART_LEN
      BY <1>2, <1>3
    <2> QED BY <2>1, <1>2
  <1>5. ASSUME NEW i \in 2..PART_LEN PROVE d[i] = (d[i-1] + 1) % Period
    <2>1. PICK a \in Int, j \in 1..PART_LEN : a = next - Waiting + j - 1 /\ j = i - 1
      <3>1. i - 1 \in 1..PART_LEN /\ next - Waiting + (i - 1) - 1 \in Int
        BY <1>2
      <3> QED BY <3>1
    <2>2. d[i-1] = a % Period
      BY <2>1, <1>3
    <2>3. ((a % Period) + 1) % Period = (a + 1) % Period
      <3>1. 1 \in Int
        OBVIOUS
      <3> QED BY <3>1, <2>1, <1>2, ModAdd
    <2>4. a + 1 = next - Waiting + i - 1 /\ i \in 1..PART_LEN
      BY <2>1, <1>2
    <2> QED BY <2>2, <2>3, <2>4, <1>3
  <1>6. d[1] \in 0..Period-1
    <2>1. PICK a \in Int : a = next - Waiting + 1 - 1
      BY <1>2
    <2>2. d[1] = a % Period
      BY <2>1, <1>2, <1>3
    <2> QED BY <2>2, <1>2, ModRange
  <1>7. Synchronized'
    BY <1>1, <1>4, <1>5, <1>6 DEF Synchronized
  <1>8. ASSUME CleanGiven # BOOLEAN PROVE CleanSynchronized'
    <2>1. CASE ~wc
      BY <2>1, <1>1 DEF CleanSynchronized
    <2>2. CASE wc
      <3>1. FALSE \notin CleanGiven
        BY <2>2, <1>8, CleanBufs, AecmFrameAssumption
      <3>2. CleanWritten(wc) = NoisyWritten
        BY <3>1, CleanBufs
      <3>3. cl = d
        BY <2>2, <3>2, <1>1
      <3> QED BY <3>3, <1>1 DEF CleanSynchronized
    <2> QED BY <2>1, <2>2
  <1> QED BY <1>7, <1>8

\* What waits after a block is taken.
LEMMA BacklogAfterBlock ==
  ASSUME Counters, InStep, Backlog, Waiting + FRAME_LEN >= PART_LEN, Advance,
         core'.nearNoisyFrameBuf = ReadBuffer(NoisyWritten, PART_LEN),
         Pending' \in Nat, Pending' <= Pending + PART_LEN - FRAME_LEN
  PROVE  Backlog'
  <1>1. PICK a, nb : a \in Nat /\ a = Waiting /\ nb = ReadBuffer(NoisyWritten, PART_LEN)
    BY InputQueue
  <1> a \in Nat BY <1>1
  <1>2. /\ PART_LEN \in Nat /\ FRAME_LEN \in Nat /\ next \in Int /\ Latency \in Nat
        /\ Pending \in Nat
    BY Constants, InputQueue, LatencyBounds DEF Counters
  <1>3. /\ available_read(nb) = a + FRAME_LEN - PART_LEN
        /\ \A i \in 1..a + FRAME_LEN - PART_LEN :
             Unread(nb, i) = (next - a + PART_LEN + i - 1) % Period
    BY <1>1, TakenFacts
  <1>4. /\ next' \in 0..Period-1
        /\ \A k \in Int : (next' + k) % Period = (next + FRAME_LEN + k) % Period
    BY NextIs
  <1>5. PICK a2 \in Nat : a2 = a + FRAME_LEN - PART_LEN
    BY <1>1, <1>2
  <1>6. ASSUME NEW i \in 1..a2
        PROVE  Unread(nb, i) = (next' - a2 + i - 1) % Period
    <2>1. PICK k \in Int : k = i - 1 - a2
      BY <1>5
    <2>2. /\ next' - a2 + i - 1 = next' + k
          /\ next + FRAME_LEN + k = next - a + PART_LEN + i - 1
      BY <2>1, <1>1, <1>2, <1>4, <1>5
    <2> QED BY <2>2, <1>3, <1>4, <1>5
  <1>7. Waiting' = a2
    BY <1>1, <1>3, <1>5 DEF Waiting
  <1>8. \E k \in Nat : a2 = Unit * k
    <2>1. \E k \in Nat : a = Unit * k
      BY <1>1 DEF Backlog
    <2> QED BY <2>1, <1>1, <1>5, UnitSteps
  <1>9. a + Pending <= Latency
    BY <1>1 DEF Backlog
  <1>10. a2 + Pending' <= Latency
    <2>1. PICK p \in Nat, q \in Nat :
            p = Pending /\ q = Pending' /\ q <= p + PART_LEN - FRAME_LEN /\ a + p <= Latency
      BY <1>2, <1>9
    <2>2. q <= p + PART_LEN - FRAME_LEN /\ a + p <= Latency
      BY <2>1
    <2>3. PART_LEN \in Int /\ FRAME_LEN \in Int /\ Latency \in Int
      BY <1>2
    <2>4. a2 + q <= Latency
      BY <2>2, <2>3, <1>5
    <2> QED BY <2>1, <2>4
  <1> QED BY <1>1, <1>6, <1>7, <1>8, <1>10 DEF Backlog

\* The block that ends the start is filled by the frame after Latency samples.
LEMMA StartEnds ==
  ASSUME NEW k \in Nat, k * FRAME_LEN <= Latency, k * FRAME_LEN + FRAME_LEN >= PART_LEN
  PROVE  k * FRAME_LEN = Latency
  <1>1. FRAME_LEN \in Nat \ {0} /\ PART_LEN \in Nat \ {0} /\ Latency \in Nat /\ Latency < PART_LEN
    BY Constants, LatencyBounds
  <1>2. PICK q \in Int : q = (PART_LEN - 1) \div FRAME_LEN
    BY <1>1
  <1>3. Latency = FRAME_LEN * q
    BY <1>2 DEF Latency
  <1>4. FRAME_LEN * k = k * FRAME_LEN /\ FRAME_LEN * k \in Nat /\ k \in Int
    BY <1>1
  <1>5. ASSUME FRAME_LEN * k < FRAME_LEN * q PROVE FALSE
    <2>1. FRAME_LEN * k <= FRAME_LEN * q - FRAME_LEN
      BY <1>1, <1>2, <1>4, <1>5, MultipleBelow
    <2> QED BY <2>1, <1>1, <1>3, <1>4
  <1> QED BY <1>1, <1>3, <1>4, <1>5

LEMMA WithBlock ==
  ASSUME IndInv, NEW wc \in CleanGiven, FrameWithBlock(wc)
  PROVE  IndInv'
  <1>0. Counters /\ InStep /\ Backlog /\ Starting /\ Steady /\ wc \in BOOLEAN
    BY CleanBufs DEF IndInv
  <1>1. PICK fb \in FarBufs, w \in 0..FAR_BUF_LEN :
          Buffered(wc) = CoreWith(fb, w, NoisyWritten, CleanWritten(wc), core.outFrameBuf)
    BY <1>0, BufferedIs
  <1>2. PICK c, ob : /\ c = Buffered(wc) /\ ob = core.outFrameBuf
                     /\ c = CoreWith(fb, w, NoisyWritten, CleanWritten(wc), ob)
    BY <1>1
  <1>3. /\ BlockReady(c) /\ block' = TakenBlock(c, wc) /\ Advance /\ fails' = fails
        /\ Output(EmitBlock(TakeBlock(c, wc), block'.noisy))
    BY <1>2 DEF FrameWithBlock
  <1>4. PICK d, nb, cb : /\ d = ReadData(NoisyWritten, PART_LEN)
                         /\ nb = ReadBuffer(NoisyWritten, PART_LEN) /\ cb = CleanTaken(wc)
    OBVIOUS
  <1>5. /\ TakeBlock(c, wc) = CoreWith(fb, w, nb, cb, ob)
        /\ block' = [far |-> d, noisy |-> d,
                     clean |-> IF wc THEN ReadData(CleanWritten(wc), PART_LEN) ELSE << >>]
    BY <1>0, <1>2, <1>3, <1>4, TakenIs
  <1>6. PICK ob1, ob2 : ob1 = WriteBuffer(ob, d) /\ ob2 = ReadBuffer(Stuffed(ob1), FRAME_LEN)
    OBVIOUS
  <1>7. EmitBlock(TakeBlock(c, wc), block'.noisy) = CoreWith(fb, w, nb, cb, ob1)
    <2>1. block'.noisy = d
      BY <1>5
    <2>2. EmitBlock(CoreWith(fb, w, nb, cb, ob), d) = CoreWith(fb, w, nb, cb, ob1)
      BY <1>6 DEF EmitBlock, CoreWith
    <2> QED BY <2>1, <2>2, <1>5
  <1>8. /\ out' = ReadData(Stuffed(ob1), FRAME_LEN) /\ core' = CoreWith(fb, w, nb, cb, ob2)
    BY <1>3, <1>6, <1>7, OutputIs
  <1>9. PICK a \in Nat, o \in Nat : a = Waiting /\ o = Pending
    BY <1>0, InputQueue
  <1>10. /\ FRAME_LEN \in Nat \ {0} /\ PART_LEN \in Nat \ {0} /\ Latency \in Nat
         /\ FRAME_LEN <= PART_LEN /\ Latency < PART_LEN
         /\ next \in Int /\ Capacity = FRAME_LEN + PART_LEN /\ Capacity \in Nat \ {0}
    BY <1>0, Constants, LatencyBounds DEF Counters
  <1>11. a + FRAME_LEN >= PART_LEN
    <2>1. c.farFrameBuf = NoisyWritten
      BY <1>2 DEF CoreWith
    <2> QED BY <2>1, <1>0, <1>3, <1>9, InputQueue DEF BlockReady
  <1>12. Waiting + FRAME_LEN >= PART_LEN
    BY <1>9, <1>11
  <1>13. /\ IsBuf(nb) /\ available_read(nb) = a + FRAME_LEN - PART_LEN
         /\ d \in [1..PART_LEN -> Samples]
         /\ \A i \in 1..PART_LEN : d[i] = (next - a + i - 1) % Period
    BY <1>0, <1>4, <1>9, <1>12, TakenFacts
  <1>14. a + o <= Latency /\ WellFormed(ob, Capacity, Samples) /\ o = available_read(ob)
    BY <1>0, <1>2, <1>9 DEF Backlog, InStep, Pending, IsBuf
  <1>15. d \in Seq(Samples) /\ Len(d) = PART_LEN
    <2>1. d \in Seq(Samples) /\ DOMAIN d = 1..PART_LEN
      BY <1>10, <1>13
    <2> QED BY <2>1, <1>10
  <1>16. available_read(ob) + Len(d) <= Capacity
    BY <1>9, <1>10, <1>11, <1>14, <1>15
  <1>17. /\ IsBuf(ob1) /\ available_read(ob1) = o + PART_LEN
         /\ \A i \in 1..o : Unread(ob1, i) = Unread(ob, i)
         /\ \A i \in 1..PART_LEN : Unread(ob1, o + i) = d[i]
    <2>1. IsBuf(ob1) /\ available_read(ob1) = o + PART_LEN
      BY <1>6, <1>10, <1>14, <1>15, <1>16, QueueWrite DEF IsBuf
    <2>2. \A i \in 1..available_read(ob) : Unread(ob1, i) = Unread(ob, i)
      BY <1>6, <1>10, <1>14, <1>15, <1>16, QueueWrite
    <2>3. \A i \in 1..Len(d) : Unread(ob1, available_read(ob) + i) = d[i]
      <3>1. Capacity \in Nat \ {0} /\ WellFormed(ob, Capacity, Samples)
        BY <1>10, <1>14
      <3>2. \A i \in 1..Len(d) : Unread(WriteBuffer(ob, d), available_read(ob) + i) = d[i]
        BY <3>1, <1>15, <1>16, QueueWrite
      <3> QED BY <3>2, <1>6
    <2> QED BY <2>1, <2>2, <2>3, <1>14, <1>15
  <1>18. available_read(ob1) >= FRAME_LEN
    BY <1>9, <1>10, <1>17
  <1>19. /\ IsBuf(ob2) /\ out' \in [1..FRAME_LEN -> Samples]
         /\ available_read(ob2) = available_read(ob1) - FRAME_LEN
         /\ \A i \in 1..FRAME_LEN : out'[i] = Unread(ob1, i)
         /\ \A i \in 1..available_read(ob1) - FRAME_LEN :
              Unread(ob2, i) = Unread(ob1, FRAME_LEN + i)
    BY <1>6, <1>8, <1>17, <1>18, Delivered
  <1>20. PICK o2 \in Nat : /\ o2 = o + PART_LEN - FRAME_LEN /\ o2 = available_read(ob2)
                           /\ o2 = available_read(ob1) - FRAME_LEN
    <2>1. PICK o2 \in Nat : o2 = o + PART_LEN - FRAME_LEN
      BY <1>9, <1>10
    <2>2. o2 = available_read(ob1) - FRAME_LEN
      BY <2>1, <1>9, <1>10, <1>17
    <2>3. o2 = available_read(ob2)
      BY <2>2, <1>19
    <2> QED BY <2>1, <2>2, <2>3
  <1>21. IsBuf(cb) /\ (FALSE \notin CleanGiven => cb = nb)
    BY <1>0, <1>4, CleanBufs
  <1>22. /\ InStep' /\ core'.nearNoisyFrameBuf = nb /\ core'.outFrameBuf = ob2
         /\ Waiting' = available_read(nb) /\ Pending' = available_read(ob2)
    BY <1>8, <1>13, <1>19, <1>21, InStepNext
  <1>23. /\ next' \in 0..Period-1
         /\ \A k \in Int : (next' + k) % Period = (next + FRAME_LEN + k) % Period
    BY <1>0, <1>3, NextIs
  <1>24. Counters'
    BY <1>0, <1>3, <1>23, FrameCount DEF Counters
  <1>25. Backlog'
    <2>1. Pending' \in Nat /\ Pending' <= Pending + PART_LEN - FRAME_LEN
      <3>1. Pending' = o2 /\ Pending = o
        BY <1>9, <1>20, <1>22
      <3>2. o2 <= o + PART_LEN - FRAME_LEN
        BY <1>9, <1>10, <1>20
      <3> QED BY <3>1, <3>2
    <2> QED BY <2>1, <1>0, <1>3, <1>4, <1>12, <1>22, BacklogAfterBlock
  <1>26. frames * FRAME_LEN \in Nat
    BY <1>0, <1>3, FrameCount
  <1>27. Starting' /\ Steady' /\ SteadyLatency'
    <2>1. CASE fails = 0
      <3>1. /\ a + o = Latency
            /\ \A i \in 1..o : Unread(ob, i) = (next - Latency + i - 1) % Period
        <4>1. CASE frames * FRAME_LEN <= Latency
          <5>1. a = frames * FRAME_LEN /\ o = 0
            BY <4>1, <2>1, <1>0, <1>9 DEF Starting
          <5>2. frames \in Nat
            BY <1>0, AecmFrameAssumption DEF Counters
          <5>3. a = Latency
            BY <5>1, <5>2, <4>1, <1>11, StartEnds
          <5> QED BY <5>1, <5>3, <1>10
        <4>2. CASE ~(frames * FRAME_LEN <= Latency)
          <5>1. frames * FRAME_LEN > Latency
            BY <4>2, <1>10, <1>26
          <5> QED BY <5>1, <2>1, <1>0, <1>2, <1>9 DEF Steady
        <4> QED BY <4>1, <4>2
      <3>2. frames' * FRAME_LEN > Latency /\ ~(frames' * FRAME_LEN <= Latency)
        <4>1. CASE frames * FRAME_LEN <= Latency
          <5>1. a = frames * FRAME_LEN
            BY <4>1, <2>1, <1>0, <1>9 DEF Starting
          <5>2. frames' * FRAME_LEN = frames * FRAME_LEN + FRAME_LEN
            BY <4>1, <1>0, <1>3, FrameCount
          <5> QED BY <5>1, <5>2, <1>9, <1>10, <1>11
        <4>2. CASE ~(frames * FRAME_LEN <= Latency)
          <5>1. frames * FRAME_LEN > Latency
            BY <4>2, <1>10, <1>26
          <5> QED BY <5>1, <1>0, <1>3, <1>10, FrameCount
        <4> QED BY <4>1, <4>2
      <3>3. ASSUME NEW i \in 1..o + PART_LEN
            PROVE  Unread(ob1, i) = (next - Latency + i - 1) % Period
        <4>1. CASE i <= o
          BY <4>1, <3>1, <1>9, <1>17
        <4>2. CASE ~(i <= o)
          <5>1. PICK j \in 1..PART_LEN : i = o + j
            <6>1. i - o \in 1..PART_LEN /\ i = o + (i - o)
              BY <4>2, <1>9, <1>10
            <6> QED BY <6>1
          <5>2. next - a + j - 1 = next - Latency + i - 1
            BY <5>1, <3>1, <1>9, <1>10
          <5> QED BY <5>1, <5>2, <1>13, <1>17
        <4> QED BY <4>1, <4>2
      <3>4. ASSUME NEW i \in 1..FRAME_LEN
            PROVE  out'[i] = (next' - FRAME_LEN - Latency + i - 1) % Period
        <4>1. PICK k \in Int : k = i - 1 - Latency - FRAME_LEN
          BY <1>10
        <4>2. /\ next' - FRAME_LEN - Latency + i - 1 = next' + k
              /\ next + FRAME_LEN + k = next - Latency + i - 1 /\ i \in 1..o + PART_LEN
          BY <4>1, <1>9, <1>10, <1>23
        <4> QED BY <4>2, <3>3, <1>19, <1>23
      <3>5. ASSUME NEW i \in 1..o2
            PROVE  Unread(ob2, i) = (next' - Latency + i - 1) % Period
        <4>1. PICK k \in Int, j \in 1..o + PART_LEN : k = i - 1 - Latency /\ j = FRAME_LEN + i
          <5>1. FRAME_LEN + i \in 1..o + PART_LEN /\ i - 1 - Latency \in Int
            BY <1>9, <1>10, <1>20
          <5> QED BY <5>1
        <4>2. /\ next' - Latency + i - 1 = next' + k
              /\ next + FRAME_LEN + k = next - Latency + j - 1
          BY <4>1, <1>10, <1>20, <1>23
        <4>3. Unread(ob2, i) = Unread(ob1, j)
          BY <4>1, <1>19, <1>20
        <4> QED BY <4>2, <4>3, <3>3, <1>23
      <3>6. a + FRAME_LEN - PART_LEN + o2 = Latency
        BY <3>1, <1>9, <1>10, <1>20
      <3>7. Waiting' + Pending' = Latency /\ Pending' = o2
        BY <3>6, <1>13, <1>20, <1>22
      <3>8. Steady'
        BY <3>5, <3>7, <1>22 DEF Steady
      <3>9. Starting' /\ SteadyLatency'
        BY <3>2, <3>4 DEF Starting, SteadyLatency
      <3> QED BY <3>8, <3>9
    <2>2. CASE fails # 0
      BY <2>2, <1>3 DEF Starting, Steady, SteadyLatency
    <2> QED BY <2>1, <2>2
  <1>28. Synchronized' /\ (CleanGiven # BOOLEAN => CleanSynchronized')
    BY <1>0, <1>4, <1>5, <1>12, BlockInStep
  <1>29. Results'
    BY <1>19, <1>27, <1>28 DEF Results
  <1> QED BY <1>22, <1>24, <1>25, <1>27, <1>29 DEF IndInv

LEMMA Fails ==
  ASSUME IndInv, NEW wc \in CleanGiven, FrameFails(wc)
  PROVE  IndInv'
  <1>0. Counters /\ InStep /\ Backlog /\ wc \in BOOLEAN
    BY CleanBufs DEF IndInv
  <1>1. PICK fb \in FarBufs, w \in 0..FAR_BUF_LEN :
          Buffered(wc) = CoreWith(fb, w, NoisyWritten, CleanWritten(wc), core.outFrameBuf)
    BY <1>0, BufferedIs
  <1>2. PICK c, ob : /\ c = Buffered(wc) /\ ob = core.outFrameBuf
                     /\ c = CoreWith(fb, w, NoisyWritten, CleanWritten(wc), ob)
    BY <1>1
  <1>3. /\ BlockReady(c) /\ block' = TakenBlock(c, wc) /\ Advance /\ core' = TakeBlock(c, wc)
        /\ fails < MaxFails /\ fails' = fails + 1 /\ out' = << >>
    BY <1>2 DEF FrameFails
  <1>4. PICK nb, cb : nb = ReadBuffer(NoisyWritten, PART_LEN) /\ cb = CleanTaken(wc)
    OBVIOUS
  <1>5. /\ core' = CoreWith(fb, w, nb, cb, ob)
        /\ block' = [far |-> ReadData(NoisyWritten, PART_LEN),
                     noisy |-> ReadData(NoisyWritten, PART_LEN),
                     clean |-> IF wc THEN ReadData(CleanWritten(wc), PART_LEN) ELSE << >>]
    BY <1>0, <1>2, <1>3, <1>4, TakenIs
  <1>6. Waiting \in Nat /\ Pending \in Nat /\ FRAME_LEN \in Nat /\ PART_LEN \in Nat
        /\ FRAME_LEN <= PART_LEN /\ fails \in 0..MaxFails /\ MaxFails \in Nat
    BY <1>0, InputQueue, Constants, AecmFrameAssumption DEF Counters
  <1>7. Waiting + FRAME_LEN >= PART_LEN
    <2>1. c.farFrameBuf = NoisyWritten
      BY <1>2 DEF CoreWith
    <2> QED BY <2>1, <1>0, <1>3, InputQueue DEF BlockReady
  <1>8. IsBuf(nb) /\ IsBuf(cb) /\ IsBuf(ob) /\ (FALSE \notin CleanGiven => cb = nb)
    BY <1>0, <1>2, <1>4, <1>7, TakenFacts, CleanBufs DEF InStep
  <1>9. /\ InStep' /\ core'.nearNoisyFrameBuf = nb /\ Pending' = available_read(ob)
    BY <1>5, <1>8, InStepNext
  <1>10. Pending' \in Nat /\ Pending' <= Pending + PART_LEN - FRAME_LEN
    <2>1. Pending' = Pending
      BY <1>2, <1>9 DEF Pending
    <2>2. Pending <= Pending + PART_LEN - FRAME_LEN
      BY <1>6
    <2> QED BY <2>1, <2>2, <1>6
  <1>11. Backlog'
    BY <1>0, <1>3, <1>4, <1>7, <1>9, <1>10, BacklogAfterBlock
  <1>12. fails' \in 0..MaxFails /\ fails' # 0
    BY <1>3, <1>6
  <1>13. Counters'
    BY <1>0, <1>3, <1>12, NextIs, FrameCount DEF Counters
  <1>14. Starting' /\ Steady' /\ SteadyLatency'
    BY <1>12 DEF Starting, Steady, SteadyLatency
  <1>15. Synchronized' /\ (CleanGiven # BOOLEAN => CleanSynchronized')
    BY <1>0, <1>5, <1>7, BlockInStep
  <1>16. Results'
    BY <1>3, <1>14, <1>15 DEF Results
  <1> QED BY <1>9, <1>11, <1>13, <1>14, <1>16 DEF IndInv

\* The facts about a core just initialized, for either of the two places where
\* the code does it.
InitializedCore == CoreInitialized([i \in 0..FAR_BUF_LEN-1 |-> Garbage])

LEMMA CoreFresh ==
  /\ InitializedCore \in CoreType
  /\ InitializedCore.farBufWritePos = InitializedCore.farBufReadPos
  /\ InitializedCore.farFrameBuf = EmptyBuf /\ InitializedCore.nearNoisyFrameBuf = EmptyBuf
  /\ InitializedCore.nearCleanFrameBuf = EmptyBuf /\ InitializedCore.outFrameBuf = EmptyBuf
  /\ IsBuf(EmptyBuf) /\ available_read(EmptyBuf) = 0
  /\ \A i \in 1..Capacity : Written(EmptyBuf)[i] = Zero
  <1>1. Zero \in Samples /\ Garbage \in Samples /\ Capacity \in Nat \ {0} /\ FAR_BUF_LEN \in Nat
    BY Constants DEF Samples
  <1>2. PICK z \in Samples : z = Zero
    BY <1>1
  <1>3. EmptyBuf = Initialized(Capacity, z)
    BY <1>2 DEF EmptyBuf, Capacity
  <1>4. /\ WellFormed(EmptyBuf, Capacity, Samples) /\ available_read(EmptyBuf) = 0
        /\ Written(EmptyBuf) = [i \in 1..Capacity |-> z]
    BY <1>1, <1>2, <1>3, InitializedWellFormed
  <1>5. EmptyBuf \in RingBufferType(Capacity, Samples)
    BY <1>4 DEF WellFormed
  <1>6. PICK eb : eb = EmptyBuf
    OBVIOUS
  <1>7. [i \in 0..FAR_BUF_LEN-1 |-> Garbage] \in [0..FAR_BUF_LEN-1 -> Samples]
    BY <1>1
  <1>8. 0 \in 0..FAR_BUF_LEN
    BY <1>1
  <1>9. InitializedCore = [farBuf |-> [i \in 0..FAR_BUF_LEN-1 |-> Garbage],
                           farBufWritePos |-> 0, farBufReadPos |-> 0,
                           farFrameBuf |-> eb, nearNoisyFrameBuf |-> eb,
                           nearCleanFrameBuf |-> eb, outFrameBuf |-> eb]
    BY <1>6 DEF InitializedCore, CoreInitialized
  <1>10. InitializedCore \in CoreType
    BY <1>5, <1>6, <1>7, <1>8, <1>9 DEF CoreType
  <1> QED BY <1>2, <1>4, <1>6, <1>9, <1>10 DEF IsBuf

LEMMA InitHolds == Init => IndInv
  <1> SUFFICES ASSUME Init PROVE IndInv
    OBVIOUS
  <1>1. /\ core = InitializedCore /\ next = 0 /\ frames = 0 /\ fails = 0
        /\ block = NoBlock /\ out = << >>
    BY DEF Init, InitializedCore
  <1>2. Period \in Nat \ {0} /\ MaxFrames \in Nat /\ MaxFails \in Nat /\ FRAME_LEN \in Nat
        /\ Latency \in Nat /\ Unit \in Nat
    BY Constants, AecmFrameAssumption, LatencyBounds, UnitFacts
  <1>3. Counters
    BY <1>1, <1>2 DEF Counters
  <1>4. InStep /\ Waiting = 0 /\ Pending = 0
    BY <1>1, CoreFresh DEF InStep, Waiting, Pending
  <1>5. Backlog
    <2>1. 0 = Unit * 0 /\ 0 + 0 <= Latency /\ 1..0 = {}
      BY <1>2
    <2> QED BY <2>1, <1>4 DEF Backlog
  <1>6. Starting
    <2>1. frames * FRAME_LEN = 0
      BY <1>1, <1>2
    <2> QED BY <2>1, <1>1, <1>4, CoreFresh DEF Starting
  <1>7. Steady
    BY <1>1, <1>2 DEF Steady
  <1>8. Results
    BY <1>1 DEF Results, Synchronized, SteadyLatency, CleanSynchronized, NoBlock
  <1> QED BY <1>3, <1>4, <1>5, <1>6, <1>7, <1>8 DEF IndInv

LEMMA InitCoreStep ==
  ASSUME IndInv, InitCore
  PROVE  IndInv'
  <1>1. /\ core' = InitializedCore /\ next' = next /\ frames' = 0 /\ fails' = 0
        /\ block' = NoBlock /\ out' = << >>
    BY DEF InitCore, InitializedCore
  <1>2. Period \in Nat \ {0} /\ MaxFrames \in Nat /\ MaxFails \in Nat /\ FRAME_LEN \in Nat
        /\ Latency \in Nat /\ Unit \in Nat
    BY Constants, AecmFrameAssumption, LatencyBounds, UnitFacts
  <1>3. Counters'
    BY <1>1, <1>2 DEF Counters, IndInv
  <1>4. InStep' /\ Waiting' = 0 /\ Pending' = 0
    BY <1>1, CoreFresh DEF InStep, Waiting, Pending
  <1>5. Backlog'
    <2>1. 0 = Unit * 0 /\ 0 + 0 <= Latency /\ 1..0 = {}
      BY <1>2
    <2> QED BY <2>1, <1>4 DEF Backlog
  <1>6. Starting'
    <2>1. frames' * FRAME_LEN = 0
      BY <1>1, <1>2
    <2> QED BY <2>1, <1>1, <1>4, CoreFresh DEF Starting
  <1>7. Steady'
    BY <1>1, <1>2 DEF Steady
  <1>8. Results'
    BY <1>1 DEF Results, Synchronized, SteadyLatency, CleanSynchronized, NoBlock
  <1> QED BY <1>3, <1>4, <1>5, <1>6, <1>7, <1>8 DEF IndInv

LEMMA Inductive == IndInv /\ [Next]_vars => IndInv'
  <1> SUFFICES ASSUME IndInv, [Next]_vars PROVE IndInv'
    OBVIOUS
  <1>1. CASE InitCore
    BY <1>1, InitCoreStep
  <1>2. ASSUME NEW wc \in CleanGiven, ProcessFrame(wc) PROVE IndInv'
    BY <1>2, WithoutBlock, WithBlock, Fails DEF ProcessFrame
  <1>3. CASE UNCHANGED vars
    BY <1>3 DEF vars, IndInv, Counters, InStep, Backlog, Starting, Steady, Results,
                Waiting, Pending, Synchronized, SteadyLatency, CleanSynchronized
  <1> QED BY <1>1, <1>2, <1>3 DEF Next

THEOREM Invariance == Spec => []IndInv
  BY InitHolds, Inductive, PTL DEF Spec

-----------------------------------------------------------------------------
(* The properties.                                                         *)

\* The fields of AecmCore stay in their ranges, every ring buffer is one, and
\* ProcessFrame returns a whole frame or none.
THEOREM TypeCorrect == Spec => []TypeOK
  <1>1. IndInv => TypeOK
    <2> SUFFICES ASSUME IndInv PROVE TypeOK
      OBVIOUS
    <2>1. Len(out) \in {0, FRAME_LEN}
      <3>1. CASE out = << >>
        BY <3>1
      <3>2. CASE out \in [1..FRAME_LEN -> Samples]
        <4>1. FRAME_LEN \in Nat
          BY Constants
        <4>2. out \in Seq(Samples) /\ DOMAIN out = 1..FRAME_LEN
          BY <3>2, <4>1
        <4> QED BY <4>1, <4>2
      <3> QED BY <3>1, <3>2 DEF IndInv, Results
    <2>2. Counters /\ core \in CoreType
      BY DEF IndInv, InStep
    <2> QED BY <2>1, <2>2 DEF TypeOK, CoreType, Counters, Capacity
  <1> QED BY <1>1, Invariance, PTL

\* Every block that WebRtcAecm_ProcessBlock gets holds consecutive near-end
\* samples and the far-end samples of the same instants, wherever the delay line
\* wraps, across failed blocks and across InitCore.
THEOREM BlocksSynchronized == Spec => []Synchronized
  <1>1. IndInv => Synchronized
    BY DEF IndInv, Results
  <1> QED BY <1>1, Invariance, PTL

\* The clean block belongs to the noisy one for a caller that passes nearendClean
\* always or never.  (One that switches leaves clean samples behind.)
THEOREM CleanBlocksSynchronized ==
  ASSUME CleanGiven # BOOLEAN
  PROVE  Spec => []CleanSynchronized
  <1>1. IndInv => CleanSynchronized
    BY DEF IndInv, Results
  <1> QED BY <1>1, Invariance, PTL

\* Until a block fails, the output is the input delayed by exactly Latency samples.
THEOREM LatencyConstant == Spec => []SteadyLatency
  <1>1. IndInv => SteadyLatency
    BY DEF IndInv, Results
  <1> QED BY <1>1, Invariance, PTL

\* What waits never exceeds the latency, whatever blocks fail.
THEOREM BacklogNeverGrows == Spec => []BacklogBounded
  <1>1. IndInv => BacklogBounded
    BY DEF IndInv, InStep, Backlog, Waiting, Pending, BacklogBounded
  <1> QED BY <1>1, Invariance, PTL
=============================================================================
