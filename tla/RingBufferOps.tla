--------------------------- MODULE RingBufferOps ----------------------------
(***************************************************************************)
(* The operations of common_audio/ring_buffer.c as operators on a record   *)
(* with the fields of struct RingBuffer.  Positions and counts are in      *)
(* elements (the code's factor element_size only scales memcpy).  Handlers *)
(* that make several calls on one buffer compose these operators.          *)
(***************************************************************************)
EXTENDS Integers, Sequences

Wraps == {"SAME_WRAP", "DIFF_WRAP"}

\* struct RingBuffer, for a capacity n and elements taken from vals.
RingBufferType(n, vals) ==
  [read_pos : 0..n, write_pos : 0..n, element_count : {n},
   rw_wrap : Wraps, data : [0..n-1 -> vals]]

Smaller(a, b) == IF a < b THEN a ELSE b

\* WebRtc_InitBuffer (and the allocation of WebRtc_CreateBuffer).
Initialized(n, zero) ==
  [read_pos |-> 0, write_pos |-> 0, element_count |-> n,
   rw_wrap |-> "SAME_WRAP", data |-> [i \in 0..n-1 |-> zero]]

available_read(b) ==
  IF b.rw_wrap = "SAME_WRAP" THEN b.write_pos - b.read_pos
                             ELSE b.element_count - b.read_pos + b.write_pos

available_write(b) == b.element_count - available_read(b)

\* memcpy of n elements of the sequence src, skipping the first off, to dst.
Memcpy(mem, dst, src, off, n) ==
  [i \in DOMAIN mem |->
     IF dst <= i /\ i < dst + n THEN src[off + (i - dst) + 1] ELSE mem[i]]

\* WebRtc_WriteBuffer: how many elements of src are accepted ...
WriteCount(b, src) == Smaller(available_write(b), Len(src))

\* ... and the buffer it leaves.
WriteBuffer(b, src) ==
  LET k      == WriteCount(b, src)
      margin == b.element_count - b.write_pos
  IN  IF k > margin
      THEN [b EXCEPT !.data = Memcpy(Memcpy(b.data, b.write_pos, src, 0, margin),
                                     0, src, margin, k - margin),
                     !.write_pos = k - margin,
                     !.rw_wrap = "DIFF_WRAP"]
      ELSE [b EXCEPT !.data = Memcpy(b.data, b.write_pos, src, 0, k),
                     !.write_pos = b.write_pos + k]

\* Mutant of MoveCount: a rewind is not limited to the free space.
MoveCountNoFloor(b, k) == Smaller(available_read(b), k)

\* WebRtc_MoveReadPtr: the distance really moved ...
MoveCount(b, k) ==
  LET readable == available_read(b)
      atMost   == IF k > readable THEN readable ELSE k
  IN  IF atMost < -available_write(b) THEN -available_write(b) ELSE atMost

\* Mutant of MoveReadPtr: it wraps already when the position reaches the end.
MoveReadPtrEager(b, k) ==
  LET pos == b.read_pos + MoveCount(b, k)
  IN  IF pos >= b.element_count
      THEN [b EXCEPT !.read_pos = pos - b.element_count, !.rw_wrap = "SAME_WRAP"]
      ELSE IF pos < 0
      THEN [b EXCEPT !.read_pos = pos + b.element_count, !.rw_wrap = "DIFF_WRAP"]
      ELSE [b EXCEPT !.read_pos = pos]

\* Mutant of MoveReadPtr: a rewind across the start does not set the flag.
MoveReadPtrKeepFlag(b, k) ==
  LET pos == b.read_pos + MoveCount(b, k)
  IN  IF pos > b.element_count
      THEN [b EXCEPT !.read_pos = pos - b.element_count, !.rw_wrap = "SAME_WRAP"]
      ELSE IF pos < 0
      THEN [b EXCEPT !.read_pos = pos + b.element_count]
      ELSE [b EXCEPT !.read_pos = pos]

\* ... and the buffer it leaves.
MoveReadPtr(b, k) ==
  LET pos == b.read_pos + MoveCount(b, k)
  IN  IF pos > b.element_count
      THEN [b EXCEPT !.read_pos = pos - b.element_count, !.rw_wrap = "SAME_WRAP"]
      ELSE IF pos < 0
      THEN [b EXCEPT !.read_pos = pos + b.element_count, !.rw_wrap = "DIFF_WRAP"]
      ELSE [b EXCEPT !.read_pos = pos]

\* GetBufferReadRegions: how many elements a read of n returns, whether they
\* lie in two regions, and the elements themselves (first region, then the
\* second one, which starts at the beginning of the memory).
ReadCount(b, n) == Smaller(available_read(b), n)

\* Mutant of ReadWraps: the margin is off by one.
ReadWrapsLate(b, n) == ReadCount(b, n) > b.element_count - b.read_pos + 1

ReadWraps(b, n) == ReadCount(b, n) > b.element_count - b.read_pos

ReadData(b, n) ==
  LET margin == b.element_count - b.read_pos
  IN  [i \in 1..ReadCount(b, n) |->
         IF i <= margin THEN b.data[b.read_pos + i - 1] ELSE b.data[i - margin - 1]]

\* WebRtc_ReadBuffer: the buffer it leaves.
ReadBuffer(b, n) == MoveReadPtr(b, ReadCount(b, n))

\* The memory, read from write_pos on and once round, is the last
\* element_count elements written, oldest first: slot of the i-th of them.
Slot(b, i) == IF b.write_pos + i > b.element_count
              THEN b.write_pos + i - b.element_count - 1
              ELSE b.write_pos + i - 1

Written(b) == [i \in 1..b.element_count |-> b.data[Slot(b, i)]]
=============================================================================
