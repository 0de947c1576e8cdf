-------------------------- MODULE RingBufferProofs --------------------------
(***************************************************************************)
(* Proofs about the ring buffer for every capacity, element set and        *)
(* request bound.                                                          *)
(***************************************************************************)
EXTENDS RingBuffer, RingBufferLemmas, SequenceTheorems, TLAPS

\* A well-formed buffer of this module's capacity and elements.  The lemmas of
\* RingBufferLemmas for such a buffer:
IsBuffer(b) == WellFormed(b, ElementCount, Value)

\* available_read and available_write.
LEMMA BufAvailable ==
  ASSUME NEW b, IsBuffer(b)
  PROVE  /\ b.element_count = ElementCount
         /\ available_read(b) \in 0..ElementCount
         /\ available_write(b) \in 0..ElementCount
         /\ available_write(b) = ElementCount - available_read(b)
  <1>1. b.element_count = ElementCount
    BY DEF IsBuffer, WellFormed, RingBufferType
  <1> QED BY <1>1, RingBufferAssumption, AvailableBounds DEF IsBuffer

\* WebRtc_InitBuffer.
LEMMA BufInitialized ==
  /\ IsBuffer(Initialized(ElementCount, Zero))
  /\ available_read(Initialized(ElementCount, Zero)) = 0
  /\ Written(Initialized(ElementCount, Zero)) = [i \in 1..ElementCount |-> Zero]
  BY RingBufferAssumption, InitializedWellFormed DEF IsBuffer

\* WebRtc_MoveReadPtr.
LEMMA BufMove ==
  ASSUME NEW b, IsBuffer(b), NEW k \in Int
  PROVE  /\ IsBuffer(MoveReadPtr(b, k))
         /\ MoveCount(b, k) \in -available_write(b)..available_read(b)
         /\ available_read(MoveReadPtr(b, k)) = available_read(b) - MoveCount(b, k)
         /\ MoveReadPtr(b, k).data = b.data
         /\ MoveReadPtr(b, k).write_pos = b.write_pos
         /\ Written(MoveReadPtr(b, k)) = Written(b)
  <1>1. /\ IsBuffer(MoveReadPtr(b, k))
        /\ MoveCount(b, k) \in -available_write(b)..available_read(b)
        /\ available_read(MoveReadPtr(b, k)) = available_read(b) - MoveCount(b, k)
        /\ MoveReadPtr(b, k).data = b.data
        /\ MoveReadPtr(b, k).write_pos = b.write_pos
    BY RingBufferAssumption, MoveWellFormed DEF IsBuffer
  <1>2. MoveReadPtr(b, k).element_count = b.element_count
    BY <1>1, BufAvailable
  <1> QED BY <1>1, <1>2 DEF Written, Slot

\* A block of a request is a sequence whose length is at most MaxRequest.
LEMMA BlockLength ==
  ASSUME NEW d \in Blocks
  PROVE  /\ Len(d) \in 0..MaxRequest
         /\ d \in Seq(Value)
         /\ d \in [1..Len(d) -> Value]
  <1>1. PICK n \in 0..MaxRequest : d \in [1..n -> Value]
    BY DEF Blocks
  <1>2. d \in Seq(Value) /\ Len(d) = n
    BY <1>1, RingBufferAssumption
  <1> QED BY <1>1, <1>2

\* WebRtc_WriteBuffer.
LEMMA BufWrite ==
  ASSUME NEW b, IsBuffer(b), NEW d \in Blocks
  PROVE  /\ WriteCount(b, d) \in 0..available_write(b)
         /\ WriteCount(b, d) <= Len(d)
         /\ IsBuffer(WriteBuffer(b, d))
         /\ available_read(WriteBuffer(b, d)) = available_read(b) + WriteCount(b, d)
         /\ Written(WriteBuffer(b, d)) =
              [i \in 1..ElementCount |->
                 IF i + WriteCount(b, d) <= ElementCount
                 THEN Written(b)[i + WriteCount(b, d)]
                 ELSE d[i + WriteCount(b, d) - ElementCount]]
         /\ \A i \in 1..ElementCount :
              i + WriteCount(b, d) <= ElementCount =>
                 Slot(WriteBuffer(b, d), i) = Slot(b, i + WriteCount(b, d))
  <1>1. d \in Seq(Value)
    BY BlockLength
  <1> QED BY <1>1, RingBufferAssumption, WriteWellFormed DEF IsBuffer

\* WebRtc_ReadBuffer.
LEMMA BufRead ==
  ASSUME NEW b, IsBuffer(b), NEW n \in Nat
  PROVE  /\ ReadCount(b, n) \in 0..available_read(b)
         /\ IsBuffer(ReadBuffer(b, n))
         /\ available_read(ReadBuffer(b, n)) = available_read(b) - ReadCount(b, n)
         /\ ReadBuffer(b, n).data = b.data
         /\ ReadBuffer(b, n).write_pos = b.write_pos
         /\ ReadData(b, n) = [i \in 1..ReadCount(b, n) |->
                                Written(b)[ElementCount - available_read(b) + i]]
         /\ Written(ReadBuffer(b, n)) = Written(b)
  <1>1. /\ ReadCount(b, n) \in 0..available_read(b)
        /\ IsBuffer(ReadBuffer(b, n))
        /\ available_read(ReadBuffer(b, n)) = available_read(b) - ReadCount(b, n)
        /\ ReadBuffer(b, n).data = b.data
        /\ ReadBuffer(b, n).write_pos = b.write_pos
        /\ ReadData(b, n) = [i \in 1..ReadCount(b, n) |->
                               Written(b)[ElementCount - available_read(b) + i]]
    <2>1. WellFormed(b, ElementCount, Value) /\ ElementCount \in Nat \ {0}
      BY RingBufferAssumption DEF IsBuffer
    <2>2. /\ ReadCount(b, n) \in 0..available_read(b)
          /\ WellFormed(ReadBuffer(b, n), ElementCount, Value)
          /\ available_read(ReadBuffer(b, n)) = available_read(b) - ReadCount(b, n)
          /\ ReadBuffer(b, n).data = b.data
          /\ ReadBuffer(b, n).write_pos = b.write_pos
      BY <2>1, ReadWellFormed
    <2>3. ReadData(b, n) = [i \in 1..ReadCount(b, n) |->
                              Written(b)[ElementCount - available_read(b) + i]]
      <3>1. /\ ReadData(b, n) \in [1..ReadCount(b, n) -> Value]
            /\ \A i \in 1..ReadCount(b, n) :
                 ReadData(b, n)[i] = Written(b)[ElementCount - available_read(b) + i]
        BY <2>1, ReadDelivers
      <3> QED BY <3>1
    <2> QED BY <2>2, <2>3 DEF IsBuffer
  <1>2. ReadBuffer(b, n).element_count = b.element_count
    BY <1>1, BufAvailable
  <1> QED BY <1>1, <1>2 DEF Written, Slot

\* Where the i-th oldest unread element lies, counted from read_pos.
LEMMA FromReadPos ==
  ASSUME NEW N \in Int, NEW r \in Int, NEW w \in Int, NEW a \in Int,
         NEW m \in Int, NEW i \in Int,
         0 <= r, 1 <= i, i <= m, m <= N - r,
         a = w - r \/ a = N - r + w
  PROVE  (IF w + (N - a + i) > N THEN w + (N - a + i) - N - 1
                                 ELSE w + (N - a + i) - 1) = r + i - 1
  OBVIOUS

-----------------------------------------------------------------------------
\* The inductive invariant: types, agreement of flag and positions, and where
\* the delivered elements are.
IndInv == TypeOK /\ Positions /\ delivered \in Seq(Value) /\ ViewInWindow

\* The inductive invariant gives the lemmas above their hypothesis.
LEMMA IndInvIsBuffer == IndInv => IsBuffer(buf)
  BY DEF IndInv, TypeOK, Positions, IsBuffer, WellFormed

\* The invariant holds of a buffer just created.
LEMMA InitIndInv == Init => IndInv
  <1> SUFFICES ASSUME Init PROVE IndInv
    OBVIOUS
  <1>1. IsBuffer(buf)
    BY BufInitialized DEF Init
  <1>2. TypeOK /\ Positions
    BY <1>1, RingBufferAssumption DEF Init, TypeOK, Positions, IsBuffer, WellFormed, Copied
  <1>3. delivered \in Seq(Value) /\ ViewInWindow
    BY DEF Init, ViewInWindow
  <1> QED BY <1>2, <1>3 DEF IndInv

\* Every call preserves the invariant: one step per operation.
LEMMA NextIndInv == IndInv /\ [Next]_vars => IndInv'
  <1> SUFFICES ASSUME IndInv, [Next]_vars PROVE IndInv'
    OBVIOUS
  <1> DEFINE N == ElementCount
  <1>1. IsBuffer(buf)
    BY IndInvIsBuffer
  <1>2. /\ ret \in Int /\ view \in [pointer : BOOLEAN, start : 0..N]
        /\ slack \in -1..N /\ delivered \in Seq(Value) /\ ViewInWindow
        /\ N \in Nat /\ N > 0
    BY RingBufferAssumption DEF IndInv, TypeOK
  <1>3. CASE Reinit
    <2>1. IsBuffer(buf') /\ slack' = -1
      BY <1>3, BufInitialized DEF Reinit
    <2> QED
      BY <1>2, <1>3, <2>1 DEF Reinit, IndInv, TypeOK, Positions, IsBuffer, WellFormed, ViewInWindow
  <1>4. ASSUME NEW d \in Blocks, Write(d) PROVE IndInv'
    <2> DEFINE k == WriteCount(buf, d)
    <2>1. /\ IsBuffer(buf') /\ k \in Nat
          /\ \A i \in 1..N : i + k <= N =>
                /\ Written(buf')[i] = Written(buf)[i + k]
                /\ Slot(buf', i) = Slot(buf, i + k)
      <3>1. buf' = WriteBuffer(buf, d)
        BY <1>4 DEF Write
      <3>2. IsBuffer(buf') /\ k \in 0..available_write(buf)
        BY <1>1, <3>1, BufWrite
      <3>3. k \in Nat
        BY <1>1, <3>2, BufAvailable
      <3>4. Written(buf') = [i \in 1..N |-> IF i + k <= N THEN Written(buf)[i + k] ELSE d[i + k - N]]
        BY <1>1, <3>1, BufWrite
      <3>5. \A i \in 1..N : i + k <= N => Slot(buf', i) = Slot(buf, i + k)
        BY <1>1, <3>1, BufWrite
      <3> HIDE DEF k
      <3> QED BY <3>2, <3>3, <3>4, <3>5
    <2> HIDE DEF k
    <2>2. /\ ret' = k /\ slack' = (IF slack < k THEN -1 ELSE slack - k)
          /\ view' = view /\ delivered' = delivered
      BY <1>4 DEF Write, k
    <2>3. slack' \in -1..N
      BY <2>1, <2>2, <1>2
    <2>4. ViewInWindow'
      <3> SUFFICES ASSUME slack' >= 0
                   PROVE  /\ slack' + Len(delivered) <= N
                          /\ \A i \in 1..Len(delivered) :
                               /\ Written(buf')[slack' + i] = delivered[i]
                               /\ view.pointer => view.start + i - 1 = Slot(buf', slack' + i)
        BY <2>2 DEF ViewInWindow
      <3>1. slack >= 0 /\ slack' = slack - k /\ Len(delivered) \in Nat
        BY <2>1, <2>2, <1>2
      <3>2. slack' + Len(delivered) <= N
        BY <3>1, <2>1, <1>2 DEF ViewInWindow
      <3>3. ASSUME NEW i \in 1..Len(delivered)
            PROVE  /\ slack' + i \in 1..N /\ (slack' + i) + k <= N
                   /\ (slack' + i) + k = slack + i
        BY <3>1, <2>1, <1>2 DEF ViewInWindow
      <3>4. ASSUME NEW i \in 1..Len(delivered)
            PROVE  /\ Written(buf')[slack' + i] = delivered[i]
                   /\ view.pointer => view.start + i - 1 = Slot(buf', slack' + i)
        <4>1. Written(buf')[slack' + i] = Written(buf)[slack + i]
              /\ Slot(buf', slack' + i) = Slot(buf, slack + i)
          BY <3>3, <2>1
        <4> QED BY <4>1, <3>1, <1>2 DEF ViewInWindow
      <3> QED BY <3>2, <3>4
    <2> QED
      BY <2>1, <2>2, <2>3, <2>4, <1>2 DEF IndInv, TypeOK, Positions, IsBuffer, WellFormed
  <1>5. ASSUME NEW n \in 0..MaxRequest, NEW p \in BOOLEAN, Read(n, p) PROVE IndInv'
    <2> DEFINE k == ReadCount(buf, n)
               av == available_read(buf)
    <2>0. n \in Nat
      BY RingBufferAssumption
    <2>1. /\ IsBuffer(buf') /\ k \in 0..av
          /\ buf'.data = buf.data /\ buf'.write_pos = buf.write_pos
          /\ ReadData(buf, n) = [i \in 1..k |-> Written(buf)[N - av + i]]
      BY <1>1, <1>5, <2>0, BufRead DEF Read
    <2>2. av \in 0..N /\ available_write(buf) = N - av
      BY <1>1, BufAvailable
    <2>3. Written(buf') = Written(buf) /\ \A i : Slot(buf', i) = Slot(buf, i)
      <3>1. buf'.element_count = buf.element_count
        BY <1>1, <2>1, BufAvailable
      <3> QED BY <2>1, <3>1 DEF Written, Slot
    <2>4. Written(buf) \in [1..N -> Value]
      <3>1. ASSUME NEW i \in 1..N PROVE buf.data[Slot(buf, i)] \in Value
        BY <1>1, <1>2 DEF IsBuffer, WellFormed, RingBufferType, Slot
      <3>2. buf.element_count = N
        BY <1>1, BufAvailable
      <3> QED BY <3>1, <3>2 DEF Written
    <2>5. PICK a \in Int, m \in Int : a = av /\ m = k
      BY <2>1, <2>2
    <2> HIDE DEF k, av
    <2>6. /\ 0 <= m /\ m <= a /\ a <= N
          /\ delivered' = [i \in 1..m |-> Written(buf)[N - a + i]]
          /\ slack' = N - a /\ ret' = m
      BY <1>5, <2>1, <2>2, <2>5 DEF Read, k, av
    <2>7. delivered' \in Seq(Value) /\ Len(delivered') = m
      <3>1. delivered' \in [1..m -> Value]
        BY <2>4, <2>5, <2>6, <1>2
      <3> QED BY <3>1, <2>6, <2>5
    <2>8. /\ view'.pointer => ~ReadWraps(buf, n) /\ view'.start = buf.read_pos
          /\ view' \in [pointer : BOOLEAN, start : 0..N]
      BY <1>1, <1>2, <1>5 DEF Read, Copied, IsBuffer, WellFormed, RingBufferType
    <2>9. ASSUME NEW i \in 1..m, view'.pointer
          PROVE  view'.start + i - 1 = Slot(buf, N - a + i)
      <3>1. PICK r \in Int, w \in Int : r = buf.read_pos /\ w = buf.write_pos
        BY <1>1 DEF IsBuffer, WellFormed, RingBufferType
      <3>2. /\ 0 <= r /\ r <= N /\ 0 <= w /\ w <= N /\ m <= N - r
            /\ buf.rw_wrap = "SAME_WRAP" => a = w - r
            /\ buf.rw_wrap # "SAME_WRAP" => a = N - r + w
        BY <1>1, <2>5, <2>6, <2>8, <2>9, <3>1, <1>2
           DEF IsBuffer, WellFormed, RingBufferType, ReadWraps, available_read, k, av
      <3>3. Slot(buf, N - a + i) = IF w + (N - a + i) > N THEN w + (N - a + i) - N - 1 ELSE w + (N - a + i) - 1
        BY <3>1, <1>1, BufAvailable DEF Slot
      <3>4. view'.start = r
        BY <2>8, <2>9, <3>1
      <3>5. i \in Int /\ 1 <= i /\ i <= m
        BY <2>5
      <3>6. a = w - r \/ a = N - r + w
        BY <3>2
      <3>7. m <= N - r
        BY <3>2
      <3>8. (IF w + (N - a + i) > N THEN w + (N - a + i) - N - 1 ELSE w + (N - a + i) - 1) = r + i - 1
        <4>1. N \in Int /\ 0 <= r
          BY <3>2, <1>2
        <4> QED BY <3>1, <3>5, <3>6, <3>7, <4>1, <2>5, FromReadPos
      <3> QED BY <3>3, <3>4, <3>8
    <2>10. ViewInWindow'
      <3>1. slack' + Len(delivered') <= N
        BY <2>5, <2>6, <2>7, <1>2
      <3>2. \A i \in 1..Len(delivered') : Written(buf')[slack' + i] = delivered'[i]
        BY <2>3, <2>6, <2>7
      <3>3. \A i \in 1..Len(delivered') :
              view'.pointer => view'.start + i - 1 = Slot(buf', slack' + i)
        BY <2>3, <2>6, <2>7, <2>9
      <3> QED BY <3>1, <3>2, <3>3 DEF ViewInWindow
    <2>11. slack' \in -1..N /\ ret' \in Int
      BY <2>5, <2>6, <1>2
    <2> QED
      BY <2>1, <2>7, <2>8, <2>10, <2>11 DEF IndInv, TypeOK, Positions, IsBuffer, WellFormed
  <1>6. ASSUME NEW k \in -MaxRequest..MaxRequest, Move(k) PROVE IndInv'
    <2>0. k \in Int
      BY RingBufferAssumption
    <2>1. /\ IsBuffer(buf') /\ ret' \in Int
          /\ buf'.data = buf.data /\ buf'.write_pos = buf.write_pos
      <3>1. MoveCount(buf, k) \in -available_write(buf)..available_read(buf)
        BY <1>1, <2>0, BufMove
      <3>2. available_write(buf) \in Int /\ available_read(buf) \in Int
        BY <1>1, BufAvailable
      <3>3. MoveCount(buf, k) \in Int
        BY <3>1, <3>2
      <3> QED BY <1>1, <1>6, <2>0, <3>3, BufMove DEF Move
    <2>2. Written(buf') = Written(buf) /\ \A i : Slot(buf', i) = Slot(buf, i)
      <3>1. buf'.element_count = buf.element_count
        BY <1>1, <2>1, BufAvailable
      <3> QED BY <2>1, <3>1 DEF Written, Slot
    <2>3. ViewInWindow'
      BY <1>2, <1>6, <2>2 DEF Move, ViewInWindow
    <2> QED
      BY <1>2, <1>6, <2>1, <2>3 DEF Move, IndInv, TypeOK, Positions, IsBuffer, WellFormed
  <1>7. CASE NullArgument
    BY <1>7, <1>2 DEF NullArgument, IndInv, TypeOK, Positions, ViewInWindow, Written, Slot
  <1>8. CASE UNCHANGED vars
    BY <1>8, <1>2 DEF vars, IndInv, TypeOK, Positions, ViewInWindow, Written, Slot
  <1> QED
    BY <1>3, <1>4, <1>5, <1>6, <1>7, <1>8 DEF Next

\* The fields keep their types and the positions agree with the wrap flag,
\* whatever calls WebRtc_ReadBuffer, WebRtc_WriteBuffer, WebRtc_MoveReadPtr and
\* WebRtc_InitBuffer get, for every capacity: no count ever underflows.
THEOREM PositionsInvariant == Spec => [](TypeOK /\ Positions)
  <1>1. IndInv => TypeOK /\ Positions
    BY DEF IndInv
  <1> QED
    BY InitIndInv, NextIndInv, <1>1, PTL DEF Spec

\* In particular the fields of struct RingBuffer keep their ranges.
THEOREM TypeCorrect == Spec => []TypeOK
  <1>1. IndInv => TypeOK
    BY DEF IndInv
  <1> QED
    BY InitIndInv, NextIndInv, <1>1, PTL DEF Spec

\* A zero-copy pointer returned by WebRtc_ReadBuffer stays valid for as many
\* elements written as were free before the read, for every capacity.
THEOREM ViewStability == Spec => []ViewStable
  <1>1. IndInv => ViewStable
    <2> SUFFICES ASSUME IndInv, view.pointer, slack >= 0,
                        NEW i \in 1..Len(delivered)
                 PROVE  /\ view.start + i - 1 < ElementCount
                        /\ buf.data[view.start + i - 1] = delivered[i]
      BY DEF ViewStable
    <2>1. /\ slack \in Int /\ 0 <= slack /\ Len(delivered) \in Nat
          /\ slack + Len(delivered) <= ElementCount
          /\ Written(buf)[slack + i] = delivered[i]
          /\ view.start + i - 1 = Slot(buf, slack + i)
      BY RingBufferAssumption DEF IndInv, TypeOK, ViewInWindow
    <2>2. slack + i \in 1..ElementCount
      BY <2>1, RingBufferAssumption
    <2>3. Written(buf)[slack + i] = buf.data[Slot(buf, slack + i)]
      <3>1. buf.element_count = ElementCount
        BY IndInvIsBuffer, BufAvailable
      <3> QED BY <2>2, <3>1 DEF Written
    <2>4. Slot(buf, slack + i) < ElementCount
      BY <2>2, RingBufferAssumption DEF IndInv, TypeOK, RingBufferType, Slot
    <2> QED BY <2>1, <2>3, <2>4
  <1> QED
    BY InitIndInv, NextIndInv, <1>1, PTL DEF Spec

\* The ring buffer implements the window over the written stream, for every
\* capacity, element set and request bound.
THEOREM Refinement == Spec => RefinesStreamWindow
  <1>1. Init => Abstract!WInit
    BY BufInitialized
       DEF Init, Abstract!WInit, Abstract!Fresh
  <1>2. IndInv /\ [Next]_vars => [Abstract!WNext]_(Abstract!wvars)
    <2> SUFFICES ASSUME IndInv, [Next]_vars
                 PROVE  [Abstract!WNext]_(Abstract!wvars)
      OBVIOUS
    <2> DEFINE av == available_read(buf)
    <2>1. IsBuffer(buf) /\ av \in 0..ElementCount
          /\ available_write(buf) = ElementCount - av
      BY IndInvIsBuffer, BufAvailable
    <2>2. CASE Reinit
      <3>1. Abstract!Reset
        BY <2>2, BufInitialized
           DEF Reinit, Abstract!Reset, Abstract!Fresh
      <3> QED BY <3>1 DEF Abstract!WNext
    <2>3. ASSUME NEW d \in Blocks, Write(d) PROVE Abstract!WNext
      <3>1. d \in Abstract!Requests
        BY DEF Blocks, Abstract!Requests
      <3>2. Abstract!Least(ElementCount - av, Len(d)) = WriteCount(buf, d)
        BY <2>1, BlockLength, RingBufferAssumption DEF Abstract!Least, WriteCount, Smaller
      <3>3. Abstract!Write(d)
        BY <2>1, <2>3, <3>2, BufWrite DEF Write, Abstract!Write, Abstract!Slide
      <3> QED BY <3>1, <3>3 DEF Abstract!WNext
    <2>4. ASSUME NEW n \in 0..MaxRequest, NEW p \in BOOLEAN, Read(n, p) PROVE Abstract!WNext
      <3>0. n \in Nat
        BY RingBufferAssumption
      <3>1. Abstract!Least(av, n) = ReadCount(buf, n)
        BY <2>1, <3>0, RingBufferAssumption DEF Abstract!Least, ReadCount, Smaller
      <3>2. Written(buf') = Written(buf)
        BY <2>1, <2>4, <3>0, BufRead DEF Read
      <3>3. Abstract!Read(n)
        BY <2>1, <2>4, <3>0, <3>1, <3>2, BufRead DEF Read, Abstract!Read, Abstract!Oldest
      <3> QED BY <3>3 DEF Abstract!WNext
    <2>5. ASSUME NEW k \in -MaxRequest..MaxRequest, Move(k) PROVE Abstract!WNext
      <3>0. k \in Int
        BY RingBufferAssumption
      <3>1. Abstract!Clamp(k, av - ElementCount, av) = MoveCount(buf, k)
        BY <2>1, <3>0, RingBufferAssumption DEF Abstract!Clamp, MoveCount
      <3>2. Written(buf') = Written(buf)
        BY <2>1, <2>5, <3>0, BufMove DEF Move
      <3>3. Abstract!Move(k)
        BY <2>1, <2>5, <3>0, <3>1, <3>2, BufMove DEF Move, Abstract!Move
      <3> QED BY <3>3 DEF Abstract!WNext
    <2>6. CASE NullArgument
      BY <2>6 DEF NullArgument, Abstract!WNext, Abstract!Refuse, Written, Slot
    <2>7. CASE UNCHANGED vars
      BY <2>7 DEF vars, Abstract!wvars, Written, Slot
    <2> QED
      BY <2>2, <2>3, <2>4, <2>5, <2>6, <2>7 DEF Next
  <1> QED
    BY <1>1, <1>2, InitIndInv, NextIndInv, PTL DEF Spec, RefinesStreamWindow, Abstract!WSpec
=============================================================================
