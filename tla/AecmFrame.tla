----------------------------- MODULE AecmFrame ------------------------------
(***************************************************************************)
(* WebRtcAecm_ProcessFrame of aecm_core.c: frames of FRAME_LEN samples are *)
(* regrouped into blocks of PART_LEN for the echo canceller proper, and    *)
(* its output blocks back into frames, through four ring buffers and the   *)
(* far-end delay line farBuf.                                              *)
(*                                                                         *)
(* A sample is its position in the input stream, counted modulo Period:    *)
(* far, noisy and clean samples that belong together are equal.  The       *)
(* signal processing of a block is abstracted to its result: a block of    *)
(* output that belongs to the noisy block, or the failure of the call.     *)
(***************************************************************************)
EXTENDS RingBufferOps, TLC

CONSTANTS
  FRAME_LEN,      \* 80
  PART_LEN,       \* 256
  FAR_BUF_LEN,    \* 1024
  Period,         \* bound: stream positions are counted modulo Period
  CleanGiven,     \* may the caller pass nearendClean, may it pass NULL
  MaxFails,       \* bound: failures of ProcessBlock between two InitCores
  MaxFrames       \* bound: frames are counted up to MaxFrames

ASSUME AecmFrameAssumption ==
  /\ {FRAME_LEN, PART_LEN, FAR_BUF_LEN, Period} \subseteq Nat \ {0}
  /\ FRAME_LEN <= PART_LEN /\ FRAME_LEN <= FAR_BUF_LEN
  /\ Period >= 2 * (FRAME_LEN + PART_LEN)
  /\ CleanGiven \subseteq BOOLEAN
  /\ MaxFrames \in Nat /\ MaxFails \in Nat

\* The delay of the reframing: the whole frames that fit below one block.
Latency == FRAME_LEN * ((PART_LEN - 1) \div FRAME_LEN)

\* A frame and a block are whole numbers of Unit samples: of 16, with 80 and 256
\* (240 + 16).  Otherwise the output would have to be stuffed once more, later.
Unit == PART_LEN - Latency

ASSUME UnitAssumption ==
  /\ FRAME_LEN % Unit = 0 /\ PART_LEN % Unit = 0
  /\ MaxFrames * FRAME_LEN > Latency     \* frames are counted beyond the start

VARIABLES core,     \* the part of AecmCore the reframing uses
          next,     \* position of the next input sample
          frames,   \* frames seen since InitCore
          fails,    \* blocks failed since InitCore
          block,    \* what the last ProcessFrame gave to the block functions
          out       \* the last output frame

vars == <<core, next, frames, fails, block, out>>

Zero == -1          \* a sample of an initialized ring buffer
Garbage == -2       \* a sample of memory not written since InitCore

Samples == (0..Period-1) \cup {Zero, Garbage}

Frame == [i \in 1..FRAME_LEN |-> (next + i - 1) % Period]

EmptyBuf == Initialized(FRAME_LEN + PART_LEN, Zero)

NoBlock == [far |-> << >>, noisy |-> << >>, clean |-> << >>]

-----------------------------------------------------------------------------
\* Mutant of BufferFarFrame: the write position is never wrapped.
BufferFarFrameNoWrap(c, farend) ==
  [c EXCEPT !.farBuf = Memcpy(c.farBuf, c.farBufWritePos, farend, 0, FRAME_LEN),
            !.farBufWritePos = c.farBufWritePos + FRAME_LEN]

\* Mutant of BufferFarFrame: the second part restarts at the frame's first
\* sample (writePos is not advanced).
BufferFarFrameNoRest(c, farend) ==
  LET room == FAR_BUF_LEN - c.farBufWritePos
  IN  IF FRAME_LEN > room
      THEN [c EXCEPT
              !.farBuf = Memcpy(Memcpy(c.farBuf, c.farBufWritePos, farend, 0, room),
                                0, farend, 0, FRAME_LEN - room),
              !.farBufWritePos = FRAME_LEN - room]
      ELSE [c EXCEPT !.farBuf = Memcpy(c.farBuf, c.farBufWritePos, farend, 0, FRAME_LEN),
                     !.farBufWritePos = c.farBufWritePos + FRAME_LEN]

\* WebRtcAecm_BufferFarFrame: the frame is written round the end of farBuf.
BufferFarFrame(c, farend) ==
  LET room == FAR_BUF_LEN - c.farBufWritePos
  IN  IF FRAME_LEN > room
      THEN [c EXCEPT
              !.farBuf = Memcpy(Memcpy(c.farBuf, c.farBufWritePos, farend, 0, room),
                                0, farend, room, FRAME_LEN - room),
              !.farBufWritePos = FRAME_LEN - room]
      ELSE [c EXCEPT !.farBuf = Memcpy(c.farBuf, c.farBufWritePos, farend, 0, FRAME_LEN),
                     !.farBufWritePos = c.farBufWritePos + FRAME_LEN]

\* WebRtcAecm_FetchFarFrame.  knownDelay is 0 for the whole life of the core
\* (only InitCore assigns it), so delayChange is 0 as well.
FetchPos(c) == c.farBufReadPos % FAR_BUF_LEN

FetchedFrame(c) ==
  [i \in 1..FRAME_LEN |-> c.farBuf[(FetchPos(c) + i - 1) % FAR_BUF_LEN]]

FetchFarFrame(c) ==
  LET p == FetchPos(c)
  IN  [c EXCEPT !.farBufReadPos = IF p + FRAME_LEN > FAR_BUF_LEN
                                  THEN p + FRAME_LEN - FAR_BUF_LEN
                                  ELSE p + FRAME_LEN]

\* The three writes.  The clean buffer is only touched when there is one.
BufferFrames(c, farFrame, near, withClean) ==
  [c EXCEPT
     !.farFrameBuf = WriteBuffer(c.farFrameBuf, farFrame),
     !.nearNoisyFrameBuf = WriteBuffer(c.nearNoisyFrameBuf, near),
     !.nearCleanFrameBuf = IF withClean THEN WriteBuffer(c.nearCleanFrameBuf, near)
                                        ELSE c.nearCleanFrameBuf]

\* Mutant of BlockReady: a block must be exceeded, not just filled.
BlockReadyLate(c) == available_read(c.farFrameBuf) > PART_LEN

\* The while loop runs at most once, because FRAME_LEN <= PART_LEN.
BlockReady(c) == available_read(c.farFrameBuf) >= PART_LEN

TakenBlock(c, withClean) ==
  [far   |-> ReadData(c.farFrameBuf, PART_LEN),
   noisy |-> ReadData(c.nearNoisyFrameBuf, PART_LEN),
   clean |-> IF withClean THEN ReadData(c.nearCleanFrameBuf, PART_LEN) ELSE << >>]

\* Mutant of TakeBlock: the clean samples are looked at, not consumed.
TakeBlockNoClean(c, withClean) ==
  [c EXCEPT
     !.farFrameBuf = ReadBuffer(c.farFrameBuf, PART_LEN),
     !.nearNoisyFrameBuf = ReadBuffer(c.nearNoisyFrameBuf, PART_LEN)]

TakeBlock(c, withClean) ==
  [c EXCEPT
     !.farFrameBuf = ReadBuffer(c.farFrameBuf, PART_LEN),
     !.nearNoisyFrameBuf = ReadBuffer(c.nearNoisyFrameBuf, PART_LEN),
     !.nearCleanFrameBuf = IF withClean THEN ReadBuffer(c.nearCleanFrameBuf, PART_LEN)
                                        ELSE c.nearCleanFrameBuf]

EmitBlock(c, samples) == [c EXCEPT !.outFrameBuf = WriteBuffer(c.outFrameBuf, samples)]

\* The output is stuffed when there is less than a frame of it.
MustStuff(c) == available_read(c.outFrameBuf) < FRAME_LEN

\* Mutant of Stuff: a whole frame is stuffed.
StuffFrame(c) == [c EXCEPT !.outFrameBuf = MoveReadPtr(c.outFrameBuf, -FRAME_LEN)]

Stuff(c) ==
  [c EXCEPT !.outFrameBuf = MoveReadPtr(c.outFrameBuf,
                                        available_read(c.outFrameBuf) - FRAME_LEN)]

-----------------------------------------------------------------------------
\* WebRtcAecm_InitCore, as far as the reframing goes.  farBuf is not cleared.
CoreInitialized(farBuf) ==
  [farBuf |-> farBuf, farBufWritePos |-> 0, farBufReadPos |-> 0,
   farFrameBuf |-> EmptyBuf, nearNoisyFrameBuf |-> EmptyBuf,
   nearCleanFrameBuf |-> EmptyBuf, outFrameBuf |-> EmptyBuf]

Init == /\ core = CoreInitialized([i \in 0..FAR_BUF_LEN-1 |-> Garbage])
        /\ next = 0 /\ frames = 0 /\ fails = 0
        /\ block = NoBlock /\ out = << >>

InitCore == /\ core' = CoreInitialized([i \in 0..FAR_BUF_LEN-1 |-> Garbage])
            /\ frames' = 0 /\ fails' = 0
            /\ block' = NoBlock /\ out' = << >>
            /\ UNCHANGED next

\* The core after the frame is buffered, and after its block is taken.
Buffered(withClean) ==
  LET c == BufferFarFrame(core, Frame)
  IN  BufferFrames(FetchFarFrame(c), FetchedFrame(c), Frame, withClean)

Advance == /\ next' = (next + FRAME_LEN) % Period
           /\ frames' = IF frames < MaxFrames THEN frames + 1 ELSE frames

\* The end of WebRtcAecm_ProcessFrame: an output frame leaves the core.
Output(c) ==
  \E d \in {IF MustStuff(c) THEN Stuff(c) ELSE c} :
    /\ out' = ReadData(d.outFrameBuf, FRAME_LEN)
    /\ core' = [d EXCEPT !.outFrameBuf = ReadBuffer(d.outFrameBuf, FRAME_LEN)]

FrameWithoutBlock(withClean) ==
  \E c \in {Buffered(withClean)} :
    /\ ~BlockReady(c)
    /\ block' = NoBlock
    /\ Output(c)
    /\ Advance
    /\ UNCHANGED fails

FrameWithBlock(withClean) ==
  \E c \in {Buffered(withClean)} :
    /\ BlockReady(c)
    /\ block' = TakenBlock(c, withClean)
    /\ Output(EmitBlock(TakeBlock(c, withClean), block'.noisy))
    /\ Advance
    /\ UNCHANGED fails

\* ProcessBlock returns -1: so does ProcessFrame, and nothing is output.
FrameFails(withClean) ==
  /\ fails < MaxFails /\ fails' = fails + 1
  /\ \E c \in {Buffered(withClean)} :
       /\ BlockReady(c)
       /\ block' = TakenBlock(c, withClean)
       /\ core' = TakeBlock(c, withClean)
  /\ out' = << >>
  /\ Advance

ProcessFrame(withClean) ==
  \/ FrameWithoutBlock(withClean)
  \/ FrameWithBlock(withClean)
  \/ FrameFails(withClean)

Next == InitCore \/ \E withClean \in CleanGiven : ProcessFrame(withClean)

Spec == Init /\ [][Next]_vars

-----------------------------------------------------------------------------
\* Type invariant: the fields of AecmCore the reframing uses, and its results.
TypeOK ==
  LET Buf == RingBufferType(FRAME_LEN + PART_LEN, Samples)
  IN  /\ core.farBuf \in [0..FAR_BUF_LEN-1 -> Samples]
      /\ core.farBufWritePos \in 0..FAR_BUF_LEN
      /\ core.farBufReadPos \in 0..FAR_BUF_LEN
      /\ {core.farFrameBuf, core.nearNoisyFrameBuf,
          core.nearCleanFrameBuf, core.outFrameBuf} \subseteq Buf
      /\ next \in 0..Period-1 /\ frames \in 0..MaxFrames /\ fails \in 0..MaxFails
      /\ Len(out) \in {0, FRAME_LEN}

\* A block given to ProcessBlock holds PART_LEN consecutive samples of the far
\* end and exactly the near-end samples of the same instants.  The far end
\* passes one more buffer (farBuf, with its own wrap) than the near end; the
\* echo path can only be learned if the two stay in step for ever, across
\* failed blocks and re-initialisations.  (aecm_core.c: ProcessFrame)
Synchronized ==
  block # NoBlock =>
    /\ Len(block.noisy) = PART_LEN
    /\ \A i \in 2..PART_LEN : block.noisy[i] = (block.noisy[i-1] + 1) % Period
    /\ block.noisy[1] \in 0..Period-1
    /\ block.far = block.noisy

\* The clean block belongs to the noisy one.  ("Buffer the synchronized far
\* and near frames", aecm_core.c: ProcessFrame)
CleanSynchronized == block.clean \in {<< >>, block.noisy}

\* Until a block fails, output frame k is input frame k delayed by the constant Latency: silence
\* while the first block fills up, and from then on every sample exactly once
\* and in order, without another stuffed sample.  (aecm_core.c: the while
\* loop, the stuffing and the output of ProcessFrame)
SteadyLatency ==
  out # << >> /\ fails = 0 =>
    \A i \in 1..FRAME_LEN :
      out[i] = IF frames * FRAME_LEN <= Latency
               THEN Zero
               ELSE (next - FRAME_LEN - Latency + i - 1) % Period

\* The out buffer is stuffed for the first frame only: no later frame holds a
\* sample that no block put there.  ("Stuff the out buffer if we have less than
\* a frame to output. This should only happen for the first frame.",
\* aecm_core.c: ProcessFrame)
StuffedFirstOnly ==
  out # << >> /\ frames > 1 => \A i \in 1..FRAME_LEN : out[i] # Zero

\* Whatever blocks fail, what waits in the far and output buffers between two
\* frames never exceeds the latency, so that no write into the four buffers
\* is ever cut short and the near end never lags by more.  (aecm_core.c:
\* ProcessFrame, the results of WebRtc_WriteBuffer are ignored)
BacklogBounded ==
  /\ available_read(core.farFrameBuf) + available_read(core.outFrameBuf) <= Latency
  /\ available_read(core.nearNoisyFrameBuf) = available_read(core.farFrameBuf)
=============================================================================
