------------------------- MODULE EchoControlMobile --------------------------
(***************************************************************************)
(* The AECM instance of modules/audio_processing/aecm/echo_control_mobile.c*)
(* (struct AecMobile): the render side calls BufferFarend, the capture     *)
(* side calls Process, in any order and with any block size the API takes. *)
(*                                                                         *)
(* The far-end ring buffer is kept as the number of samples still unread:  *)
(* module StreamWindow is what a ring buffer does, and RingBufferProofs    *)
(* proves that ring_buffer.c does it.  A far-end frame is abstracted to    *)
(* where it came from (see Frames).  The numbers of the code (FRAME_LEN,   *)
(* kSampMsNb, the thresholds of the delay tracker ...) are constants, so   *)
(* that TLC can run scaled-down instances of the same control.             *)
(***************************************************************************)
EXTENDS Integers, Sequences

CONSTANTS
  FRAME_LEN,          \* 80 samples
  BUF_SIZE_FRAMES,    \* 50 frames
  kSampMsNb,          \* 8 samples per ms and per mult
  FAR_BUF_LEN,        \* 1024 samples
  MaxMs, MsStep,      \* msInSndCardBuf is clamped to 0..500, then 10 is added
  StableBlocks,       \* 6: blocks of 10 ms the sound card must be stable
  MaxCheckBlocks,     \* 50: blocks of 10 ms after which it is taken as it is
  StuffFrames,        \* 10: DelayComp rewinds at most that many frames
  HighDiff, LowDiff,  \* 224 and 96: the band knownDelay may be off by
  TargetDiff,         \* 160: what knownDelay is set below filtDelay
  DelayChangeCalls,   \* 25: calls out of the band before knownDelay changes
  ShortRange,         \* 65536: the range of a C short
  SampFreqs,          \* the rates Init is called with
  BlockSizes,         \* the nrOfSamples the calls are made with
  MsValues,           \* the msInSndCardBuf Process is called with
  MaxInits            \* bound: how often Init may succeed

ASSUME EchoControlMobileAssumption ==
  /\ {FRAME_LEN, BUF_SIZE_FRAMES, kSampMsNb, StableBlocks} \subseteq Nat \ {0}
  /\ {FAR_BUF_LEN, MaxMs, MsStep, MaxCheckBlocks, StuffFrames,
      HighDiff, LowDiff, TargetDiff, DelayChangeCalls} \subseteq Nat
  /\ LowDiff < HighDiff
  /\ ShortRange \in Nat /\ ShortRange > 1 /\ ShortRange % 2 = 0
  /\ BlockSizes \subseteq Nat /\ MsValues \subseteq Int
  /\ MaxInits \in Nat

VARIABLES aecm,     \* the AecMobile record
          ret,      \* what the last call returned
          fed,      \* origins of the far-end frames it gave to the core
          lost,     \* far-end samples a call that returned 0 did not store
          inits,    \* how often Init succeeded
          waited,   \* history: samples captured while the size check was on
          streak    \* history: EstBufDelay calls in a row that found
                    \* knownDelay off the band on the same side

vars == <<aecm, ret, fed, lost, inits, waited, streak>>

kBufSizeSamp == BUF_SIZE_FRAMES * FRAME_LEN

\* Where a far-end frame comes from: "far" was read from the far-end buffer
\* in this session, "silence" is a zeroed farendOld, "stale" was left by an
\* earlier session, "garbage" is memory never written.
Frames == {"far", "silence", "stale", "garbage"}

\* Conversion to short, division truncated toward zero, smaller and larger.
Short(x) == ((x + ShortRange \div 2) % ShortRange) - ShortRange \div 2

CDiv(x, y) == LET q == (IF x < 0 THEN -x ELSE x) \div (IF y < 0 THEN -y ELSE y)
              IN  IF (x < 0) = (y < 0) THEN q ELSE -q

Lesser(x, y) == IF x < y THEN x ELSE y

Greater(x, y) == IF x > y THEN x ELSE y

\* Mutant of SizeAtLeast: one more is asked for.
SizeAbove(c, n, k) == \/ c < 0 /\ n > 0
                      \/ c * n > k

\* c * n as size_t is at least k: a negative c becomes a huge number.
SizeAtLeast(c, n, k) == \/ c < 0 /\ n > 0
                        \/ c * n >= k

-----------------------------------------------------------------------------
\* The far-end ring buffer, as a count of unread samples.
Stored(a, n) == Lesser(kBufSizeSamp - a.unread, n)

\* Mutant of Write: the free space is not looked at.
WriteUnlimited(a, n) == [a EXCEPT !.unread = a.unread + n]

Write(a, n) == [a EXCEPT !.unread = a.unread + Stored(a, n)]

MoveReadPtr(a, k) ==
  [a EXCEPT !.unread = a.unread - Greater(Lesser(k, a.unread), a.unread - kBufSizeSamp)]

nmbrOfFilledBuffers(a) == a.unread \div FRAME_LEN

nSampSndCard(a) == a.msInSndCardBuf * kSampMsNb * a.mult

-----------------------------------------------------------------------------
\* WebRtcAecm_Create: only initFlag is set.  The other fields are not read
\* before Init has set them; farendOld is named because Init misses half of it.
Created ==
  [initFlag |-> FALSE, mult |-> 1, unread |-> 0, ECstartup |-> TRUE,
   checkBuffSize |-> TRUE, checkBufSizeCtr |-> 0, counter |-> 0, sum |-> 0,
   firstVal |-> 0, bufSizeStart |-> 0, msInSndCardBuf |-> 0, filtDelay |-> 0,
   timeForDelayChange |-> 0, knownDelay |-> 0, lastDelayDiff |-> 0,
   farendOld |-> [i \in 0..1 |-> "garbage"]]

Mult(sampFreq) == IF sampFreq = 16000 THEN 2 ELSE 1

\* Mutant of Initialize: farendOld is not cleared at all.
InitializeNoMemset(a, sampFreq) ==
  [Created EXCEPT
     !.initFlag = TRUE,
     !.mult = Mult(sampFreq),
     !.msInSndCardBuf = a.msInSndCardBuf,
     !.farendOld = a.farendOld]

\* WebRtcAecm_Init.  memset(&farendOld[0][0], 0, 160) clears 160 bytes, which
\* is the first frame only; msInSndCardBuf keeps its value too.
Initialize(a, sampFreq) ==
  [Created EXCEPT
     !.initFlag = TRUE,
     !.mult = Mult(sampFreq),
     !.msInSndCardBuf = a.msInSndCardBuf,
     !.farendOld = [i \in 0..1 |->
        CASE i = 0 -> "silence"
          [] i = 1 -> IF a.farendOld[1] = "far" THEN "stale" ELSE a.farendOld[1]]]

\* Mutants of DelayComp: the limit is one block, or nothing is ever stuffed.
DelayCompEager(a) ==
  LET snd      == nSampSndCard(a)
      nSampAdd == Lesser(Greater(snd \div 2 - a.unread, FRAME_LEN),
                         StuffFrames * FRAME_LEN)
  IN  IF snd - a.unread > FRAME_LEN * a.mult THEN MoveReadPtr(a, -nSampAdd) ELSE a

DelayCompNever(a) == a

\* WebRtcAecm_DelayComp: the sound card is so far ahead of the far-end buffer
\* that the buffer is stuffed with samples already played.
DelayComp(a) ==
  LET snd      == nSampSndCard(a)
      nSampAdd == Lesser(Greater(snd \div 2 - a.unread, FRAME_LEN),
                         StuffFrames * FRAME_LEN)
  IN  IF snd - a.unread > FAR_BUF_LEN - FRAME_LEN * a.mult
      THEN MoveReadPtr(a, -nSampAdd)
      ELSE a

\* Mutant of TimeForDelayChange: an estimate inside the band resets nothing.
TimeNotReset(a, diff) ==
  CASE diff > HighDiff ->
         IF a.lastDelayDiff < LowDiff THEN 0 ELSE a.timeForDelayChange + 1
    [] diff < LowDiff /\ a.knownDelay > 0 ->
         IF a.lastDelayDiff > HighDiff THEN 0 ELSE a.timeForDelayChange + 1
    [] OTHER -> a.timeForDelayChange

\* WebRtcAecm_EstBufDelay: the debouncing of knownDelay (LowDiff < HighDiff) ...
TimeForDelayChange(a, diff) ==
  CASE diff > HighDiff ->
         IF a.lastDelayDiff < LowDiff THEN 0 ELSE a.timeForDelayChange + 1
    [] diff < LowDiff /\ a.knownDelay > 0 ->
         IF a.lastDelayDiff > HighDiff THEN 0 ELSE a.timeForDelayChange + 1
    [] OTHER -> 0

\* ... and the rest of it.
EstBufDelay(a) ==
  LET early == nSampSndCard(a) - a.unread < FRAME_LEN
      delay == nSampSndCard(a) - a.unread + (IF early THEN FRAME_LEN ELSE 0)
      filt  == Greater(0, CDiv(8 * a.filtDelay + 2 * delay, 10))
      diff  == filt - a.knownDelay
      time  == TimeForDelayChange(a, diff)
  IN  [(IF early THEN MoveReadPtr(a, FRAME_LEN) ELSE a) EXCEPT
         !.filtDelay = filt,
         !.lastDelayDiff = diff,
         !.timeForDelayChange = time,
         !.knownDelay = IF time > DelayChangeCalls THEN Greater(filt - TargetDiff, 0)
                                                   ELSE a.knownDelay]

\* Mutant of StartSize: it is not limited to the far-end buffer.
StartSizeUnlimited(total, count, mult) ==
  CDiv(3 * total * mult * kSampMsNb, count * 4 * FRAME_LEN)

\* 75% of the average of count delays that add up to total, in frames.
StartSize(total, count, mult) ==
  Lesser(CDiv(3 * total * mult * kSampMsNb, count * 4 * FRAME_LEN), BUF_SIZE_FRAMES)

\* The stability check of the sound card buffer in WebRtcAecm_Process.
CheckBufSize(a, nBlocks10ms) ==
  LET ms       == a.msInSndCardBuf
      first    == IF a.counter = 0 THEN ms ELSE a.firstVal
      sum0     == IF a.counter = 0 THEN 0 ELSE a.sum
      off      == IF first > ms THEN first - ms ELSE ms - first
      stable   == 5 * off < Greater(ms, 5 * kSampMsNb)
      sum1     == IF stable THEN Short(sum0 + ms) ELSE sum0
      counter1 == IF stable THEN Short(a.counter + 1) ELSE 0
      ctr      == Short(a.checkBufSizeCtr + 1)
      settled  == SizeAtLeast(counter1, nBlocks10ms, StableBlocks)
      timedOut == SizeAtLeast(ctr, nBlocks10ms, MaxCheckBlocks + 1)
  IN  [a EXCEPT !.firstVal = first, !.sum = sum1, !.counter = counter1,
                !.checkBufSizeCtr = ctr,
                !.bufSizeStart = CASE timedOut -> StartSize(ms, 1, a.mult)
                                   [] settled /\ ~timedOut -> StartSize(sum1, counter1, a.mult)
                                   [] OTHER -> a.bufSizeStart,
                !.checkBuffSize = ~(settled \/ timedOut)]

\* Mutant of Startup: a larger backlog is kept as it is.
StartupNoSeek(a, nBlocks10ms) ==
  LET b == IF a.checkBuffSize THEN CheckBufSize(a, nBlocks10ms) ELSE a
  IN  IF b.checkBuffSize \/ nmbrOfFilledBuffers(a) < b.bufSizeStart THEN b
      ELSE [b EXCEPT !.ECstartup = FALSE]

\* The startup branch of WebRtcAecm_Process: near end is passed through.
Startup(a, nBlocks10ms) ==
  LET b      == IF a.checkBuffSize THEN CheckBufSize(a, nBlocks10ms) ELSE a
      filled == nmbrOfFilledBuffers(a)
  IN  IF b.checkBuffSize \/ filled < b.bufSizeStart THEN b
      ELSE [(IF filled = b.bufSizeStart THEN b
             ELSE MoveReadPtr(b, b.unread - b.bufSizeStart * FRAME_LEN))
              EXCEPT !.ECstartup = FALSE]

\* Mutant of TakeFrame: it waits for more than a block.
TakeFrameGreedy(a, i) ==
  LET b == IF nmbrOfFilledBuffers(a) > a.mult
           THEN [MoveReadPtr(a, FRAME_LEN) EXCEPT !.farendOld[i] = "far"]
           ELSE a
  IN  IF i = a.mult - 1 THEN EstBufDelay(b) ELSE b

\* One turn of the loop of WebRtcAecm_Process, up to the call of the core,
\* which gets the frame left in farendOld[i] either way.
TakeFrame(a, i) ==
  LET b == IF nmbrOfFilledBuffers(a) > 0
           THEN [MoveReadPtr(a, FRAME_LEN) EXCEPT !.farendOld[i] = "far"]
           ELSE a
  IN  IF i = a.mult - 1 THEN EstBufDelay(b) ELSE b

\* The clamping of msInSndCardBuf in WebRtcAecm_Process.
Clamped(ms) == IF ms < 0 THEN 0 ELSE IF ms > MaxMs THEN MaxMs ELSE ms

SetMs(a, ms) == [a EXCEPT !.msInSndCardBuf = Clamped(ms) + MsStep]

Warning(ms) == IF Clamped(ms) = ms THEN "OK" ELSE "AECM_BAD_PARAMETER_WARNING"

\* The checks the calls make before they touch anything.
Error(n) == CASE ~aecm.initFlag -> "AECM_UNINITIALIZED_ERROR"
              [] aecm.initFlag /\ n \notin {FRAME_LEN, 2 * FRAME_LEN} -> "AECM_BAD_PARAMETER_ERROR"
              [] OTHER -> "OK"

\* History: the side of the band knownDelay was found on by the EstBufDelay
\* call that led from a to b, and for how many calls in a row.
Side(a, b) == IF b.lastDelayDiff > HighDiff THEN 1
              ELSE IF b.lastDelayDiff < LowDiff /\ a.knownDelay > 0 THEN -1
              ELSE 0

NextStreak(a, b) ==
  LET side == Side(a, b) IN
  [side |-> side,
   calls |-> IF side = 0 THEN 0
             ELSE IF side # streak.side THEN 1
             ELSE Lesser(streak.calls + 1, DelayChangeCalls + 1)]

\* The half second the code speaks of, in samples.
WaitLimit(a) == MaxCheckBlocks * FRAME_LEN * a.mult

-----------------------------------------------------------------------------
Init == /\ aecm = Created
        /\ ret = "OK" /\ fed = << >> /\ lost = 0
        /\ inits = 0 /\ waited = 0
        /\ streak = [side |-> 0, calls |-> 0]

\* A call that stops at one of its first checks.
Refused(error) == /\ ret' = error /\ fed' = << >> /\ lost' = 0
                  /\ UNCHANGED <<aecm, inits, waited, streak>>

\* WebRtcAecm_Init on a created or on a running instance.
InitInstance(sampFreq) ==
  \/ /\ sampFreq \notin {8000, 16000}
     /\ Refused("AECM_BAD_PARAMETER_ERROR")
  \/ /\ sampFreq \in {8000, 16000}
     /\ inits < MaxInits
     /\ aecm' = Initialize(aecm, sampFreq)
     /\ ret' = "OK" /\ fed' = << >> /\ lost' = 0
     /\ inits' = inits + 1
     /\ waited' = 0
     /\ streak' = [side |-> 0, calls |-> 0]

\* WebRtcAecm_BufferFarend and WebRtcAecm_GetBufferFarendError.
BufferFarendRefused(n) == Error(n) # "OK" /\ Refused(Error(n))

BufferFarend(n) ==
  /\ Error(n) = "OK"
  /\ LET a == IF aecm.ECstartup THEN aecm ELSE DelayComp(aecm) IN
     /\ aecm' = Write(a, n)
     /\ lost' = n - Stored(a, n)
  /\ ret' = "OK" /\ fed' = << >>
  /\ UNCHANGED <<inits, waited, streak>>

\* WebRtcAecm_Process
ProcessRefused(n) == Error(n) # "OK" /\ Refused(Error(n))

ProcessStartup(n, ms) ==
  /\ Error(n) = "OK"
  /\ aecm.ECstartup
  /\ aecm' = Startup(SetMs(aecm, ms), (n \div FRAME_LEN) \div aecm.mult)
  /\ ret' = Warning(ms) /\ fed' = << >> /\ lost' = 0
  /\ waited' = IF aecm'.checkBuffSize
               THEN Lesser(waited + n, WaitLimit(aecm) + 1) ELSE waited
  /\ UNCHANGED <<inits, streak>>

\* WebRtcAecm_ProcessFrame accepts the first "accepted" frames of the block;
\* Process returns at the first one it does not accept.  (The quantifiers
\* name the instance before the loop, after its first and after its last turn.)
ProcessRunning(n, ms, accepted) ==
  LET nFrames == n \div FRAME_LEN
      two     == nFrames = 2 /\ accepted > 0
  IN
  /\ Error(n) = "OK"
  /\ ~aecm.ECstartup
  /\ accepted \in 0..nFrames
  /\ \E a0 \in {SetMs(aecm, ms)} :
     \E a1 \in {TakeFrame(a0, 0)} :
     \E a2 \in {IF two THEN TakeFrame(a1, 1) ELSE a1} :
       /\ aecm' = a2
       /\ fed' = IF two THEN <<a1.farendOld[0], a2.farendOld[1]>> ELSE <<a1.farendOld[0]>>
       /\ streak' = IF a2.mult = 1 \/ two THEN NextStreak(aecm, a2) ELSE streak
  /\ ret' = IF accepted = nFrames THEN Warning(ms) ELSE "FAILED"
  /\ lost' = 0
  /\ UNCHANGED <<inits, waited>>

\* A NULL data pointer is reported before anything else is looked at.
NullPointer == Refused("AECM_NULL_POINTER_ERROR")

Process(n) == \/ ProcessRefused(n)
              \/ \E ms \in MsValues : ProcessStartup(n, ms)
              \/ \E ms \in MsValues, accepted \in 0..2 : ProcessRunning(n, ms, accepted)

Next == \/ \E f \in SampFreqs : InitInstance(f)
        \/ \E n \in BlockSizes : BufferFarendRefused(n)
        \/ \E n \in BlockSizes : BufferFarend(n)
        \/ \E n \in BlockSizes : Process(n)
        \/ NullPointer

\* Render and capture both keep delivering blocks of legal size; nothing is
\* assumed about their order, or about which delay the sound card reports.
Fairness ==
  /\ \A n \in BlockSizes : WF_vars(BufferFarend(n))
  /\ \A n \in BlockSizes : WF_vars(\E ms \in MsValues : ProcessStartup(n, ms))

Spec == Init /\ [][Next]_vars

FairSpec == Spec /\ Fairness

-----------------------------------------------------------------------------
\* Every field in its range; in particular what is unread never exceeds the
\* far-end buffer.
TypeOK ==
  /\ aecm.unread \in 0..kBufSizeSamp
  /\ aecm.mult \in {1, 2}
  /\ aecm.bufSizeStart \in Int
  /\ {aecm.counter, aecm.sum, aecm.checkBufSizeCtr, aecm.firstVal} \subseteq Int
  /\ {aecm.msInSndCardBuf, aecm.filtDelay, aecm.knownDelay, aecm.timeForDelayChange} \subseteq Nat
  /\ aecm.lastDelayDiff \in Int
  /\ {aecm.initFlag, aecm.ECstartup, aecm.checkBuffSize} \subseteq BOOLEAN
  /\ aecm.farendOld \in [0..1 -> Frames]
  /\ lost \in Nat

\* "for really bad sound cards, don't disable echocanceller for more than 0.5
\* sec": the size check never outlasts half a second of captured signal.
DecidedInTime == aecm.checkBuffSize => waited <= WaitLimit(aecm)

\* The core is only given far-end samples of this session or, before there
\* are any, silence: running out of data replays a frame that was played.
FedIsDefined == \A i \in 1..Len(fed) : fed[i] \in {"far", "silence"}

\* Startup ends with exactly the far-end backlog that was decided on, however
\* many blocks the render side delivered before and between the checks.
StartsWithBacklog ==
  [][(aecm.ECstartup /\ ~aecm'.ECstartup) =>
        aecm'.unread = Greater(aecm'.bufSizeStart, 0) * FRAME_LEN]_vars

\* knownDelay never follows a short disturbance: it changes only after more
\* than DelayChangeCalls estimates in a row were off on the same side.
KnownDelayDebounced ==
  [][aecm'.knownDelay # aecm.knownDelay =>
        aecm'.ECstartup \/ streak'.calls > DelayChangeCalls]_vars

\* The echo canceller is enabled eventually after Init, whatever the sound
\* card reports: the startup size is one the far-end buffer can reach.
EchoCancellerStarts == (aecm.initFlag /\ aecm.ECstartup) ~> ~aecm.ECstartup
=============================================================================
