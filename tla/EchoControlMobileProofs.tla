---------------------- MODULE EchoControlMobileProofs -----------------------
(***************************************************************************)
(* Theorems about the AECM instance, for every value of its constants:     *)
(* types, the backlog it starts with and the debouncing of knownDelay for  *)
(* every sequence of calls; the end of the size check for callers that     *)
(* keep to one block size, and that blocks of 5 ms never end it; the       *)
(* origin of the far-end frames for callers that pass single frames; and   *)
(* for the loop of main.cpp that nothing is lost and nothing but far-end   *)
(* data is given to the core.                                              *)
(***************************************************************************)
EXTENDS AecmLockstep, TLAPS

\* The AecMobile record, with the range of each of its fields.
AecMobile ==
  [initFlag : BOOLEAN, mult : {1, 2}, unread : 0..kBufSizeSamp,
   ECstartup : BOOLEAN, checkBuffSize : BOOLEAN, checkBufSizeCtr : Int,
   counter : Int, sum : Int, firstVal : Int, bufSizeStart : Int,
   msInSndCardBuf : Nat, filtDelay : Nat, timeForDelayChange : Nat,
   knownDelay : Nat, lastDelayDiff : Int, farendOld : [0..1 -> Frames]]

-----------------------------------------------------------------------------
\* Arithmetic.

LEMMA ConstantTypes ==
  /\ FRAME_LEN \in Nat /\ FRAME_LEN > 0
  /\ BUF_SIZE_FRAMES \in Nat /\ kSampMsNb \in Nat /\ kSampMsNb > 0
  /\ StableBlocks \in Nat /\ StableBlocks > 0
  /\ FAR_BUF_LEN \in Nat /\ MaxMs \in Nat /\ MsStep \in Nat
  /\ MaxCheckBlocks \in Nat /\ StuffFrames \in Nat
  /\ HighDiff \in Nat /\ LowDiff \in Nat /\ TargetDiff \in Nat
  /\ DelayChangeCalls \in Nat /\ LowDiff < HighDiff
  /\ kBufSizeSamp \in Nat
BY EchoControlMobileAssumption DEF kBufSizeSamp

\* A C short is an integer again.
LEMMA ShortType == \A x \in Int : Short(x) \in Int
BY EchoControlMobileAssumption DEF Short

\* The quotient of two integers is one when the divisor is not zero.
LEMMA CDivType == \A x \in Int, y \in Int \ {0} : CDiv(x, y) \in Int
<1> SUFFICES ASSUME NEW x \in Int, NEW y \in Int \ {0} PROVE CDiv(x, y) \in Int
  OBVIOUS
<1> DEFINE p == IF x < 0 THEN -x ELSE x
           d == IF y < 0 THEN -y ELSE y
<1>1. p \in Int /\ d \in Int /\ d > 0
  OBVIOUS
<1> HIDE DEF p, d
<1>2. p \div d \in Int
  BY <1>1
<1>3. CDiv(x, y) = IF (x < 0) = (y < 0) THEN p \div d ELSE -(p \div d)
  BY DEF CDiv, p, d
<1> QED
  BY <1>2, <1>3

\* A product of the FRAME_LEN and a positive or negative count is no zero.
LEMMA ProductNotZero == \A c \in Int \ {0} : c * 4 * FRAME_LEN \in Int \ {0}
BY ConstantTypes

\* 75% of the average delay is a number when there is something to average.
LEMMA StartSizeType ==
  ASSUME NEW total \in Int, NEW count \in Int \ {0}, NEW mult \in {1, 2}
  PROVE  StartSize(total, count, mult) \in Int
<1>1. 3 * total * mult * kSampMsNb \in Int
  BY ConstantTypes
<1>2. count * 4 * FRAME_LEN \in Int \ {0}
  BY ProductNotZero
<1>3. CDiv(3 * total * mult * kSampMsNb, count * 4 * FRAME_LEN) \in Int
  BY <1>1, <1>2, CDivType
<1> QED
  BY <1>3, ConstantTypes DEF StartSize, Lesser

-----------------------------------------------------------------------------
\* The far-end buffer.

\* A seek leaves a legal number of unread samples and touches nothing else.
LEMMA Seek ==
  ASSUME NEW a \in AecMobile, NEW k \in Int
  PROVE  \E u \in 0..kBufSizeSamp : MoveReadPtr(a, k) = [a EXCEPT !.unread = u]
<1> DEFINE u == a.unread - Greater(Lesser(k, a.unread), a.unread - kBufSizeSamp)
<1>1. a.unread \in 0..kBufSizeSamp
  BY DEF AecMobile
<1>2. u \in 0..kBufSizeSamp
  BY <1>1, ConstantTypes DEF Greater, Lesser
<1>3. MoveReadPtr(a, k) = [a EXCEPT !.unread = u]
  BY DEF MoveReadPtr
<1> QED
  BY <1>2, <1>3

\* So does a write, which stores no more than it is given.
LEMMA WriteStores ==
  ASSUME NEW a \in AecMobile, NEW n \in Nat
  PROVE  /\ Stored(a, n) \in 0..n
         /\ \E u \in 0..kBufSizeSamp : Write(a, n) = [a EXCEPT !.unread = u]
<1>1. a.unread \in 0..kBufSizeSamp
  BY DEF AecMobile
<1>2. Stored(a, n) \in 0..n /\ a.unread + Stored(a, n) \in 0..kBufSizeSamp
  BY <1>1, ConstantTypes DEF Stored, Lesser
<1> QED
  BY <1>2 DEF Write

\* A record whose unread samples are replaced by a legal number is a record
\* again, and keeps its other fields.
SameButUnread(a, b) ==
  /\ b \in AecMobile
  /\ b.initFlag = a.initFlag /\ b.mult = a.mult /\ b.ECstartup = a.ECstartup
  /\ b.checkBuffSize = a.checkBuffSize /\ b.checkBufSizeCtr = a.checkBufSizeCtr
  /\ b.counter = a.counter /\ b.sum = a.sum /\ b.firstVal = a.firstVal
  /\ b.bufSizeStart = a.bufSizeStart /\ b.msInSndCardBuf = a.msInSndCardBuf
  /\ b.filtDelay = a.filtDelay /\ b.timeForDelayChange = a.timeForDelayChange
  /\ b.knownDelay = a.knownDelay /\ b.lastDelayDiff = a.lastDelayDiff
  /\ b.farendOld = a.farendOld

LEMMA UnreadReplaced ==
  ASSUME NEW a \in AecMobile, NEW u \in 0..kBufSizeSamp
  PROVE  /\ [a EXCEPT !.unread = u] \in AecMobile
         /\ SameButUnread(a, [a EXCEPT !.unread = u])
         /\ [a EXCEPT !.unread = u].unread = u
<1>1. [a EXCEPT !.unread = u] \in AecMobile
  BY DEF AecMobile
<1> QED
  BY <1>1 DEF AecMobile, SameButUnread

LEMMA SeekKeeps ==
  ASSUME NEW a \in AecMobile, NEW k \in Int
  PROVE  SameButUnread(a, MoveReadPtr(a, k))
BY Seek, UnreadReplaced

\* Moving forward drops as much as was asked for, if there is as much.
LEMMA SeekAhead ==
  ASSUME NEW a \in AecMobile, NEW k \in Nat
  PROVE  /\ MoveReadPtr(a, k).unread <= a.unread
         /\ k <= a.unread => MoveReadPtr(a, k).unread = a.unread - k
<1>1. a.unread \in 0..kBufSizeSamp
  BY DEF AecMobile
<1>2. MoveReadPtr(a, k).unread = a.unread - Greater(Lesser(k, a.unread), a.unread - kBufSizeSamp)
  BY DEF MoveReadPtr, AecMobile
<1> QED
  BY <1>1, <1>2, ConstantTypes DEF Greater, Lesser

LEMMA WriteKeeps ==
  ASSUME NEW a \in AecMobile, NEW n \in Nat
  PROVE  SameButUnread(a, Write(a, n))
BY WriteStores, UnreadReplaced

-----------------------------------------------------------------------------
\* The calls' effects on the record.

\* The size check touches its own fields only; the start size it may decide on
\* is a number, because StableBlocks is not zero and so no count is either.
LEMMA CheckTypes ==
  ASSUME NEW a \in AecMobile, NEW nb \in Nat, NEW c, c = CheckBufSize(a, nb)
  PROVE  /\ c \in AecMobile
         /\ c.initFlag = a.initFlag /\ c.mult = a.mult /\ c.unread = a.unread
         /\ c.ECstartup = a.ECstartup /\ c.msInSndCardBuf = a.msInSndCardBuf
         /\ c.filtDelay = a.filtDelay /\ c.timeForDelayChange = a.timeForDelayChange
         /\ c.knownDelay = a.knownDelay /\ c.lastDelayDiff = a.lastDelayDiff
         /\ c.farendOld = a.farendOld
         /\ c.checkBufSizeCtr = Short(a.checkBufSizeCtr + 1)
         /\ c.checkBuffSize => ~SizeAtLeast(Short(a.checkBufSizeCtr + 1), nb, MaxCheckBlocks + 1)
<1> DEFINE ms       == a.msInSndCardBuf
           first    == IF a.counter = 0 THEN ms ELSE a.firstVal
           sum0     == IF a.counter = 0 THEN 0 ELSE a.sum
           off      == IF first > ms THEN first - ms ELSE ms - first
           stable   == 5 * off < Greater(ms, 5 * kSampMsNb)
           sum1     == IF stable THEN Short(sum0 + ms) ELSE sum0
           counter1 == IF stable THEN Short(a.counter + 1) ELSE 0
           ctr      == Short(a.checkBufSizeCtr + 1)
           settled  == SizeAtLeast(counter1, nb, StableBlocks)
           timedOut == SizeAtLeast(ctr, nb, MaxCheckBlocks + 1)
           start    == CASE timedOut -> StartSize(ms, 1, a.mult)
                         [] settled /\ ~timedOut -> StartSize(sum1, counter1, a.mult)
                         [] OTHER -> a.bufSizeStart
<1>1. /\ ms \in Nat /\ a.counter \in Int /\ a.sum \in Int /\ a.firstVal \in Int
      /\ a.checkBufSizeCtr \in Int /\ a.mult \in {1, 2} /\ a.bufSizeStart \in Int
  BY DEF AecMobile
<1>2. first \in Int /\ sum0 \in Int
  BY <1>1
<1>3. sum1 \in Int /\ counter1 \in Int /\ ctr \in Int
  <2>1. sum0 + ms \in Int /\ a.counter + 1 \in Int /\ a.checkBufSizeCtr + 1 \in Int
    BY <1>1, <1>2
  <2>2. Short(sum0 + ms) \in Int /\ Short(a.counter + 1) \in Int /\ ctr \in Int
    BY <2>1, ShortType
  <2> QED
    BY <2>2, <1>2
<1> HIDE DEF first, sum0, off, stable, sum1, counter1, ctr
<1>4. settled => counter1 # 0
  BY <1>3, ConstantTypes DEF SizeAtLeast
<1>5. start \in Int
  <2>1. StartSize(ms, 1, a.mult) \in Int
    <3>1. PICK one \in Int \ {0} : one = 1
      OBVIOUS
    <3> ms \in Int
      BY <1>1
    <3>2. StartSize(ms, one, a.mult) \in Int
      BY <1>1, StartSizeType
    <3> QED
      BY <3>1, <3>2
  <2>2. settled => StartSize(sum1, counter1, a.mult) \in Int
    BY <1>1, <1>3, <1>4, StartSizeType
  <2> HIDE DEF settled, timedOut, ms
  <2> QED
    BY <1>1, <2>1, <2>2
<1>6. c = [a EXCEPT !.firstVal = first, !.sum = sum1, !.counter = counter1,
                    !.checkBufSizeCtr = ctr, !.bufSizeStart = start,
                    !.checkBuffSize = ~(settled \/ timedOut)]
  BY DEF CheckBufSize, first, sum0, off, stable, sum1, counter1, ctr
<1> DEFINE undecided == ~(settled \/ timedOut)
<1>7. undecided \in BOOLEAN /\ (undecided => ~timedOut)
  OBVIOUS
<1>8. timedOut = SizeAtLeast(Short(a.checkBufSizeCtr + 1), nb, MaxCheckBlocks + 1)
  BY DEF ctr
<1>9. ctr = Short(a.checkBufSizeCtr + 1)
  BY DEF ctr
<1> HIDE DEF start, settled, timedOut, undecided
<1>10. c = [a EXCEPT !.firstVal = first, !.sum = sum1, !.counter = counter1,
                    !.checkBufSizeCtr = ctr, !.bufSizeStart = start,
                    !.checkBuffSize = undecided]
  BY <1>6 DEF undecided
<1>11. c \in AecMobile
  BY ZenonT(40), <1>2, <1>3, <1>5, <1>7, <1>10 DEF AecMobile
<1> QED
  BY <1>7, <1>8, <1>9, <1>10, <1>11 DEF AecMobile

\* Reporting a delay sets msInSndCardBuf to a legal number, and only that.
LEMMA SetMsTypes ==
  ASSUME NEW a \in AecMobile, NEW ms \in Int
  PROVE  \E v \in Nat : SetMs(a, ms) = [a EXCEPT !.msInSndCardBuf = v]
<1>1. Clamped(ms) + MsStep \in Nat
  BY ConstantTypes DEF Clamped
<1> QED
  BY <1>1 DEF SetMs

SameButMs(a, b) ==
  /\ b \in AecMobile
  /\ b.initFlag = a.initFlag /\ b.mult = a.mult /\ b.unread = a.unread
  /\ b.ECstartup = a.ECstartup /\ b.checkBuffSize = a.checkBuffSize
  /\ b.checkBufSizeCtr = a.checkBufSizeCtr /\ b.counter = a.counter
  /\ b.sum = a.sum /\ b.firstVal = a.firstVal /\ b.bufSizeStart = a.bufSizeStart
  /\ b.timeForDelayChange = a.timeForDelayChange
  /\ b.knownDelay = a.knownDelay /\ b.lastDelayDiff = a.lastDelayDiff
  /\ b.farendOld = a.farendOld

LEMMA SetMsKeeps ==
  ASSUME NEW a \in AecMobile, NEW ms \in Int
  PROVE  SameButMs(a, SetMs(a, ms))
<1>1. PICK v \in Nat : SetMs(a, ms) = [a EXCEPT !.msInSndCardBuf = v]
  BY SetMsTypes
<1>2. [a EXCEPT !.msInSndCardBuf = v] \in AecMobile
  BY DEF AecMobile
<1>3. SameButMs(a, [a EXCEPT !.msInSndCardBuf = v])
  BY <1>2 DEF AecMobile, SameButMs
<1> QED
  BY <1>1, <1>3

\* Stuffing is a seek.
LEMMA DelayCompKeeps ==
  ASSUME NEW a \in AecMobile
  PROVE  SameButUnread(a, DelayComp(a))
<1> DEFINE snd == nSampSndCard(a)
           nSampAdd == Lesser(Greater(snd \div 2 - a.unread, FRAME_LEN), StuffFrames * FRAME_LEN)
<1>1. a.msInSndCardBuf \in Nat /\ a.mult \in {1, 2} /\ a.unread \in Int
  BY ConstantTypes DEF AecMobile
<1>2. snd \in Int
  BY <1>1, ConstantTypes DEF nSampSndCard
<1> HIDE DEF snd
<1>3. StuffFrames * FRAME_LEN \in Int
  BY ConstantTypes
<1>4. -nSampAdd \in Int
  BY <1>1, <1>2, <1>3, ConstantTypes DEF Lesser, Greater
<1> HIDE DEF nSampAdd
<1>5. DelayComp(a) = IF snd - a.unread > FAR_BUF_LEN - FRAME_LEN * a.mult
                     THEN MoveReadPtr(a, -nSampAdd) ELSE a
  BY DEF DelayComp, snd, nSampAdd
<1>6. SameButUnread(a, MoveReadPtr(a, -nSampAdd))
  BY <1>4, SeekKeeps
<1> QED
  BY <1>5, <1>6 DEF SameButUnread

\* The startup branch touches neither the delay tracker nor the last frames.
\* When it ends, a whole number of frames is unread: as many as were decided
\* on, none if that number is negative.
LEMMA StartupTypes ==
  ASSUME NEW a \in AecMobile, NEW nb \in Nat, NEW s, s = Startup(a, nb)
  PROVE  /\ s \in AecMobile
         /\ s.initFlag = a.initFlag /\ s.mult = a.mult
         /\ s.timeForDelayChange = a.timeForDelayChange
         /\ s.knownDelay = a.knownDelay /\ s.lastDelayDiff = a.lastDelayDiff
         /\ s.farendOld = a.farendOld
         /\ s.ECstartup => s.unread = a.unread \/ ~a.ECstartup
         /\ s.checkBuffSize =>
              /\ a.checkBuffSize
              /\ s.checkBufSizeCtr = Short(a.checkBufSizeCtr + 1)
              /\ ~SizeAtLeast(Short(a.checkBufSizeCtr + 1), nb, MaxCheckBlocks + 1)
         /\ a.ECstartup /\ ~s.ECstartup /\ a.unread % FRAME_LEN = 0 =>
              s.unread = Greater(s.bufSizeStart, 0) * FRAME_LEN
<1> DEFINE b == IF a.checkBuffSize THEN CheckBufSize(a, nb) ELSE a
           filled == nmbrOfFilledBuffers(a)
           c == IF filled = b.bufSizeStart THEN b
                ELSE MoveReadPtr(b, b.unread - b.bufSizeStart * FRAME_LEN)
<1>1. /\ b \in AecMobile
      /\ b.initFlag = a.initFlag /\ b.mult = a.mult /\ b.unread = a.unread
      /\ b.ECstartup = a.ECstartup
      /\ b.timeForDelayChange = a.timeForDelayChange
      /\ b.knownDelay = a.knownDelay /\ b.lastDelayDiff = a.lastDelayDiff
      /\ b.farendOld = a.farendOld
      /\ b.checkBuffSize =>
              /\ a.checkBuffSize
              /\ b.checkBufSizeCtr = Short(a.checkBufSizeCtr + 1)
              /\ ~SizeAtLeast(Short(a.checkBufSizeCtr + 1), nb, MaxCheckBlocks + 1)
  <2>1. PICK d : d = CheckBufSize(a, nb)
    OBVIOUS
  <2>2. CASE a.checkBuffSize
    <3>1. b = d
      BY <2>1, <2>2
    <3> HIDE DEF b
    <3>2. /\ d \in AecMobile
          /\ d.initFlag = a.initFlag /\ d.mult = a.mult /\ d.unread = a.unread
          /\ d.ECstartup = a.ECstartup
          /\ d.timeForDelayChange = a.timeForDelayChange
          /\ d.knownDelay = a.knownDelay /\ d.lastDelayDiff = a.lastDelayDiff
          /\ d.farendOld = a.farendOld
      BY <2>1, CheckTypes
    <3>3. /\ d.checkBufSizeCtr = Short(a.checkBufSizeCtr + 1)
          /\ d.checkBuffSize =>
               ~SizeAtLeast(Short(a.checkBufSizeCtr + 1), nb, MaxCheckBlocks + 1)
      BY <2>1, CheckTypes
    <3> QED
      BY <2>2, <3>1, <3>2, <3>3
  <2>3. CASE ~a.checkBuffSize
    BY <2>3
  <2> QED
    BY <2>2, <2>3
<1>2. s = IF b.checkBuffSize \/ filled < b.bufSizeStart THEN b
          ELSE [c EXCEPT !.ECstartup = FALSE]
  BY DEF Startup
<1>3. b.unread \in 0..kBufSizeSamp /\ b.bufSizeStart \in Int /\ b.bufSizeStart * FRAME_LEN \in Int
  BY <1>1, ConstantTypes DEF AecMobile
<1>4. filled = b.unread \div FRAME_LEN /\ filled \in Nat
  BY <1>1, <1>3, ConstantTypes DEF nmbrOfFilledBuffers
<1> HIDE DEF b, filled
<1>5. PICK k \in Int : k = b.unread - b.bufSizeStart * FRAME_LEN
  BY <1>3, ConstantTypes
<1>6. SameButUnread(b, MoveReadPtr(b, k))
  BY <1>1, SeekKeeps
<1>7. c = IF filled = b.bufSizeStart THEN b ELSE MoveReadPtr(b, k)
  BY <1>5
<1> HIDE DEF c
<1>8. /\ c \in AecMobile
      /\ c.initFlag = b.initFlag /\ c.mult = b.mult
      /\ c.timeForDelayChange = b.timeForDelayChange
      /\ c.knownDelay = b.knownDelay /\ c.lastDelayDiff = b.lastDelayDiff
      /\ c.farendOld = b.farendOld /\ c.checkBuffSize = b.checkBuffSize
      /\ c.checkBufSizeCtr = b.checkBufSizeCtr /\ c.bufSizeStart = b.bufSizeStart
  BY <1>1, <1>6, <1>7 DEF SameButUnread
<1>9. PICK d : d = [c EXCEPT !.ECstartup = FALSE]
  OBVIOUS
<1>10. d \in AecMobile
  BY <1>8, <1>9 DEF AecMobile
<1>11. /\ d.initFlag = c.initFlag /\ d.mult = c.mult /\ d.unread = c.unread
       /\ d.timeForDelayChange = c.timeForDelayChange
       /\ d.knownDelay = c.knownDelay /\ d.lastDelayDiff = c.lastDelayDiff
       /\ d.farendOld = c.farendOld /\ d.checkBuffSize = c.checkBuffSize
       /\ d.checkBufSizeCtr = c.checkBufSizeCtr /\ d.bufSizeStart = c.bufSizeStart
       /\ d.ECstartup = FALSE
  BY <1>8, <1>9 DEF AecMobile
<1>12. ASSUME a.unread % FRAME_LEN = 0, filled >= b.bufSizeStart
       PROVE  c.unread = Greater(b.bufSizeStart, 0) * FRAME_LEN
  <2>1. PICK q \in Nat, u \in Nat, z \in Int, F \in Nat \ {0}, m \in Nat :
          q = filled /\ u = b.unread /\ z = b.bufSizeStart /\ F = FRAME_LEN /\ m = kBufSizeSamp
    BY <1>3, <1>4, ConstantTypes
  <2>2. u = q * F /\ u <= m /\ q >= z
    <3>1. u % F = 0 /\ q = u \div F
      BY <1>1, <1>4, <1>12, <2>1
    <3>2. u = F * (u \div F) + (u % F)
      BY <2>1
    <3>3. F * q = q * F /\ q * F \in Nat
      OBVIOUS
    <3>4. u = q * F
      BY <3>1, <3>2, <3>3
    <3>5. u <= m /\ q >= z
      BY <1>3, <1>12, <2>1, ConstantTypes
    <3> QED
      BY <3>4, <3>5
  <2>3. Greater(z, 0) \in Nat
    BY DEF Greater
  <2>4. CASE q = z
    <3>1. c.unread = u
      BY <1>7, <2>1, <2>4
    <3>2. Greater(z, 0) = q
      BY <2>4 DEF Greater
    <3> QED
      BY <2>1, <2>2, <3>1, <3>2
  <2>5. CASE q # z
    <3>1. c.unread = u - Greater(Lesser(k, u), u - m) /\ k = u - z * F
      BY <1>1, <1>5, <1>7, <2>1, <2>5 DEF MoveReadPtr, AecMobile
    <3>2. CASE z >= 0
      <4>1. z * F \in Nat /\ z * F <= u /\ Greater(z, 0) = z
        <5>1. (q - z) * F \in Nat /\ (q - z) * F = q * F - z * F /\ z * F \in Nat
          BY <2>1, <2>2, <3>2
        <5> QED
          BY <2>2, <3>2, <5>1 DEF Greater
      <4>2. u - Greater(Lesser(k, u), u - m) = z * F
        BY <2>1, <2>2, <3>1, <4>1 DEF Greater, Lesser
      <4> QED
        BY <2>1, <3>1, <4>1, <4>2
    <3>3. CASE z < 0
      <4>1. z * F < 0 /\ z * F \in Int /\ Greater(z, 0) = 0
        BY <2>1, <3>3 DEF Greater
      <4>2. u - Greater(Lesser(k, u), u - m) = 0
        BY <2>1, <2>2, <3>1, <4>1 DEF Greater, Lesser
      <4> QED
        BY <2>1, <3>1, <4>1, <4>2
    <3> QED
      BY <3>2, <3>3
  <2> QED
    BY <2>4, <2>5
<1>13. CASE b.checkBuffSize \/ filled < b.bufSizeStart
  <2>1. s = b
    BY <1>2, <1>13
  <2> QED
    BY <1>1, <2>1
<1>14. CASE ~(b.checkBuffSize \/ filled < b.bufSizeStart)
  <2>1. s = d /\ filled >= b.bufSizeStart
    BY <1>2, <1>3, <1>4, <1>9, <1>14
  <2> QED
    BY <1>1, <1>8, <1>10, <1>11, <1>12, <1>14, <2>1
<1> QED
  BY <1>13, <1>14

\* What a call of EstBufDelay does: it filters the delay, compares it with
\* knownDelay, counts, and moves knownDelay when it has counted long enough.
LEMMA EstTypes ==
  ASSUME NEW a \in AecMobile, NEW e, e = EstBufDelay(a)
  PROVE  /\ e \in AecMobile
         /\ e.initFlag = a.initFlag /\ e.mult = a.mult /\ e.ECstartup = a.ECstartup
         /\ e.checkBuffSize = a.checkBuffSize /\ e.checkBufSizeCtr = a.checkBufSizeCtr
         /\ e.farendOld = a.farendOld
         /\ e.msInSndCardBuf = a.msInSndCardBuf /\ e.unread <= a.unread
         /\ e.timeForDelayChange = TimeForDelayChange(a, e.lastDelayDiff)
         /\ e.knownDelay # a.knownDelay => e.timeForDelayChange > DelayChangeCalls
<1> DEFINE early == nSampSndCard(a) - a.unread < FRAME_LEN
           delay == nSampSndCard(a) - a.unread + (IF early THEN FRAME_LEN ELSE 0)
           filt  == Greater(0, CDiv(8 * a.filtDelay + 2 * delay, 10))
           diff  == filt - a.knownDelay
           time  == TimeForDelayChange(a, diff)
           known == IF time > DelayChangeCalls THEN Greater(filt - TargetDiff, 0)
                                               ELSE a.knownDelay
           r     == IF early THEN MoveReadPtr(a, FRAME_LEN) ELSE a
<1>1. /\ a.msInSndCardBuf \in Nat /\ a.mult \in {1, 2} /\ a.unread \in Int
      /\ a.filtDelay \in Nat /\ a.knownDelay \in Nat /\ a.timeForDelayChange \in Nat
      /\ a.lastDelayDiff \in Int
  BY ConstantTypes DEF AecMobile
<1>2. nSampSndCard(a) \in Int
  BY <1>1, ConstantTypes DEF nSampSndCard
<1>3. 8 * a.filtDelay + 2 * delay \in Int
  BY <1>1, <1>2, ConstantTypes
<1>4. r \in AecMobile /\ SameButUnread(a, r) /\ r.unread <= a.unread
  <2>1. FRAME_LEN \in Nat /\ FRAME_LEN \in Int
    BY ConstantTypes
  <2>2. SameButUnread(a, MoveReadPtr(a, FRAME_LEN))
    BY <2>1, SeekKeeps
  <2>3. MoveReadPtr(a, FRAME_LEN).unread <= a.unread
    BY <2>1, SeekAhead
  <2> QED
    BY <1>1, <2>2, <2>3 DEF SameButUnread
<1> HIDE DEF early, delay, r
<1>5. filt \in Nat
  <2>1. PICK x \in Int, y \in Int \ {0} : x = 8 * a.filtDelay + 2 * delay /\ y = 10
    BY <1>3
  <2>2. CDiv(x, y) \in Int
    BY CDivType
  <2> QED
    BY <2>1, <2>2 DEF Greater
<1> HIDE DEF filt
<1>6. diff \in Int
  BY <1>1, <1>5
<1> HIDE DEF diff
<1>7. time \in Nat
  BY <1>1, <1>6, ConstantTypes DEF TimeForDelayChange
<1> HIDE DEF time
<1>8. known \in Nat /\ (known # a.knownDelay => time > DelayChangeCalls)
  BY <1>1, <1>5, <1>7, ConstantTypes DEF Greater
<1> HIDE DEF known
<1>9. e = [r EXCEPT !.filtDelay = filt, !.lastDelayDiff = diff,
                    !.timeForDelayChange = time, !.knownDelay = known]
  BY DEF EstBufDelay, r, early, known, time, diff, filt, delay
<1>10. e \in AecMobile
  BY <1>4, <1>5, <1>6, <1>7, <1>8, <1>9 DEF AecMobile
<1>11. /\ e.initFlag = r.initFlag /\ e.mult = r.mult /\ e.ECstartup = r.ECstartup
       /\ e.checkBuffSize = r.checkBuffSize /\ e.checkBufSizeCtr = r.checkBufSizeCtr
       /\ e.farendOld = r.farendOld /\ e.lastDelayDiff = diff
       /\ e.msInSndCardBuf = r.msInSndCardBuf /\ e.unread = r.unread
       /\ e.timeForDelayChange = time /\ e.knownDelay = known
  BY <1>4, <1>9 DEF AecMobile
<1>12. time = TimeForDelayChange(a, diff)
  BY DEF time
<1> QED
  BY <1>4, <1>8, <1>10, <1>11, <1>12 DEF SameButUnread

\* One turn of the loop of Process: a frame is taken if there is one, and the
\* delay is estimated in the last turn of a 10 ms block.
Taken(a, i, t) ==
  /\ t \in AecMobile
  /\ t.initFlag = a.initFlag /\ t.mult = a.mult /\ t.ECstartup = a.ECstartup
  /\ t.msInSndCardBuf = a.msInSndCardBuf
  /\ a.unread >= FRAME_LEN =>
       /\ t.unread <= a.unread - FRAME_LEN
       /\ i # a.mult - 1 => t.unread = a.unread - FRAME_LEN
       /\ t.farendOld[i] = "far"
  /\ t.checkBuffSize = a.checkBuffSize /\ t.checkBufSizeCtr = a.checkBufSizeCtr
  /\ t.farendOld[i] \in {"far", a.farendOld[i]}
  /\ \A j \in 0..1 : j # i => t.farendOld[j] = a.farendOld[j]
  /\ i # a.mult - 1 =>
       /\ t.timeForDelayChange = a.timeForDelayChange
       /\ t.knownDelay = a.knownDelay /\ t.lastDelayDiff = a.lastDelayDiff
  /\ i = a.mult - 1 =>
       /\ t.timeForDelayChange = TimeForDelayChange(a, t.lastDelayDiff)
       /\ t.knownDelay # a.knownDelay => t.timeForDelayChange > DelayChangeCalls

LEMMA TakeFrameTypes ==
  ASSUME NEW a \in AecMobile, NEW i \in 0..1
  PROVE  Taken(a, i, TakeFrame(a, i))
<1>0. PICK t : t = TakeFrame(a, i)
  OBVIOUS
<1>1. PICK F \in Int : F = FRAME_LEN
  BY ConstantTypes
<1>2. PICK m : m = MoveReadPtr(a, F)
  OBVIOUS
<1>3. SameButUnread(a, m)
  BY <1>2, SeekKeeps
<1>4. PICK p : p = [m EXCEPT !.farendOld[i] = "far"]
  OBVIOUS
<1>5. m.farendOld \in [0..1 -> Frames] /\ m \in AecMobile
  BY <1>3 DEF SameButUnread, AecMobile
<1>6. PICK o : o = [m.farendOld EXCEPT ![i] = "far"]
  OBVIOUS
<1>7. /\ o \in [0..1 -> Frames] /\ o[i] = "far"
      /\ \A j \in 0..1 : j # i => o[j] = m.farendOld[j]
  BY <1>5, <1>6 DEF Frames
<1>8. p = [m EXCEPT !.farendOld = o]
  BY <1>4, <1>5, <1>6 DEF AecMobile
<1>9. p \in AecMobile
  BY <1>5, <1>7, <1>8 DEF AecMobile
<1>10. /\ p.initFlag = m.initFlag /\ p.mult = m.mult /\ p.ECstartup = m.ECstartup
       /\ p.checkBuffSize = m.checkBuffSize /\ p.checkBufSizeCtr = m.checkBufSizeCtr
       /\ p.timeForDelayChange = m.timeForDelayChange
       /\ p.knownDelay = m.knownDelay /\ p.lastDelayDiff = m.lastDelayDiff
       /\ p.farendOld = o /\ p.msInSndCardBuf = m.msInSndCardBuf /\ p.unread = m.unread
  BY <1>5, <1>8 DEF AecMobile
<1>11. PICK b : b = IF nmbrOfFilledBuffers(a) > 0 THEN p ELSE a
  OBVIOUS
<1>12. /\ b \in AecMobile
       /\ b.initFlag = a.initFlag /\ b.mult = a.mult /\ b.ECstartup = a.ECstartup
       /\ b.checkBuffSize = a.checkBuffSize /\ b.checkBufSizeCtr = a.checkBufSizeCtr
       /\ b.timeForDelayChange = a.timeForDelayChange
       /\ b.knownDelay = a.knownDelay /\ b.lastDelayDiff = a.lastDelayDiff
       /\ b.farendOld[i] \in {"far", a.farendOld[i]}
       /\ \A j \in 0..1 : j # i => b.farendOld[j] = a.farendOld[j]
       /\ b.msInSndCardBuf = a.msInSndCardBuf
  <2>1. CASE b = p
    BY <1>3, <1>7, <1>9, <1>10, <2>1 DEF SameButUnread
  <2>2. CASE b = a
    BY <2>2
  <2> QED
    BY <1>11, <2>1, <2>2
<1>121. a.unread >= FRAME_LEN => b.unread = a.unread - FRAME_LEN /\ b.farendOld[i] = "far"
  <2> SUFFICES ASSUME a.unread >= FRAME_LEN
               PROVE  b.unread = a.unread - FRAME_LEN /\ b.farendOld[i] = "far"
    OBVIOUS
  <2>1. PICK u \in Nat, G \in Nat \ {0} : u = a.unread /\ G = FRAME_LEN
    BY ConstantTypes DEF AecMobile
  <2>2. u >= G /\ u \div G > 0
    BY <2>1
  <2>3. nmbrOfFilledBuffers(a) > 0
    BY <2>1, <2>2 DEF nmbrOfFilledBuffers
  <2>4. b = p
    BY <1>11, <2>3
  <2>5. m.unread = a.unread - FRAME_LEN
    BY <1>1, <1>2, <2>1, <2>2, SeekAhead
  <2> QED
    BY <1>7, <1>10, <2>4, <2>5
<1>13. t = IF i = a.mult - 1 THEN EstBufDelay(b) ELSE b
  <2>1. t = IF i = a.mult - 1 THEN EstBufDelay(IF nmbrOfFilledBuffers(a) > 0 THEN p ELSE a)
            ELSE IF nmbrOfFilledBuffers(a) > 0 THEN p ELSE a
    BY <1>0, <1>1, <1>2, <1>4 DEF TakeFrame
  <2> QED
    BY <2>1, <1>11
<1>14. PICK e : e = EstBufDelay(b)
  OBVIOUS
<1>15. /\ e \in AecMobile
       /\ e.initFlag = b.initFlag /\ e.mult = b.mult /\ e.ECstartup = b.ECstartup
       /\ e.checkBuffSize = b.checkBuffSize /\ e.checkBufSizeCtr = b.checkBufSizeCtr
       /\ e.farendOld = b.farendOld
       /\ e.msInSndCardBuf = b.msInSndCardBuf /\ e.unread <= b.unread
       /\ e.timeForDelayChange = TimeForDelayChange(b, e.lastDelayDiff)
       /\ e.knownDelay # b.knownDelay => e.timeForDelayChange > DelayChangeCalls
  BY <1>12, <1>14, EstTypes
<1>16. TimeForDelayChange(b, e.lastDelayDiff) = TimeForDelayChange(a, e.lastDelayDiff)
  BY <1>12 DEF TimeForDelayChange
<1>17. ASSUME i = a.mult - 1 PROVE Taken(a, i, t)
  <2>1. t = e
    BY <1>13, <1>14, <1>17
  <2> QED
    BY <1>12, <1>121, <1>15, <1>16, <1>17, <2>1 DEF Taken
<1>18. ASSUME i # a.mult - 1 PROVE Taken(a, i, t)
  <2>1. t = b
    BY <1>13, <1>18
  <2>2. a.unread - FRAME_LEN <= a.unread - FRAME_LEN
    BY ConstantTypes DEF AecMobile
  <2> QED
    BY <1>12, <1>121, <1>18, <2>1, <2>2 DEF Taken
<1> QED
  BY <1>0, <1>17, <1>18

\* What Init leaves: a record whose size check and delay tracker start anew.
LEMMA InitializeTypes ==
  ASSUME NEW a \in AecMobile, NEW f, NEW b, b = Initialize(a, f)
  PROVE  /\ b \in AecMobile
         /\ b.initFlag /\ b.mult = Mult(f) /\ b.unread = 0
         /\ b.ECstartup /\ b.checkBuffSize /\ b.checkBufSizeCtr = 0
         /\ b.timeForDelayChange = 0 /\ b.farendOld[0] = "silence"
<1> DEFINE o == [i \in 0..1 |->
        CASE i = 0 -> "silence"
          [] i = 1 -> IF a.farendOld[1] = "far" THEN "stale" ELSE a.farendOld[1]]
<1>1. o \in [0..1 -> Frames] /\ o[0] = "silence"
  <2>1. a.farendOld[1] \in Frames
    BY DEF AecMobile
  <2>2. o[0] = "silence"
    OBVIOUS
  <2>3. o[1] = IF a.farendOld[1] = "far" THEN "stale" ELSE a.farendOld[1]
    OBVIOUS
  <2>4. \A i \in 0..1 : i = 0 \/ i = 1
    OBVIOUS
  <2>5. o = [i \in 0..1 |-> o[i]]
    OBVIOUS
  <2> HIDE DEF o
  <2>6. \A i \in 0..1 : o[i] \in Frames
    BY <2>1, <2>2, <2>3, <2>4 DEF Frames
  <2> QED
    BY <2>2, <2>5, <2>6
<1> HIDE DEF o
<1>2. a.msInSndCardBuf \in Nat /\ Mult(f) \in {1, 2} /\ 0 \in 0..kBufSizeSamp
  BY ConstantTypes DEF AecMobile, Mult
<1>3. b = [initFlag |-> TRUE, mult |-> Mult(f), unread |-> 0, ECstartup |-> TRUE,
           checkBuffSize |-> TRUE, checkBufSizeCtr |-> 0, counter |-> 0, sum |-> 0,
           firstVal |-> 0, bufSizeStart |-> 0, msInSndCardBuf |-> a.msInSndCardBuf,
           filtDelay |-> 0, timeForDelayChange |-> 0, knownDelay |-> 0,
           lastDelayDiff |-> 0, farendOld |-> o]
  BY DEF Initialize, Created, o
<1>4. b \in AecMobile
  BY <1>1, <1>2, <1>3 DEF AecMobile
<1> QED
  BY <1>1, <1>3, <1>4

LEMMA CreatedTypes == Created \in AecMobile
<1>1. [i \in 0..1 |-> "garbage"] \in [0..1 -> Frames]
  BY DEF Frames
<1>2. 0 \in 0..kBufSizeSamp
  BY ConstantTypes
<1> QED
  BY <1>1, <1>2 DEF Created, AecMobile

-----------------------------------------------------------------------------
\* The inductive invariant.

\* The types of all variables.
Typed ==
  /\ aecm \in AecMobile
  /\ lost \in Nat /\ waited \in Nat
  /\ streak \in [side : {-1, 0, 1}, calls : 0..DelayChangeCalls + 1]

\* Until startup ends, whole frames are unread: render delivers whole frames,
\* the far-end buffer holds a whole number of them, and nothing is stuffed.
WholeFrames == aecm.ECstartup => aecm.unread % FRAME_LEN = 0

\* The counter of the delay tracker never runs ahead of the calls that found
\* knownDelay off on one side, and the last difference tells which side.
CounterInStep ==
  /\ streak.side = 1 => aecm.lastDelayDiff > HighDiff
  /\ streak.side = -1 => aecm.lastDelayDiff < LowDiff
  /\ streak.side = 0 => aecm.timeForDelayChange = 0
  /\ aecm.timeForDelayChange <= streak.calls \/ streak.calls = DelayChangeCalls + 1

\* Init clears the first of the two last frames, and only far-end data follows.
FirstFrameClean ==
  /\ aecm.initFlag => aecm.farendOld[0] \in {"far", "silence"}
  /\ fed # << >> => fed[1] \in {"far", "silence"}

IndInv == Typed /\ WholeFrames /\ CounterInStep /\ FirstFrameClean

\* Numbers of whole frames: sums, differences and the smaller of two.
LEMMA WholeMultiple ==
  \A u \in Nat : u % FRAME_LEN = 0 <=> \E q \in Nat : u = q * FRAME_LEN
<1> SUFFICES ASSUME NEW u \in Nat
             PROVE  u % FRAME_LEN = 0 <=> \E q \in Nat : u = q * FRAME_LEN
  OBVIOUS
<1>0. PICK F \in Nat \ {0} : F = FRAME_LEN
  BY ConstantTypes
<1>1. ASSUME u % F = 0 PROVE \E q \in Nat : u = q * F
  <2>1. u = F * (u \div F) + (u % F) /\ u \div F \in Nat
    OBVIOUS
  <2>2. PICK q \in Nat : q = u \div F
    BY <2>1
  <2>3. F * q = q * F /\ q * F \in Nat
    OBVIOUS
  <2>4. u = q * F
    BY <1>1, <2>1, <2>2, <2>3
  <2> QED
    BY <2>4
<1>2. ASSUME NEW q \in Nat, u = q * F PROVE u % F = 0
  BY <1>2
<1> QED
  BY <1>0, <1>1, <1>2

LEMMA WholeWrite ==
  ASSUME NEW a \in AecMobile, NEW n \in {FRAME_LEN, 2 * FRAME_LEN},
         a.unread % FRAME_LEN = 0
  PROVE  Write(a, n).unread % FRAME_LEN = 0
<1>1. PICK u \in Nat, m \in Nat, F \in Nat \ {0}, k \in 1..2, B \in Nat :
        /\ u = a.unread /\ m = kBufSizeSamp /\ F = FRAME_LEN /\ n = k * F
        /\ B = BUF_SIZE_FRAMES
  <2>1. a.unread \in Nat /\ kBufSizeSamp \in Nat /\ FRAME_LEN \in Nat \ {0} /\ BUF_SIZE_FRAMES \in Nat
    BY ConstantTypes DEF AecMobile
  <2>2. \E k \in 1..2 : n = k * FRAME_LEN
    BY ConstantTypes
  <2> QED
    BY <2>1, <2>2
<1>2. PICK q \in Nat : u = q * F
  BY <1>1, WholeMultiple
<1>3. m = B * F
  BY <1>1 DEF kBufSizeSamp
<1>4. u <= m
  BY <1>1, ConstantTypes DEF AecMobile
<1>5. q * F + k * F = (q + k) * F /\ q * F \in Nat /\ B * F \in Nat /\ k * F \in Nat
  OBVIOUS
<1>6. Write(a, n).unread = u + Lesser(m - u, n)
  BY <1>1 DEF Write, Stored, AecMobile
<1>7. \/ Write(a, n).unread = (q + k) * F
      \/ Write(a, n).unread = B * F
  BY <1>1, <1>2, <1>3, <1>4, <1>5, <1>6 DEF Lesser
<1>8. \E j \in Nat : Write(a, n).unread = j * F
  <2>1. PICK j \in Nat : j = q + k
    OBVIOUS
  <2> QED
    BY <1>7, <2>1
<1>9. Write(a, n).unread \in Nat
  BY <1>2, <1>5, <1>7
<1> QED
  BY <1>1, <1>8, <1>9, WholeMultiple

LEMMA InitEstablishes == Init => IndInv
<1> SUFFICES ASSUME Init PROVE IndInv
  OBVIOUS
<1>1. aecm = Created /\ aecm \in AecMobile
  BY CreatedTypes DEF Init
<1>2. 0 % FRAME_LEN = 0
  BY ConstantTypes
<1>3. Typed
  BY <1>1, ConstantTypes DEF Init, Typed
<1>4. WholeFrames
  BY <1>1, <1>2 DEF WholeFrames, Created
<1>5. CounterInStep
  BY <1>1 DEF Init, CounterInStep, Created
<1>6. FirstFrameClean
  BY <1>1 DEF Init, FirstFrameClean, Created
<1> QED
  BY <1>3, <1>4, <1>5, <1>6 DEF IndInv

\* A call that stops early changes nothing that matters.
LEMMA RefusedKeeps ==
  ASSUME IndInv, NEW error, Refused(error)
  PROVE  IndInv'
BY DEF Refused, IndInv, Typed, WholeFrames, CounterInStep, FirstFrameClean

LEMMA InitInstanceKeeps ==
  ASSUME IndInv, NEW f \in SampFreqs, InitInstance(f)
  PROVE  IndInv'
<1>1. CASE f \notin {8000, 16000}
  BY <1>1, RefusedKeeps DEF InitInstance
<1>2. CASE f \in {8000, 16000}
  <2>1. /\ aecm' = Initialize(aecm, f) /\ fed' = << >> /\ lost' = 0
        /\ waited' = 0 /\ streak' = [side |-> 0, calls |-> 0]
    BY <1>2 DEF InitInstance
  <2>2. aecm \in AecMobile
    BY DEF IndInv, Typed
  <2>3. /\ aecm' \in AecMobile /\ aecm'.unread = 0 /\ aecm'.timeForDelayChange = 0
        /\ aecm'.farendOld[0] = "silence"
    BY <2>1, <2>2, InitializeTypes
  <2>4. 0 % FRAME_LEN = 0
    BY ConstantTypes
  <2>5. Typed'
    BY <2>1, <2>3, ConstantTypes DEF Typed
  <2> QED
    BY <2>1, <2>3, <2>4, <2>5 DEF IndInv, WholeFrames, CounterInStep, FirstFrameClean
<1> QED
  BY <1>1, <1>2

\* The block sizes that pass the checks.
LEMMA Accepted ==
  ASSUME NEW n, Error(n) = "OK", aecm \in AecMobile
  PROVE  n \in {FRAME_LEN, 2 * FRAME_LEN} /\ n \in Nat /\ aecm.initFlag
<1>1. aecm.initFlag \in BOOLEAN
  BY DEF AecMobile
<1>2. n \in {FRAME_LEN, 2 * FRAME_LEN} /\ aecm.initFlag
  BY <1>1 DEF Error
<1> QED
  BY <1>2, ConstantTypes

LEMMA BufferFarendKeeps ==
  ASSUME IndInv, NEW n, BufferFarend(n)
  PROVE  IndInv'
<1>1. PICK a : a = IF aecm.ECstartup THEN aecm ELSE DelayComp(aecm)
  OBVIOUS
<1>2. aecm' = Write(a, n) /\ lost' = n - Stored(a, n) /\ fed' = << >> /\ UNCHANGED <<waited, streak>>
  BY <1>1 DEF BufferFarend
<1>3. n \in {FRAME_LEN, 2 * FRAME_LEN} /\ n \in Nat /\ aecm \in AecMobile
  BY Accepted DEF BufferFarend, IndInv, Typed
<1>4. SameButUnread(aecm, a)
  <2>1. SameButUnread(aecm, DelayComp(aecm))
    BY <1>3, DelayCompKeeps
  <2> QED
    BY <1>1, <1>3, <2>1 DEF SameButUnread
<1>5. a \in AecMobile
  BY <1>4 DEF SameButUnread
<1>6. SameButUnread(a, aecm')
  BY <1>2, <1>3, <1>5, WriteKeeps
<1>7. lost' \in Nat
  BY <1>2, <1>3, <1>5, WriteStores
<1>8. Typed'
  BY <1>2, <1>6, <1>7 DEF IndInv, Typed, SameButUnread
<1>9. WholeFrames'
  <2>1. ASSUME aecm'.ECstartup PROVE aecm'.unread % FRAME_LEN = 0
    <3>1. aecm.ECstartup
      BY <2>1, <1>4, <1>6 DEF SameButUnread
    <3>2. a.unread % FRAME_LEN = 0
      BY <1>1, <3>1 DEF IndInv, WholeFrames
    <3> QED
      BY <1>2, <1>3, <1>5, <3>2, WholeWrite
  <2> QED
    BY <2>1 DEF WholeFrames
<1>10. CounterInStep'
  BY <1>2, <1>4, <1>6 DEF IndInv, CounterInStep, SameButUnread
<1>11. FirstFrameClean'
  BY <1>2, <1>4, <1>6 DEF IndInv, FirstFrameClean, SameButUnread
<1> QED
  BY <1>8, <1>9, <1>10, <1>11 DEF IndInv

LEMMA ProcessStartupKeeps ==
  ASSUME IndInv, NEW n, NEW ms \in MsValues, ProcessStartup(n, ms)
  PROVE  IndInv'
<1>1. n \in {FRAME_LEN, 2 * FRAME_LEN} /\ n \in Nat /\ aecm \in AecMobile /\ ms \in Int
  BY Accepted, EchoControlMobileAssumption DEF ProcessStartup, IndInv, Typed
<1>2. PICK a : a = SetMs(aecm, ms)
  OBVIOUS
<1>3. /\ a \in AecMobile /\ a.mult = aecm.mult /\ a.unread = aecm.unread
      /\ a.initFlag = aecm.initFlag /\ a.ECstartup = aecm.ECstartup
      /\ a.timeForDelayChange = aecm.timeForDelayChange
      /\ a.lastDelayDiff = aecm.lastDelayDiff /\ a.farendOld = aecm.farendOld
  <2>1. SameButMs(aecm, a)
    BY <1>1, <1>2, SetMsKeeps
  <2> QED
    BY <2>1 DEF SameButMs
<1>4. (n \div FRAME_LEN) \div aecm.mult \in Nat
  BY <1>1, ConstantTypes DEF AecMobile
<1>5. PICK nb \in Nat : nb = (n \div FRAME_LEN) \div aecm.mult
  BY <1>4
<1>6. aecm' = Startup(a, nb) /\ aecm.ECstartup /\ fed' = << >> /\ lost' = 0 /\ UNCHANGED streak
  BY <1>2, <1>5 DEF ProcessStartup
<1>7. /\ aecm' \in AecMobile
      /\ aecm'.initFlag = a.initFlag
      /\ aecm'.timeForDelayChange = a.timeForDelayChange
      /\ aecm'.lastDelayDiff = a.lastDelayDiff
      /\ aecm'.farendOld = a.farendOld
      /\ aecm'.ECstartup => aecm'.unread = a.unread \/ ~a.ECstartup
  BY <1>3, <1>6, StartupTypes
<1>8. waited' \in Nat
  <2>1. waited \in Nat /\ WaitLimit(aecm) \in Nat
    BY <1>1, ConstantTypes DEF IndInv, Typed, WaitLimit, AecMobile
  <2> QED
    BY <1>1, <2>1 DEF ProcessStartup, Lesser
<1>9. Typed'
  BY <1>6, <1>7, <1>8 DEF IndInv, Typed
<1>10. WholeFrames'
  BY <1>3, <1>6, <1>7 DEF IndInv, WholeFrames
<1>11. CounterInStep'
  BY <1>3, <1>6, <1>7 DEF IndInv, CounterInStep
<1>12. FirstFrameClean'
  BY <1>3, <1>6, <1>7 DEF IndInv, FirstFrameClean
<1> QED
  BY <1>9, <1>10, <1>11, <1>12 DEF IndInv

\* What ProcessRunning does, whatever the core accepts: the record after the
\* first and after the last turn, and that the delay is estimated at most once.
LEMMA RunningShape ==
  ASSUME aecm \in AecMobile, NEW n, NEW ms \in MsValues,
         NEW accepted \in 0..2, ProcessRunning(n, ms, accepted)
  PROVE  /\ aecm' \in AecMobile
         /\ aecm'.initFlag /\ aecm.initFlag /\ aecm'.mult = aecm.mult
         /\ ~aecm.ECstartup /\ ~aecm'.ECstartup
         /\ aecm'.checkBuffSize = aecm.checkBuffSize
         /\ aecm'.checkBufSizeCtr = aecm.checkBufSizeCtr
         /\ aecm'.farendOld[0] \in {"far", aecm.farendOld[0]}
         /\ fed'[1] = aecm'.farendOld[0]
         /\ n # 2 * FRAME_LEN => Len(fed') = 1
         /\ lost' = 0 /\ UNCHANGED <<inits, waited>>
         /\ \/ /\ aecm'.timeForDelayChange = aecm.timeForDelayChange
               /\ aecm'.knownDelay = aecm.knownDelay
               /\ aecm'.lastDelayDiff = aecm.lastDelayDiff
               /\ streak' = streak
            \/ /\ aecm'.timeForDelayChange = TimeForDelayChange(aecm, aecm'.lastDelayDiff)
               /\ aecm'.knownDelay # aecm.knownDelay => aecm'.timeForDelayChange > DelayChangeCalls
               /\ streak' = NextStreak(aecm, aecm')
<1> DEFINE two == n \div FRAME_LEN = 2 /\ accepted > 0
<1>1. /\ n \in {FRAME_LEN, 2 * FRAME_LEN} /\ n \in Nat /\ ms \in Int /\ aecm.initFlag
      /\ ~aecm.ECstartup
  BY Accepted, EchoControlMobileAssumption DEF ProcessRunning
<1>2. PICK a0, a1, a2 :
        /\ a0 = SetMs(aecm, ms) /\ a1 = TakeFrame(a0, 0)
        /\ a2 = IF two THEN TakeFrame(a1, 1) ELSE a1
        /\ aecm' = a2
        /\ fed' = IF two THEN <<a1.farendOld[0], a2.farendOld[1]>> ELSE <<a1.farendOld[0]>>
        /\ streak' = IF a2.mult = 1 \/ two THEN NextStreak(aecm, a2) ELSE streak
  <2>1. \E a0 \in {SetMs(aecm, ms)} :
        \E a1 \in {TakeFrame(a0, 0)} :
        \E a2 \in {IF two THEN TakeFrame(a1, 1) ELSE a1} :
          /\ aecm' = a2
          /\ fed' = IF two THEN <<a1.farendOld[0], a2.farendOld[1]>> ELSE <<a1.farendOld[0]>>
          /\ streak' = IF a2.mult = 1 \/ two THEN NextStreak(aecm, a2) ELSE streak
    BY DEF ProcessRunning
  <2> HIDE DEF two
  <2> QED
    BY <2>1
<1>3. lost' = 0 /\ UNCHANGED <<inits, waited>>
  BY DEF ProcessRunning
<1>4. two \in BOOLEAN /\ (n # 2 * FRAME_LEN => ~two)
  <2>1. FRAME_LEN \div FRAME_LEN = 1
    BY ConstantTypes
  <2> QED
    BY <1>1, <2>1
<1> HIDE DEF two
<1>5. /\ a0 \in AecMobile
      /\ a0.initFlag = aecm.initFlag /\ a0.mult = aecm.mult
      /\ a0.ECstartup = aecm.ECstartup /\ a0.checkBuffSize = aecm.checkBuffSize
      /\ a0.checkBufSizeCtr = aecm.checkBufSizeCtr
      /\ a0.timeForDelayChange = aecm.timeForDelayChange
      /\ a0.knownDelay = aecm.knownDelay /\ a0.lastDelayDiff = aecm.lastDelayDiff
      /\ a0.farendOld = aecm.farendOld
  <2>1. SameButMs(aecm, a0)
    BY <1>1, <1>2, SetMsKeeps
  <2> QED
    BY <2>1 DEF SameButMs
<1>6. PICK x \in 0..1, y \in 0..1 : x = 0 /\ y = 1
  OBVIOUS
<1>7. Taken(a0, x, a1)
  <2>1. a1 = TakeFrame(a0, x)
    BY <1>2, <1>6
  <2>2. Taken(a0, x, TakeFrame(a0, x))
    BY <1>5, TakeFrameTypes
  <2> QED
    BY <2>1, <2>2
<1>8. /\ a1 \in AecMobile
      /\ a1.initFlag = a0.initFlag /\ a1.mult = a0.mult /\ a1.ECstartup = a0.ECstartup
      /\ a1.checkBuffSize = a0.checkBuffSize /\ a1.checkBufSizeCtr = a0.checkBufSizeCtr
      /\ a1.farendOld[0] \in {"far", a0.farendOld[0]}
      /\ a0.mult = 2 =>
           /\ a1.timeForDelayChange = a0.timeForDelayChange
           /\ a1.knownDelay = a0.knownDelay /\ a1.lastDelayDiff = a0.lastDelayDiff
      /\ a0.mult = 1 =>
           /\ a1.timeForDelayChange = TimeForDelayChange(a0, a1.lastDelayDiff)
           /\ a1.knownDelay # a0.knownDelay => a1.timeForDelayChange > DelayChangeCalls
  BY <1>6, <1>7 DEF Taken
<1>9. PICK b : b = TakeFrame(a1, y)
  OBVIOUS
<1>10. /\ b \in AecMobile
       /\ b.initFlag = a1.initFlag /\ b.mult = a1.mult /\ b.ECstartup = a1.ECstartup
       /\ b.checkBuffSize = a1.checkBuffSize /\ b.checkBufSizeCtr = a1.checkBufSizeCtr
       /\ b.farendOld[0] = a1.farendOld[0]
       /\ a1.mult = 1 =>
            /\ b.timeForDelayChange = a1.timeForDelayChange
            /\ b.knownDelay = a1.knownDelay /\ b.lastDelayDiff = a1.lastDelayDiff
       /\ a1.mult = 2 =>
            /\ b.timeForDelayChange = TimeForDelayChange(a1, b.lastDelayDiff)
            /\ b.knownDelay # a1.knownDelay => b.timeForDelayChange > DelayChangeCalls
  <2>1. Taken(a1, y, b)
    BY <1>8, <1>9, TakeFrameTypes
  <2> QED
    BY <1>6, <2>1 DEF Taken
<1>11. aecm.mult \in {1, 2}
  BY DEF AecMobile
<1>12. \A d \in Int : /\ TimeForDelayChange(a0, d) = TimeForDelayChange(aecm, d)
                      /\ a0.mult = 2 => TimeForDelayChange(a1, d) = TimeForDelayChange(aecm, d)
  BY <1>5, <1>6, <1>8, <1>11 DEF TimeForDelayChange
<1>13. a1.lastDelayDiff \in Int /\ b.lastDelayDiff \in Int
  BY <1>8, <1>10 DEF AecMobile
<1>14. CASE two
  <2>1. a2 = b /\ aecm' = b /\ fed' = <<a1.farendOld[0], b.farendOld[1]>> /\ streak' = NextStreak(aecm, b)
    BY <1>2, <1>6, <1>9, <1>14
  <2>2. CASE aecm.mult = 1
    <3>1. /\ b.timeForDelayChange = TimeForDelayChange(aecm, b.lastDelayDiff)
          /\ b.knownDelay # aecm.knownDelay => b.timeForDelayChange > DelayChangeCalls
      BY <2>2, <1>5, <1>6, <1>8, <1>10, <1>12, <1>13
    <3> QED
      BY <1>1, <1>3, <1>4, <1>5, <1>6, <1>8, <1>10, <1>14, <2>1, <3>1
  <2>3. CASE aecm.mult = 2
    <3>1. /\ b.timeForDelayChange = TimeForDelayChange(aecm, b.lastDelayDiff)
          /\ b.knownDelay # aecm.knownDelay => b.timeForDelayChange > DelayChangeCalls
      BY <2>3, <1>5, <1>6, <1>8, <1>10, <1>12, <1>13
    <3> QED
      BY <1>1, <1>3, <1>4, <1>5, <1>6, <1>8, <1>10, <1>14, <2>1, <3>1
  <2> QED
    BY <1>11, <2>2, <2>3
<1>15. CASE ~two
  <2>1. aecm' = a1 /\ fed' = <<a1.farendOld[0]>> /\ streak' = IF a1.mult = 1 THEN NextStreak(aecm, a1) ELSE streak
    BY <1>2, <1>15
  <2>2. Len(fed') = 1 /\ fed'[1] = a1.farendOld[0]
    BY <2>1
  <2>3. CASE aecm.mult = 1
    <3>1. /\ a1.timeForDelayChange = TimeForDelayChange(aecm, a1.lastDelayDiff)
          /\ a1.knownDelay # aecm.knownDelay => a1.timeForDelayChange > DelayChangeCalls
      BY <2>3, <1>5, <1>6, <1>8, <1>12, <1>13
    <3>2. streak' = NextStreak(aecm, aecm')
      BY <1>5, <1>8, <2>1, <2>3
    <3> QED
      BY <1>1, <1>3, <1>5, <1>6, <1>8, <2>1, <2>2, <3>1, <3>2
  <2>4. CASE aecm.mult = 2
    <3>1. streak' = streak
      BY <1>5, <1>8, <2>1, <2>4
    <3>2. /\ aecm'.timeForDelayChange = aecm.timeForDelayChange
          /\ aecm'.knownDelay = aecm.knownDelay
          /\ aecm'.lastDelayDiff = aecm.lastDelayDiff
      BY <1>5, <1>8, <2>1, <2>4
    <3> QED
      BY <1>1, <1>3, <1>5, <1>8, <2>1, <2>2, <3>1, <3>2
  <2> QED
    BY <1>11, <2>3, <2>4
<1> QED
  BY <1>4, <1>14, <1>15

\* The history of the debouncing: after an estimate on one side of the band the
\* counter has grown by at most one, exactly when the streak went on, and it is
\* reset when the side changes or the estimate is inside the band.
LEMMA StreakStep ==
  ASSUME NEW a \in AecMobile, NEW b \in AecMobile,
         streak \in [side : {-1, 0, 1}, calls : 0..DelayChangeCalls + 1],
         streak.side = 1 => a.lastDelayDiff > HighDiff,
         streak.side = -1 => a.lastDelayDiff < LowDiff,
         streak.side = 0 => a.timeForDelayChange = 0,
         a.timeForDelayChange <= streak.calls \/ streak.calls = DelayChangeCalls + 1,
         b.timeForDelayChange = TimeForDelayChange(a, b.lastDelayDiff),
         NEW s, s = NextStreak(a, b)
  PROVE  /\ s \in [side : {-1, 0, 1}, calls : 0..DelayChangeCalls + 1]
         /\ s.side = 1 => b.lastDelayDiff > HighDiff
         /\ s.side = -1 => b.lastDelayDiff < LowDiff
         /\ s.side = 0 => b.timeForDelayChange = 0
         /\ b.timeForDelayChange <= s.calls \/ s.calls = DelayChangeCalls + 1
<1>1. PICK side, calls : side = streak.side /\ calls = streak.calls
  OBVIOUS
<1>2. side \in {-1, 0, 1} /\ calls \in 0..DelayChangeCalls + 1
  BY <1>1
<1>3. PICK T \in Nat, D \in Int, D1 \in Int, known \in Nat, T1 \in Nat :
        /\ T = a.timeForDelayChange /\ D = a.lastDelayDiff /\ D1 = b.lastDelayDiff
        /\ known = a.knownDelay /\ T1 = b.timeForDelayChange
  BY DEF AecMobile
<1>4. T1 = CASE D1 > HighDiff -> IF D < LowDiff THEN 0 ELSE T + 1
             [] D1 < LowDiff /\ known > 0 -> IF D > HighDiff THEN 0 ELSE T + 1
             [] OTHER -> 0
  BY <1>3 DEF TimeForDelayChange
<1>5. PICK side1, calls1 :
        /\ side1 = IF D1 > HighDiff THEN 1 ELSE IF D1 < LowDiff /\ known > 0 THEN -1 ELSE 0
        /\ calls1 = IF side1 = 0 THEN 0 ELSE IF side1 # side THEN 1
                    ELSE Lesser(calls + 1, DelayChangeCalls + 1)
  OBVIOUS
<1>6. s = [side |-> side1, calls |-> calls1]
  BY <1>1, <1>3, <1>5 DEF NextStreak, Side
<1>7. /\ side1 \in {-1, 0, 1} /\ calls1 \in 0..DelayChangeCalls + 1
      /\ side1 = 1 => D1 > HighDiff
      /\ side1 = -1 => D1 < LowDiff
      /\ side1 = 0 => T1 = 0
  BY <1>2, <1>4, <1>5, ConstantTypes DEF Lesser
<1>8. T1 <= calls1 \/ calls1 = DelayChangeCalls + 1
  BY <1>1, <1>2, <1>3, <1>4, <1>5, ConstantTypes DEF Lesser
<1> QED
  BY <1>3, <1>6, <1>7, <1>8

LEMMA ProcessRunningKeeps ==
  ASSUME IndInv, NEW n, NEW ms \in MsValues, NEW accepted \in 0..2,
         ProcessRunning(n, ms, accepted)
  PROVE  /\ IndInv'
         /\ aecm'.knownDelay # aecm.knownDelay => streak'.calls > DelayChangeCalls
<1>1. aecm \in AecMobile /\ streak \in [side : {-1, 0, 1}, calls : 0..DelayChangeCalls + 1]
  BY DEF IndInv, Typed
<1>2. /\ aecm' \in AecMobile
      /\ aecm'.initFlag /\ aecm.initFlag /\ ~aecm'.ECstartup
      /\ aecm'.farendOld[0] \in {"far", aecm.farendOld[0]}
      /\ fed'[1] = aecm'.farendOld[0]
      /\ lost' = 0 /\ UNCHANGED waited
      /\ \/ /\ aecm'.timeForDelayChange = aecm.timeForDelayChange
            /\ aecm'.knownDelay = aecm.knownDelay
            /\ aecm'.lastDelayDiff = aecm.lastDelayDiff
            /\ streak' = streak
         \/ /\ aecm'.timeForDelayChange = TimeForDelayChange(aecm, aecm'.lastDelayDiff)
            /\ aecm'.knownDelay # aecm.knownDelay => aecm'.timeForDelayChange > DelayChangeCalls
            /\ streak' = NextStreak(aecm, aecm')
  BY <1>1, RunningShape
<1>3. FirstFrameClean'
  BY <1>2 DEF IndInv, FirstFrameClean
<1>4. WholeFrames'
  BY <1>2 DEF WholeFrames
<1>5. CASE streak' = streak /\ aecm'.timeForDelayChange = aecm.timeForDelayChange
           /\ aecm'.knownDelay = aecm.knownDelay /\ aecm'.lastDelayDiff = aecm.lastDelayDiff
  <2>1. Typed' /\ CounterInStep'
    BY <1>2, <1>5 DEF IndInv, Typed, CounterInStep
  <2> QED
    BY <1>3, <1>4, <1>5, <2>1 DEF IndInv
<1>6. CASE /\ aecm'.timeForDelayChange = TimeForDelayChange(aecm, aecm'.lastDelayDiff)
           /\ aecm'.knownDelay # aecm.knownDelay => aecm'.timeForDelayChange > DelayChangeCalls
           /\ streak' = NextStreak(aecm, aecm')
  <2>1. /\ streak' \in [side : {-1, 0, 1}, calls : 0..DelayChangeCalls + 1]
        /\ streak'.side = 1 => aecm'.lastDelayDiff > HighDiff
        /\ streak'.side = -1 => aecm'.lastDelayDiff < LowDiff
        /\ streak'.side = 0 => aecm'.timeForDelayChange = 0
        /\ aecm'.timeForDelayChange <= streak'.calls \/ streak'.calls = DelayChangeCalls + 1
    <3>1. PICK b, s : b \in AecMobile /\ b = aecm' /\ s = NextStreak(aecm, b)
      BY <1>2
    <3> QED
      BY <1>1, <1>6, <3>1, StreakStep DEF IndInv, CounterInStep
  <2>2. Typed' /\ CounterInStep'
    BY <1>2, <2>1 DEF IndInv, Typed, CounterInStep
  <2>3. aecm'.timeForDelayChange > DelayChangeCalls => streak'.calls > DelayChangeCalls
    <3>1. aecm'.timeForDelayChange \in Nat /\ streak'.calls \in Nat
      BY <1>2, <2>1, ConstantTypes DEF AecMobile
    <3> QED
      BY <2>1, <3>1, ConstantTypes
  <2> QED
    BY <1>3, <1>4, <1>6, <2>2, <2>3 DEF IndInv
<1> QED
  BY <1>2, <1>5, <1>6

-----------------------------------------------------------------------------
\* The theorems about every sequence of calls.

\* One step keeps the invariant.
LEMMA NextKeeps == IndInv /\ [Next]_vars => IndInv'
<1> SUFFICES ASSUME IndInv, [Next]_vars PROVE IndInv'
  OBVIOUS
<1>1. ASSUME NEW f \in SampFreqs, InitInstance(f) PROVE IndInv'
  BY <1>1, InitInstanceKeeps
<1>2. ASSUME NEW n \in BlockSizes, BufferFarendRefused(n) PROVE IndInv'
  BY <1>2, RefusedKeeps DEF BufferFarendRefused
<1>3. ASSUME NEW n \in BlockSizes, BufferFarend(n) PROVE IndInv'
  BY <1>3, BufferFarendKeeps
<1>4. ASSUME NEW n \in BlockSizes, Process(n) PROVE IndInv'
  <2>1. CASE ProcessRefused(n)
    BY <2>1, RefusedKeeps DEF ProcessRefused
  <2>2. ASSUME NEW ms \in MsValues, ProcessStartup(n, ms) PROVE IndInv'
    BY <2>2, ProcessStartupKeeps
  <2>3. ASSUME NEW ms \in MsValues, NEW accepted \in 0..2, ProcessRunning(n, ms, accepted)
        PROVE  IndInv'
    BY <2>3, ProcessRunningKeeps
  <2> QED
    BY <1>4, <2>1, <2>2, <2>3 DEF Process
<1>5. CASE NullPointer
  BY <1>5, RefusedKeeps DEF NullPointer
<1>6. CASE UNCHANGED vars
  BY <1>6 DEF vars, IndInv, Typed, WholeFrames, CounterInStep, FirstFrameClean
<1> QED
  BY <1>1, <1>2, <1>3, <1>4, <1>5, <1>6 DEF Next

\* The inductive invariant holds in every state of an AECM instance.
THEOREM Invariance == Spec => []IndInv
<1>1. Init => IndInv
  BY InitEstablishes
<1>2. IndInv /\ [Next]_vars => IndInv'
  BY NextKeeps
<1> QED
  BY <1>1, <1>2, PTL DEF Spec

\* Every field of the AecMobile record stays in its range; in particular the
\* unread samples never exceed the far-end buffer, and no delay is negative.
THEOREM TypeCorrect == Spec => []TypeOK
<1>1. IndInv => TypeOK
  BY DEF IndInv, Typed, TypeOK, AecMobile
<1> QED
  BY <1>1, Invariance, PTL

\* The steps that can end startup.
LEMMA StartStep ==
  ASSUME IndInv, [Next]_vars, aecm.ECstartup, ~aecm'.ECstartup
  PROVE  aecm'.unread = Greater(aecm'.bufSizeStart, 0) * FRAME_LEN
<1>1. aecm \in AecMobile
  BY DEF IndInv, Typed
<1>2. \A f \in SampFreqs : ~InitInstance(f)
  <2> SUFFICES ASSUME NEW f \in SampFreqs, InitInstance(f) PROVE FALSE
    OBVIOUS
  <2>1. CASE f \notin {8000, 16000}
    BY <2>1 DEF InitInstance, Refused
  <2>2. CASE f \in {8000, 16000}
    BY <1>1, <2>2, InitializeTypes DEF InitInstance
  <2> QED
    BY <2>1, <2>2
<1>3. \A n \in BlockSizes : ~BufferFarend(n)
  <2> SUFFICES ASSUME NEW n \in BlockSizes, BufferFarend(n) PROVE FALSE
    OBVIOUS
  <2>1. n \in Nat /\ aecm' = Write(aecm, n)
    BY <1>1, Accepted DEF BufferFarend
  <2> QED
    BY <1>1, <2>1, WriteKeeps DEF SameButUnread
<1>4. \A error : ~Refused(error)
  BY DEF Refused
<1>5. aecm' # aecm
  OBVIOUS
<1>6. PICK n \in BlockSizes, ms \in MsValues : ProcessStartup(n, ms)
  BY <1>2, <1>3, <1>4, <1>5
     DEF Next, vars, BufferFarendRefused, Process, ProcessRefused, ProcessRunning, NullPointer
<1>7. n \in {FRAME_LEN, 2 * FRAME_LEN} /\ n \in Nat /\ ms \in Int
  BY <1>1, <1>6, Accepted, EchoControlMobileAssumption DEF ProcessStartup
<1>8. PICK a : a = SetMs(aecm, ms)
  OBVIOUS
<1>9. a \in AecMobile /\ a.unread = aecm.unread /\ a.ECstartup = aecm.ECstartup
  <2>1. SameButMs(aecm, a)
    BY <1>1, <1>7, <1>8, SetMsKeeps
  <2> QED
    BY <2>1 DEF SameButMs
<1>10. PICK nb \in Nat : nb = (n \div FRAME_LEN) \div aecm.mult
  <2>1. (n \div FRAME_LEN) \div aecm.mult \in Nat
    BY <1>1, <1>7, ConstantTypes DEF AecMobile
  <2> QED
    BY <2>1
<1>11. aecm' = Startup(a, nb)
  BY <1>6, <1>8, <1>10 DEF ProcessStartup
<1>12. a.unread % FRAME_LEN = 0
  BY <1>9 DEF IndInv, WholeFrames
<1>13. a.ECstartup /\ ~aecm'.ECstartup /\ a.unread % FRAME_LEN = 0
  BY <1>9, <1>12
<1>14. PICK s : s = Startup(a, nb)
  OBVIOUS
<1>15. a.ECstartup /\ ~s.ECstartup /\ a.unread % FRAME_LEN = 0 =>
         s.unread = Greater(s.bufSizeStart, 0) * FRAME_LEN
  BY <1>9, <1>14, StartupTypes
<1> QED
  BY <1>11, <1>13, <1>14, <1>15

\* The echo canceller starts with exactly the far-end backlog Process decided
\* on, whatever was delivered before and however often Init was called.
THEOREM StartBacklogExact == Spec => StartsWithBacklog
<1>1. IndInv /\ [Next]_vars =>
        [(aecm.ECstartup /\ ~aecm'.ECstartup) =>
           aecm'.unread = Greater(aecm'.bufSizeStart, 0) * FRAME_LEN]_vars
  BY StartStep
<1> QED
  BY <1>1, Invariance, PTL DEF Spec, StartsWithBacklog

\* The steps that can change knownDelay.
LEMMA KnownDelayStep ==
  ASSUME IndInv, [Next]_vars, aecm'.knownDelay # aecm.knownDelay
  PROVE  aecm'.ECstartup \/ streak'.calls > DelayChangeCalls
<1>1. aecm \in AecMobile
  BY DEF IndInv, Typed
<1>2. \A error : ~Refused(error)
  BY DEF Refused
<1>3. ASSUME NEW f \in SampFreqs, InitInstance(f) PROVE aecm'.ECstartup
  <2>1. f \in {8000, 16000}
    BY <1>2, <1>3 DEF InitInstance
  <2> QED
    BY <1>1, <1>3, <2>1, InitializeTypes DEF InitInstance, Refused
<1>4. ASSUME NEW n \in BlockSizes, BufferFarend(n) PROVE FALSE
  <2>1. PICK a : a = IF aecm.ECstartup THEN aecm ELSE DelayComp(aecm)
    OBVIOUS
  <2>2. n \in Nat /\ aecm' = Write(a, n)
    BY <1>1, <1>4, <2>1, Accepted DEF BufferFarend
  <2>3. a \in AecMobile /\ a.knownDelay = aecm.knownDelay
    <3>1. SameButUnread(aecm, DelayComp(aecm))
      BY <1>1, DelayCompKeeps
    <3> QED
      BY <1>1, <2>1, <3>1 DEF SameButUnread
  <2>4. SameButUnread(a, Write(a, n))
    BY <2>2, <2>3, WriteKeeps
  <2> QED
    BY <2>2, <2>3, <2>4 DEF SameButUnread
<1>5. ASSUME NEW n \in BlockSizes, NEW ms \in MsValues, ProcessStartup(n, ms) PROVE FALSE
  <2>1. n \in Nat /\ n \in {FRAME_LEN, 2 * FRAME_LEN} /\ ms \in Int
    BY <1>1, <1>5, Accepted, EchoControlMobileAssumption DEF ProcessStartup
  <2>2. PICK a : a = SetMs(aecm, ms)
    OBVIOUS
  <2>3. a \in AecMobile /\ a.knownDelay = aecm.knownDelay
    <3>1. SameButMs(aecm, a)
      BY <1>1, <2>1, <2>2, SetMsKeeps
    <3> QED
      BY <3>1 DEF SameButMs
  <2>4. PICK nb \in Nat : nb = (n \div FRAME_LEN) \div aecm.mult
    <3>1. (n \div FRAME_LEN) \div aecm.mult \in Nat
      BY <1>1, <2>1, ConstantTypes DEF AecMobile
    <3> QED
      BY <3>1
  <2>5. PICK s : s = Startup(a, nb)
    OBVIOUS
  <2>6. s.knownDelay = a.knownDelay
    BY <2>3, <2>5, StartupTypes
  <2> QED
    BY <1>5, <2>2, <2>3, <2>4, <2>5, <2>6 DEF ProcessStartup
<1>6. ASSUME NEW n \in BlockSizes, NEW ms \in MsValues, NEW accepted \in 0..2,
             ProcessRunning(n, ms, accepted)
      PROVE  streak'.calls > DelayChangeCalls
  BY <1>6, ProcessRunningKeeps
<1>7. ~UNCHANGED vars
  BY DEF vars
<1> QED
  BY <1>2, <1>3, <1>4, <1>5, <1>6, <1>7
     DEF Next, BufferFarendRefused, Process, ProcessRefused, NullPointer

\* knownDelay follows the filtered delay only after more than DelayChangeCalls
\* estimates in a row on the same side of the band, for any pattern of delays,
\* underruns and rejected frames.
THEOREM DelayDebounced == Spec => KnownDelayDebounced
<1>1. IndInv /\ [Next]_vars =>
        [aecm'.knownDelay # aecm.knownDelay =>
           aecm'.ECstartup \/ streak'.calls > DelayChangeCalls]_vars
  BY KnownDelayStep
<1> QED
  BY <1>1, Invariance, PTL DEF Spec, KnownDelayDebounced

-----------------------------------------------------------------------------
\* Callers that keep to one block size.

\* Every block the calls accept has the same number of samples, and it lasts at
\* least 10 ms at every rate Init accepts.  (Neither can be left out: blocks of 5
\* ms never end the check, and a caller that changes from 20 to 10 ms stretches it
\* to three quarters of a second, as the check counts calls.)
SteadyCaller(Size) ==
  /\ Size \in {FRAME_LEN, 2 * FRAME_LEN}
  /\ BlockSizes \cap {FRAME_LEN, 2 * FRAME_LEN} \subseteq {Size}
  /\ \A f \in SampFreqs \cap {8000, 16000} : FRAME_LEN * Mult(f) <= Size

\* While the size check is on, its counter times the block size bounds what was
\* captured, and the counter times the blocks of 10 ms is below the limit.
CheckClock(Size) ==
  /\ FRAME_LEN * aecm.mult <= Size
  /\ aecm.checkBuffSize =>
       /\ aecm.checkBufSizeCtr \in 0..(ShortRange \div 2) - 1
       /\ waited <= aecm.checkBufSizeCtr * Size
       /\ aecm.checkBufSizeCtr * ((Size \div FRAME_LEN) \div aecm.mult) <= MaxCheckBlocks

\* A legal block of at least 10 ms is a whole number of them.
LEMMA WholeBlocks ==
  ASSUME NEW Size \in {FRAME_LEN, 2 * FRAME_LEN}, NEW m \in {1, 2}, FRAME_LEN * m <= Size
  PROVE  \E k \in 1..2 : /\ k = (Size \div FRAME_LEN) \div m
                         /\ Size = k * FRAME_LEN * m
<1>1. PICK F \in Nat \ {0} : F = FRAME_LEN
  BY ConstantTypes
<1>2. F \div F = 1 /\ (2 * F) \div F = 2
  OBVIOUS
<1>3. CASE Size = F /\ m = 1
  <2>1. (Size \div F) \div m = 1
    BY <1>2, <1>3
  <2>2. Size = 1 * F * m
    BY <1>3
  <2> QED
    BY <1>1, <2>1, <2>2
<1>4. CASE Size = 2 * F /\ m = 1
  <2>1. (Size \div F) \div m = 2
    BY <1>2, <1>4
  <2>2. Size = 2 * F * m
    BY <1>4
  <2> QED
    BY <1>1, <2>1, <2>2
<1>5. CASE Size = 2 * F /\ m = 2
  <2>1. (Size \div F) \div m = 1
    BY <1>2, <1>5
  <2>2. Size = 1 * F * m
    BY <1>5
  <2> QED
    BY <1>1, <2>1, <2>2
<1>6. ~(Size = F /\ m = 2)
  BY <1>1
<1> QED
  BY <1>1, <1>3, <1>4, <1>5, <1>6

\* The counter does not wrap to a small one unseen: wrapping makes it negative,
\* and a negative counter times a size_t is huge and ends the check.
LEMMA CounterGoesOn ==
  ASSUME NEW c \in 0..(ShortRange \div 2) - 1, NEW k \in Nat \ {0},
         ~SizeAtLeast(Short(c + 1), k, MaxCheckBlocks + 1)
  PROVE  Short(c + 1) = c + 1 /\ c + 1 \in 0..(ShortRange \div 2) - 1
<1>1. PICK H \in Nat \ {0} : ShortRange = 2 * H /\ ShortRange \div 2 = H
  <2>1. ShortRange \in Nat /\ ShortRange > 1 /\ ShortRange % 2 = 0
    BY EchoControlMobileAssumption
  <2>2. PICK H \in Nat : H = ShortRange \div 2
    BY <2>1
  <2> QED
    BY <2>1, <2>2
<1>2. c \in Nat /\ c < H
  BY <1>1
<1>3. Short(c + 1) = ((c + 1 + H) % (2 * H)) - H
  BY <1>1 DEF Short
<1>4. CASE c + 1 < H
  <2>1. (c + 1 + H) % (2 * H) = c + 1 + H
    BY <1>2, <1>4
  <2> QED
    BY <1>1, <1>2, <1>3, <1>4, <2>1
<1>5. CASE c + 1 = H
  <2>1. (2 * H) % (2 * H) = 0
    OBVIOUS
  <2>2. c + 1 + H = 2 * H
    BY <1>2, <1>5
  <2>3. Short(c + 1) = -H
    BY <1>3, <2>1, <2>2
  <2> QED
    BY <2>3 DEF SizeAtLeast
<1> QED
  BY <1>2, <1>4, <1>5

LEMMA ClockStarts ==
  ASSUME NEW Size, SteadyCaller(Size), Init
  PROVE  CheckClock(Size)
<1>1. aecm = Created /\ waited = 0
  BY DEF Init
<1>2. aecm.mult = 1 /\ aecm.checkBufSizeCtr = 0
  BY <1>1 DEF Created
<1>3. FRAME_LEN * 1 <= Size /\ Size \in Nat
  BY ConstantTypes DEF SteadyCaller
<1>4. 0 \in 0..(ShortRange \div 2) - 1
  BY EchoControlMobileAssumption
<1>5. (Size \div FRAME_LEN) \div 1 \in Nat
  BY <1>3, ConstantTypes
<1> QED
  BY <1>1, <1>2, <1>3, <1>4, <1>5, ConstantTypes DEF CheckClock

LEMMA ClockSame ==
  ASSUME NEW Size, CheckClock(Size), aecm'.mult = aecm.mult,
         aecm'.checkBuffSize = aecm.checkBuffSize,
         aecm'.checkBufSizeCtr = aecm.checkBufSizeCtr, waited' = waited
  PROVE  CheckClock(Size)'
BY DEF CheckClock

LEMMA ClockInit ==
  ASSUME NEW Size, SteadyCaller(Size), IndInv, CheckClock(Size),
         NEW f \in SampFreqs, InitInstance(f)
  PROVE  CheckClock(Size)'
<1>1. CASE f \notin {8000, 16000}
  BY <1>1, ClockSame DEF InitInstance, Refused
<1>2. CASE f \in {8000, 16000}
  <2>1. aecm' = Initialize(aecm, f) /\ waited' = 0 /\ aecm \in AecMobile
    BY <1>2 DEF InitInstance, IndInv, Typed
  <2>2. aecm'.mult = Mult(f) /\ aecm'.checkBufSizeCtr = 0
    BY <2>1, InitializeTypes
  <2>3. FRAME_LEN * Mult(f) <= Size /\ Size \in Nat /\ Mult(f) \in {1, 2}
    BY <1>2, ConstantTypes DEF SteadyCaller, Mult
  <2>4. 0 \in 0..(ShortRange \div 2) - 1
    BY EchoControlMobileAssumption
  <2>5. (Size \div FRAME_LEN) \div Mult(f) \in Nat
    BY <2>3, ConstantTypes
  <2> QED
    BY <2>1, <2>2, <2>3, <2>4, <2>5, ConstantTypes DEF CheckClock
<1> QED
  BY <1>1, <1>2

LEMMA ClockBufferFarend ==
  ASSUME NEW Size, IndInv, CheckClock(Size), NEW n \in BlockSizes, BufferFarend(n)
  PROVE  CheckClock(Size)'
<1>1. aecm \in AecMobile
  BY DEF IndInv, Typed
<1>2. PICK a : a = IF aecm.ECstartup THEN aecm ELSE DelayComp(aecm)
  OBVIOUS
<1>3. n \in Nat /\ aecm' = Write(a, n) /\ waited' = waited
  BY <1>1, <1>2, Accepted DEF BufferFarend
<1>4. SameButUnread(aecm, a)
  <2>1. SameButUnread(aecm, DelayComp(aecm))
    BY <1>1, DelayCompKeeps
  <2> QED
    BY <1>1, <1>2, <2>1 DEF SameButUnread
<1>5. a \in AecMobile
  BY <1>4 DEF SameButUnread
<1>6. SameButUnread(a, Write(a, n))
  BY <1>3, <1>5, WriteKeeps
<1> QED
  BY <1>3, <1>4, <1>6, ClockSame DEF SameButUnread

LEMMA ClockStartup ==
  ASSUME NEW Size, SteadyCaller(Size), IndInv, CheckClock(Size),
         NEW n \in BlockSizes, NEW ms \in MsValues, ProcessStartup(n, ms)
  PROVE  CheckClock(Size)'
<1>1. aecm \in AecMobile /\ waited \in Nat
  BY DEF IndInv, Typed
<1>2. n \in Nat /\ n = Size /\ Size \in {FRAME_LEN, 2 * FRAME_LEN} /\ ms \in Int
  BY <1>1, Accepted, EchoControlMobileAssumption DEF ProcessStartup, SteadyCaller
<1>3. PICK a : a = SetMs(aecm, ms)
  OBVIOUS
<1>4. /\ a \in AecMobile /\ a.mult = aecm.mult /\ a.checkBuffSize = aecm.checkBuffSize
      /\ a.checkBufSizeCtr = aecm.checkBufSizeCtr
  <2>1. SameButMs(aecm, a)
    BY <1>1, <1>2, <1>3, SetMsKeeps
  <2> QED
    BY <2>1 DEF SameButMs
<1>5. aecm.mult \in {1, 2} /\ FRAME_LEN * aecm.mult <= Size
  BY <1>1 DEF CheckClock, AecMobile
<1>6. PICK k \in 1..2 : /\ k = (Size \div FRAME_LEN) \div aecm.mult
                        /\ Size = k * FRAME_LEN * aecm.mult
  BY <1>2, <1>5, WholeBlocks
<1>7. PICK nb \in Nat : nb = k
  OBVIOUS
<1>8. PICK s : s = Startup(a, nb)
  OBVIOUS
<1>9. aecm' = s
  BY <1>2, <1>3, <1>6, <1>7, <1>8 DEF ProcessStartup
<1>10. /\ s.mult = a.mult
       /\ s.checkBuffSize =>
              /\ a.checkBuffSize
              /\ s.checkBufSizeCtr = Short(a.checkBufSizeCtr + 1)
              /\ ~SizeAtLeast(Short(a.checkBufSizeCtr + 1), nb, MaxCheckBlocks + 1)
  BY <1>4, <1>8, StartupTypes
<1>11. ASSUME aecm'.checkBuffSize
       PROVE  /\ aecm'.checkBufSizeCtr \in 0..(ShortRange \div 2) - 1
              /\ waited' <= aecm'.checkBufSizeCtr * Size
              /\ aecm'.checkBufSizeCtr * k <= MaxCheckBlocks
  <2>1. PICK c : c = aecm.checkBufSizeCtr
    OBVIOUS
  <2>2. c \in 0..(ShortRange \div 2) - 1 /\ waited <= c * Size
    BY <1>4, <1>9, <1>10, <1>11, <2>1 DEF CheckClock
  <2>3. ~SizeAtLeast(Short(c + 1), nb, MaxCheckBlocks + 1) /\ aecm'.checkBufSizeCtr = Short(c + 1)
    BY <1>4, <1>9, <1>10, <1>11, <2>1
  <2>4. Short(c + 1) = c + 1 /\ c + 1 \in 0..(ShortRange \div 2) - 1
    <3>1. nb \in Nat \ {0}
      BY <1>7
    <3> QED
      BY <2>2, <2>3, <3>1, CounterGoesOn
  <2>5. c \in Nat
    BY <2>2, EchoControlMobileAssumption
  <2>6. (c + 1) * k <= MaxCheckBlocks
    <3>1. ~((c + 1) * k >= MaxCheckBlocks + 1)
      BY <1>7, <2>3, <2>4 DEF SizeAtLeast
    <3>2. (c + 1) * k \in Int
      BY <2>5
    <3> QED
      BY <3>1, <3>2, ConstantTypes
  <2>7. waited' = Lesser(waited + n, WaitLimit(aecm) + 1)
    BY <1>11 DEF ProcessStartup
  <2>8. WaitLimit(aecm) \in Nat
    BY <1>5, ConstantTypes DEF WaitLimit
  <2>9. waited' <= waited + Size
    BY <1>1, <1>2, <2>7, <2>8 DEF Lesser
  <2>10. waited' \in Nat
    BY <1>1, <1>2, <2>7, <2>8 DEF Lesser
  <2>11. c * Size + Size = (c + 1) * Size /\ c * Size \in Nat
    BY <1>2, <2>5
  <2>12. waited' <= (c + 1) * Size
    BY <1>1, <1>2, <2>2, <2>9, <2>10, <2>11
  <2> QED
    BY <2>3, <2>4, <2>6, <2>12
<1> QED
  BY <1>4, <1>5, <1>6, <1>9, <1>10, <1>11 DEF CheckClock

LEMMA ClockNext ==
  ASSUME NEW Size, SteadyCaller(Size), IndInv, CheckClock(Size), [Next]_vars
  PROVE  CheckClock(Size)'
<1>1. ASSUME NEW error, Refused(error) PROVE CheckClock(Size)'
  BY <1>1, ClockSame DEF Refused
<1>2. ASSUME NEW f \in SampFreqs, InitInstance(f) PROVE CheckClock(Size)'
  BY <1>2, ClockInit
<1>3. ASSUME NEW n \in BlockSizes, BufferFarend(n) PROVE CheckClock(Size)'
  BY <1>3, ClockBufferFarend
<1>4. ASSUME NEW n \in BlockSizes, NEW ms \in MsValues, ProcessStartup(n, ms)
      PROVE  CheckClock(Size)'
  BY <1>4, ClockStartup
<1>5. ASSUME NEW n \in BlockSizes, NEW ms \in MsValues, NEW accepted \in 0..2,
             ProcessRunning(n, ms, accepted)
      PROVE  CheckClock(Size)'
  <2>1. /\ aecm'.mult = aecm.mult /\ aecm'.checkBuffSize = aecm.checkBuffSize
        /\ aecm'.checkBufSizeCtr = aecm.checkBufSizeCtr /\ UNCHANGED waited
    BY <1>5, RunningShape DEF IndInv, Typed
  <2> QED
    BY <2>1, ClockSame
<1>6. CASE UNCHANGED vars
  BY <1>6, ClockSame DEF vars
<1> QED
  BY <1>1, <1>2, <1>3, <1>4, <1>5, <1>6
     DEF Next, BufferFarendRefused, Process, ProcessRefused, NullPointer

LEMMA ClockDecides ==
  ASSUME NEW Size, SteadyCaller(Size), IndInv, CheckClock(Size)
  PROVE  DecidedInTime
<1> SUFFICES ASSUME aecm.checkBuffSize PROVE waited <= WaitLimit(aecm)
  BY DEF DecidedInTime
<1>1. aecm.mult \in {1, 2} /\ FRAME_LEN * aecm.mult <= Size
  BY DEF IndInv, Typed, AecMobile, CheckClock
<1>2. Size \in {FRAME_LEN, 2 * FRAME_LEN}
  BY DEF SteadyCaller
<1>3. PICK k \in 1..2 : /\ k = (Size \div FRAME_LEN) \div aecm.mult
                        /\ Size = k * FRAME_LEN * aecm.mult
  BY <1>1, <1>2, WholeBlocks
<1>4. PICK c \in Nat, B \in Nat, M \in Nat, w \in Nat :
        /\ c = aecm.checkBufSizeCtr /\ B = FRAME_LEN * aecm.mult
        /\ M = MaxCheckBlocks /\ w = waited
  <2>1. aecm.checkBufSizeCtr \in Nat
    BY EchoControlMobileAssumption DEF CheckClock
  <2>2. FRAME_LEN * aecm.mult \in Nat
    BY <1>1, ConstantTypes
  <2> QED
    BY <2>1, <2>2, ConstantTypes DEF IndInv, Typed
<1>5. w <= c * Size /\ c * k <= M
  BY <1>3, <1>4 DEF CheckClock
<1>6. Size = k * B
  BY <1>1, <1>3, <1>4, ConstantTypes
<1>7. c * (k * B) = (c * k) * B
  OBVIOUS
<1>8. (c * k) * B <= M * B
  <2>1. PICK d \in Nat : d = M - c * k
    BY <1>5
  <2>2. M = c * k + d
    BY <2>1
  <2>3. M * B = (c * k) * B + d * B /\ d * B \in Nat /\ (c * k) * B \in Nat
    BY <2>2
  <2> QED
    BY <2>3
<1>9. WaitLimit(aecm) = M * B
  BY <1>1, <1>4, ConstantTypes DEF WaitLimit
<1>10. (c * k) * B \in Nat /\ M * B \in Nat
  OBVIOUS
<1> QED
  BY <1>4, <1>5, <1>6, <1>7, <1>8, <1>9, <1>10

\* For a caller that keeps to one block size of at least 10 ms, the check of the
\* sound card buffer is over after half a second of captured signal, whatever
\* the sound card reports and however far the counters' range.
THEOREM CheckEndsInTime ==
  ASSUME NEW Size, SteadyCaller(Size)
  PROVE  Spec => []DecidedInTime
<1>1. Init => CheckClock(Size)
  BY ClockStarts
<1>2. IndInv /\ CheckClock(Size) /\ [Next]_vars => CheckClock(Size)'
  BY ClockNext
<1>3. IndInv /\ CheckClock(Size) => DecidedInTime
  BY ClockDecides
<1> QED
  BY <1>1, <1>2, <1>3, Invariance, PTL DEF Spec

-----------------------------------------------------------------------------
\* Callers of blocks of 5 ms.

\* The size check of an instance that was initialised for wideband is still on.
StillChecking == /\ aecm.ECstartup /\ aecm.checkBuffSize
                 /\ aecm.initFlag => aecm.mult = 2

\* A call with no whole block of 10 ms leaves the check on: the counters that
\* would end it are multiplied by zero.
LEMMA NoWholeBlock ==
  ASSUME NEW a \in AecMobile, a.ECstartup, a.checkBuffSize
  PROVE  /\ Startup(a, 0).ECstartup /\ Startup(a, 0).checkBuffSize
         /\ Startup(a, 0).initFlag = a.initFlag /\ Startup(a, 0).mult = a.mult
<1> DEFINE b == CheckBufSize(a, 0)
<1>1. \A c \in Int : ~SizeAtLeast(c, 0, StableBlocks) /\ ~SizeAtLeast(c, 0, MaxCheckBlocks + 1)
  BY ConstantTypes DEF SizeAtLeast
<1>2. /\ Short(a.checkBufSizeCtr + 1) \in Int /\ Short(a.counter + 1) \in Int
  BY ShortType DEF AecMobile
<1>3. b.checkBuffSize = TRUE
  <2>1. \A c \in Int, d \in Int :
          ~(SizeAtLeast(c, 0, StableBlocks) \/ SizeAtLeast(d, 0, MaxCheckBlocks + 1))
    BY <1>1
  <2>2. \E c \in Int, d \in Int :
          b.checkBuffSize = ~(SizeAtLeast(c, 0, StableBlocks) \/ SizeAtLeast(d, 0, MaxCheckBlocks + 1))
    <3> DEFINE stable == 5 * (IF (IF a.counter = 0 THEN a.msInSndCardBuf ELSE a.firstVal) > a.msInSndCardBuf
                              THEN (IF a.counter = 0 THEN a.msInSndCardBuf ELSE a.firstVal) - a.msInSndCardBuf
                              ELSE a.msInSndCardBuf - (IF a.counter = 0 THEN a.msInSndCardBuf ELSE a.firstVal))
                         < Greater(a.msInSndCardBuf, 5 * kSampMsNb)
               c == IF stable THEN Short(a.counter + 1) ELSE 0
               d == Short(a.checkBufSizeCtr + 1)
    <3>1. c \in Int /\ d \in Int
      BY <1>2
    <3>2. b.checkBuffSize = ~(SizeAtLeast(c, 0, StableBlocks) \/ SizeAtLeast(d, 0, MaxCheckBlocks + 1))
      BY DEF CheckBufSize, AecMobile
    <3> QED
      BY <3>1, <3>2
  <2> QED
    BY <2>1, <2>2
<1>4. b.ECstartup = a.ECstartup /\ b.initFlag = a.initFlag /\ b.mult = a.mult
  <2>1. 0 \in Nat
    OBVIOUS
  <2> QED
    BY <2>1, CheckTypes, Zenon
<1> HIDE DEF b
<1>5. Startup(a, 0) = b
  BY <1>3 DEF Startup, b
<1> QED
  BY <1>3, <1>4, <1>5

\* A caller that passes blocks of 80 samples at 16 kHz, which the interface
\* allows, never gets an echo canceller: nBlocks10ms is zero in every call, so
\* that the startup phase of WebRtcAecm_Process does not end, whatever it reports
\* as delay and however long it goes on.
THEOREM ShortBlocksNeverStart ==
  ASSUME 2 * FRAME_LEN \notin BlockSizes, 8000 \notin SampFreqs
  PROVE  Spec => []aecm.ECstartup
<1>1. Init => StillChecking
  BY DEF Init, Created, StillChecking
<1>2. IndInv /\ StillChecking /\ [Next]_vars => StillChecking'
  <2> SUFFICES ASSUME IndInv, StillChecking, [Next]_vars PROVE StillChecking'
    OBVIOUS
  <2>0. aecm \in AecMobile
    BY DEF IndInv, Typed
  <2>1. ASSUME aecm' = aecm PROVE StillChecking'
    BY <2>1 DEF StillChecking
  <2>2. ASSUME NEW f \in SampFreqs, InitInstance(f) PROVE StillChecking'
    <3>1. CASE aecm' = aecm
      BY <2>1, <3>1
    <3>2. CASE f = 16000 /\ aecm' = Initialize(aecm, f)
      BY <3>2 DEF Initialize, Created, Mult, StillChecking
    <3> QED
      BY <2>2, <3>1, <3>2 DEF InitInstance, Refused
  <2>3. ASSUME NEW n \in BlockSizes, BufferFarend(n) PROVE StillChecking'
    <3>1. aecm' = Write(aecm, n) /\ n \in Nat
      BY <2>3, EchoControlMobileAssumption DEF BufferFarend, StillChecking
    <3>2. PICK u \in 0..kBufSizeSamp : aecm' = [aecm EXCEPT !.unread = u]
      BY <2>0, <3>1, WriteStores
    <3> QED
      BY <2>0, <3>2, UnreadReplaced DEF SameButUnread, StillChecking
  <2>4. ASSUME NEW n \in BlockSizes, NEW ms \in MsValues, ProcessStartup(n, ms)
        PROVE  StillChecking'
    <3>1. n = FRAME_LEN /\ aecm.mult = 2
      BY <2>4 DEF ProcessStartup, Error, StillChecking
    <3>2. (n \div FRAME_LEN) \div aecm.mult = 0
      <4>1. FRAME_LEN \div FRAME_LEN = 1
        BY ConstantTypes
      <4> QED
        BY <3>1, <4>1
    <3>3. PICK a : a = SetMs(aecm, ms)
      OBVIOUS
    <3>4. a \in AecMobile /\ a.ECstartup /\ a.checkBuffSize /\ a.mult = 2
      <4>1. ms \in Int
        BY EchoControlMobileAssumption
      <4>2. SameButMs(aecm, a)
        BY <2>0, <3>3, <4>1, SetMsKeeps
      <4> QED
        BY <3>1, <4>2 DEF SameButMs, StillChecking
    <3>5. aecm' = Startup(a, 0)
      BY <2>4, <3>2, <3>3 DEF ProcessStartup
    <3>6. aecm'.ECstartup /\ aecm'.checkBuffSize /\ aecm'.mult = 2
      BY <3>4, <3>5, NoWholeBlock
    <3> QED
      BY <3>6 DEF StillChecking
  <2>5. ASSUME NEW n \in BlockSizes, NEW ms \in MsValues, NEW accepted \in 0..2
        PROVE  ~ProcessRunning(n, ms, accepted)
    BY DEF ProcessRunning, StillChecking
  <2> QED
    BY <2>1, <2>2, <2>3, <2>4, <2>5
       DEF Next, BufferFarendRefused, Process, ProcessRefused, NullPointer, Refused, vars
<1>3. StillChecking => aecm.ECstartup
  BY DEF StillChecking
<1> QED
  BY <1>1, <1>2, <1>3, Invariance, PTL DEF Spec

-----------------------------------------------------------------------------
\* What the core is given.

\* For a caller that passes single frames, the core is never given anything but
\* far-end data of this session or silence; Init clears the one frame such a
\* caller uses.  (With blocks of two frames it may get the half that Init leaves:
\* only the first of the frames is clean.)
THEOREM SingleFramesDefined ==
  ASSUME 2 * FRAME_LEN \notin BlockSizes
  PROVE  Spec => []FedIsDefined
<1> DEFINE Single == fed = << >> \/ Len(fed) = 1
<1>1. Init => Single
  BY DEF Init
<1>2. IndInv /\ Single /\ [Next]_vars => Single'
  <2> SUFFICES ASSUME IndInv, Single, [Next]_vars PROVE Single'
    OBVIOUS
  <2>1. ASSUME NEW error, Refused(error) PROVE Single'
    BY <2>1 DEF Refused
  <2>2. ASSUME NEW f \in SampFreqs, InitInstance(f) PROVE Single'
    BY <2>2 DEF InitInstance, Refused
  <2>3. ASSUME NEW n \in BlockSizes, BufferFarend(n) PROVE Single'
    BY <2>3 DEF BufferFarend
  <2>4. ASSUME NEW n \in BlockSizes, NEW ms \in MsValues, ProcessStartup(n, ms) PROVE Single'
    BY <2>4 DEF ProcessStartup
  <2>5. ASSUME NEW n \in BlockSizes, NEW ms \in MsValues, NEW accepted \in 0..2,
               ProcessRunning(n, ms, accepted)
        PROVE  Single'
    <3>1. n # 2 * FRAME_LEN
      OBVIOUS
    <3>2. n # 2 * FRAME_LEN => Len(fed') = 1
      BY <2>5, RunningShape DEF IndInv, Typed
    <3> QED
      BY <3>1, <3>2
  <2>6. CASE UNCHANGED vars
    BY <2>6 DEF vars
  <2> QED
    BY <2>1, <2>2, <2>3, <2>4, <2>5, <2>6
       DEF Next, BufferFarendRefused, Process, ProcessRefused, NullPointer
<1>3. IndInv /\ Single => FedIsDefined
  BY DEF IndInv, FirstFrameClean, FedIsDefined
<1> QED
  BY <1>1, <1>2, <1>3, Invariance, PTL DEF Spec

-----------------------------------------------------------------------------
\* The loop of main.cpp.

\* What the instance takes for the delay of the sound card, and the samples in it.
Reported(ms) == Clamped(ms) + MsStep

CardSamples(ms, m) == Reported(ms) * kSampMsNb * m

\* The far-end buffer is large enough for a delay: it takes a block on top of
\* the largest start size, of the largest stuffing, and of the blocks of the
\* size check; and the sum of that check's delays is a short.  With the code's
\* numbers this is so for every legal delay at 8 kHz, up to 279 ms at 16 kHz.
Fits(ms, m) ==
  /\ 3 * CardSamples(ms, m) + 4 * (FRAME_LEN * m) <= 4 * kBufSizeSamp
  /\ CardSamples(ms, m) + 2 * (FRAME_LEN * m) + FRAME_LEN <= kBufSizeSamp + FAR_BUF_LEN
  /\ StableBlocks * (FRAME_LEN * m) <= kBufSizeSamp
  /\ StableBlocks < ShortRange \div 2
  /\ StableBlocks * Reported(ms) < ShortRange \div 2

\* The backlog the loop keeps between two turns is one that startup or stuffing
\* may have left.
Usual(u, S, B) == 4 * u <= 3 * S \/ u <= S - FAR_BUF_LEN + B + FRAME_LEN

\* The size check in lock step: as many blocks are unread as were counted.
LCheck ==
  aecm.ECstartup /\ aecm.checkBuffSize =>
    /\ aecm.counter \in 0..StableBlocks - 1
    /\ aecm.unread = (IF turn = "capture" THEN aecm.counter + 1 ELSE aecm.counter) * Block
    /\ aecm.counter > 0 => /\ aecm.firstVal = Reported(card)
                           /\ aecm.sum = aecm.counter * Reported(card)

\* The start size is decided, the backlog still grows to it.
LFill ==
  aecm.ECstartup /\ ~aecm.checkBuffSize =>
    /\ aecm.bufSizeStart \in Nat
    /\ 4 * (aecm.bufSizeStart * FRAME_LEN) <= 3 * CardSamples(card, aecm.mult)
    /\ turn = "render" => 4 * aecm.unread <= 3 * CardSamples(card, aecm.mult)

\* The echo canceller runs: capture always finds a whole block.
LRun ==
  ~aecm.ECstartup =>
    /\ aecm.msInSndCardBuf = Reported(card)
    /\ turn = "render" => Usual(aecm.unread, CardSamples(card, aecm.mult), Block)
    /\ turn = "capture" => /\ aecm.unread >= Block
                           /\ Usual(aecm.unread - Block, CardSamples(card, aecm.mult), Block)

LInv ==
  /\ aecm \in AecMobile /\ WholeFrames
  /\ card \in MsValues /\ turn \in {"init", "render", "capture"}
  /\ turn # "init" => /\ aecm.initFlag
                      /\ \E f \in SampFreqs \cap {8000, 16000} : aecm.mult = Mult(f)
                      /\ LCheck /\ LFill /\ LRun
  /\ lost = 0
  /\ \A i \in 1..Len(fed) : fed[i] = "far"

\* A number below half the range is a short.
LEMMA ShortSmall == \A x \in 0..(ShortRange \div 2) - 1 : Short(x) = x
<1> SUFFICES ASSUME NEW x \in 0..(ShortRange \div 2) - 1 PROVE Short(x) = x
  OBVIOUS
<1>1. PICK H \in Nat \ {0} : ShortRange = 2 * H /\ ShortRange \div 2 = H
  <2>1. ShortRange \in Nat /\ ShortRange > 1 /\ ShortRange % 2 = 0
    BY EchoControlMobileAssumption
  <2>2. PICK H \in Nat : H = ShortRange \div 2
    BY <2>1
  <2> QED
    BY <2>1, <2>2
<1>2. x \in Nat /\ x < H
  BY <1>1
<1>3. (x + H) % (2 * H) = x + H
  BY <1>2
<1> QED
  BY <1>1, <1>2, <1>3 DEF Short

\* The start size of c equal delays: at most 75% of the delay.
LEMMA StartSizeBound ==
  ASSUME NEW c \in Nat \ {0}, NEW r \in Nat, NEW m \in {1, 2}
  PROVE  /\ StartSize(c * r, c, m) \in Nat
         /\ 4 * (StartSize(c * r, c, m) * FRAME_LEN) <= 3 * (r * kSampMsNb * m)
<1>1. PICK F \in Nat \ {0}, S \in Nat, B \in Nat :
        F = FRAME_LEN /\ S = r * kSampMsNb * m /\ B = BUF_SIZE_FRAMES
  <2>1. r * kSampMsNb * m \in Nat
    BY ConstantTypes
  <2> QED
    BY <2>1, ConstantTypes
<1>2. PICK X \in Nat, Y \in Nat \ {0} : X = c * (3 * S) /\ Y = c * (4 * F)
  <2>1. c * (3 * S) \in Nat /\ c * (4 * F) \in Nat \ {0}
    OBVIOUS
  <2> QED
    BY <2>1
<1>3. 3 * (c * r) * m * kSampMsNb = X
  <2>1. PICK k \in Nat, t \in Nat : k = kSampMsNb /\ t = m
    BY ConstantTypes
  <2>2. 3 * (c * r) * t * k = c * (3 * (r * k * t))
    OBVIOUS
  <2> QED
    BY <1>1, <1>2, <2>1, <2>2
<1>4. c * 4 * FRAME_LEN = Y
  BY <1>1, <1>2
<1>5. PICK q \in Nat : q = X \div Y
  OBVIOUS
<1>6. X = Y * q + (X % Y) /\ X % Y \in Nat
  BY <1>5
<1>7. Y * q <= X
  <2>1. Y * q \in Nat
    OBVIOUS
  <2> QED
    BY <1>6, <2>1
<1>8. 4 * (q * F) <= 3 * S
  <2>1. PICK d \in Int : d = 3 * S - 4 * (q * F)
    <3>1. q * F \in Nat
      OBVIOUS
    <3>2. PICK g \in Nat : g = q * F
      BY <3>1
    <3>3. 3 * S - 4 * g \in Int
      OBVIOUS
    <3> QED
      BY <3>2, <3>3
  <2>2. c * d = X - Y * q
    <3>1. c * d = c * (3 * S) - c * (4 * (q * F))
      BY <2>1
    <3>2. c * (4 * (q * F)) = (c * (4 * F)) * q
      OBVIOUS
    <3> QED
      BY <1>2, <3>1, <3>2
  <2>3. c * d >= 0
    BY <1>7, <2>2
  <2>4. d >= 0
    BY <2>3
  <2>5. 4 * (q * F) \in Int
    OBVIOUS
  <2> QED
    BY <2>1, <2>4, <2>5
<1>9. CDiv(X, Y) = q
  BY <1>5 DEF CDiv
<1>10. StartSize(c * r, c, m) = Lesser(q, B)
  BY <1>1, <1>3, <1>4, <1>9 DEF StartSize
<1>11. PICK z \in Nat : z = Lesser(q, B) /\ z <= q
  BY DEF Lesser
<1>12. 4 * (z * F) <= 4 * (q * F)
  <2>1. PICK e \in Nat : e = q - z
    BY <1>11
  <2>2. q * F = z * F + e * F /\ e * F \in Nat /\ z * F \in Nat
    <3>1. q = z + e
      BY <2>1
    <3> QED
      BY <3>1
  <2> QED
    BY <2>2
<1>13. 4 * (z * F) \in Nat /\ 4 * (q * F) \in Nat
  OBVIOUS
<1>14. 4 * (z * F) <= 3 * S
  BY <1>8, <1>12, <1>13
<1> QED
  BY <1>1, <1>10, <1>11, <1>14

\* One call of the size check with the delay it was always called with.
LEMMA CheckInStep ==
  ASSUME NEW a \in AecMobile, NEW r \in Nat, r = a.msInSndCardBuf,
         a.counter \in 0..StableBlocks - 1,
         a.counter > 0 => a.firstVal = r /\ a.sum = a.counter * r,
         StableBlocks < ShortRange \div 2, StableBlocks * r < ShortRange \div 2,
         NEW b, b = CheckBufSize(a, 1)
  PROVE  /\ b.counter = a.counter + 1 /\ b.firstVal = r /\ b.sum = (a.counter + 1) * r
         /\ b.checkBuffSize => b.counter \in 0..StableBlocks - 1
         /\ ~b.checkBuffSize =>
              /\ b.bufSizeStart \in Nat
              /\ 4 * (b.bufSizeStart * FRAME_LEN) <= 3 * (r * kSampMsNb * a.mult)
<1>1. PICK c \in Nat, N \in Nat, H \in Nat : c = a.counter /\ N = StableBlocks /\ H = ShortRange \div 2
  BY ConstantTypes, EchoControlMobileAssumption
<1>2. c < N /\ N < H /\ N * r < H
  BY <1>1
<1> DEFINE first    == IF a.counter = 0 THEN r ELSE a.firstVal
           sum0     == IF a.counter = 0 THEN 0 ELSE a.sum
           off      == IF first > r THEN first - r ELSE r - first
           stable   == 5 * off < Greater(r, 5 * kSampMsNb)
           sum1     == IF stable THEN Short(sum0 + r) ELSE sum0
           counter1 == IF stable THEN Short(a.counter + 1) ELSE 0
           ctr      == Short(a.checkBufSizeCtr + 1)
           settled  == SizeAtLeast(counter1, 1, StableBlocks)
           timedOut == SizeAtLeast(ctr, 1, MaxCheckBlocks + 1)
           start    == CASE timedOut -> StartSize(r, 1, a.mult)
                         [] settled /\ ~timedOut -> StartSize(sum1, counter1, a.mult)
                         [] OTHER -> a.bufSizeStart
<1>3. first = r /\ sum0 = c * r
  <2>1. CASE c = 0
    BY <1>1, <2>1
  <2>2. CASE c # 0
    BY <1>1, <2>2
  <2> QED
    BY <2>1, <2>2
<1>4. stable
  BY <1>3, ConstantTypes DEF Greater
<1>5. sum0 + r = (c + 1) * r /\ (c + 1) * r \in 0..H - 1
  <2>1. c * r + r = (c + 1) * r /\ (c + 1) * r \in Nat
    OBVIOUS
  <2>2. (c + 1) * r <= N * r
    <3>1. PICK e \in Nat : e = N - (c + 1)
      BY <1>2
    <3>2. N * r = (c + 1) * r + e * r /\ e * r \in Nat
      <4>1. N = (c + 1) + e
        BY <3>1
      <4> QED
        BY <4>1
    <3> QED
      BY <2>1, <3>2
  <2>3. N * r \in Nat
    OBVIOUS
  <2> QED
    BY <1>2, <1>3, <2>1, <2>2, <2>3
<1>6. c + 1 \in 0..H - 1
  BY <1>2
<1>7. Short(sum0 + r) = (c + 1) * r /\ Short(a.counter + 1) = c + 1
  <2>1. \A x \in 0..H - 1 : Short(x) = x
    BY <1>1, ShortSmall
  <2> QED
    BY <1>1, <1>5, <1>6, <2>1
<1>8. sum1 = (c + 1) * r /\ counter1 = c + 1
  BY <1>4, <1>7
<1>9. b = [a EXCEPT !.firstVal = first, !.sum = sum1, !.counter = counter1,
                    !.checkBufSizeCtr = ctr, !.bufSizeStart = start,
                    !.checkBuffSize = ~(settled \/ timedOut)]
  BY DEF CheckBufSize
<1> HIDE DEF first, sum0, off, stable, sum1, counter1, ctr
<1>10. /\ b.counter = c + 1 /\ b.firstVal = r /\ b.sum = (c + 1) * r
       /\ b.checkBuffSize = ~(settled \/ timedOut) /\ b.bufSizeStart = start
  BY <1>3, <1>8, <1>9 DEF AecMobile
<1>11. ~settled => c + 1 < N
  BY <1>1, <1>8 DEF SizeAtLeast
<1>12. a.mult \in {1, 2}
  BY DEF AecMobile
<1>13. /\ StartSize(r, 1, a.mult) \in Nat
       /\ 4 * (StartSize(r, 1, a.mult) * FRAME_LEN) <= 3 * (r * kSampMsNb * a.mult)
  <2>1. PICK one \in Nat \ {0} : one = 1
    OBVIOUS
  <2>2. one * r = r
    BY <2>1
  <2>3. /\ StartSize(one * r, one, a.mult) \in Nat
        /\ 4 * (StartSize(one * r, one, a.mult) * FRAME_LEN) <= 3 * (r * kSampMsNb * a.mult)
    BY <1>12, StartSizeBound
  <2> QED
    BY <2>1, <2>2, <2>3
<1>14. /\ StartSize(sum1, counter1, a.mult) \in Nat
       /\ 4 * (StartSize(sum1, counter1, a.mult) * FRAME_LEN) <= 3 * (r * kSampMsNb * a.mult)
  <2>1. PICK d \in Nat \ {0} : d = c + 1
    OBVIOUS
  <2>2. /\ StartSize(d * r, d, a.mult) \in Nat
        /\ 4 * (StartSize(d * r, d, a.mult) * FRAME_LEN) <= 3 * (r * kSampMsNb * a.mult)
    BY <1>12, StartSizeBound
  <2> QED
    BY <1>8, <2>1, <2>2
<1>15. settled \/ timedOut =>
         start \in {StartSize(r, 1, a.mult), StartSize(sum1, counter1, a.mult)}
  <2> HIDE DEF settled, timedOut
  <2> QED
    OBVIOUS
<1> HIDE DEF settled, timedOut, start
<1>16. b.checkBuffSize => c + 1 \in 0..N - 1
  <2>1. b.checkBuffSize => c + 1 < N
    BY <1>10, <1>11
  <2>2. c + 1 < N => c + 1 \in 0..N - 1
    OBVIOUS
  <2> QED
    BY <2>1, <2>2
<1>17. ~b.checkBuffSize => start \in {StartSize(r, 1, a.mult), StartSize(sum1, counter1, a.mult)}
  BY <1>10, <1>15
<1>18. PICK z : z = b.bufSizeStart
  OBVIOUS
<1>19. ~b.checkBuffSize => z \in Nat /\ 4 * (z * FRAME_LEN) <= 3 * (r * kSampMsNb * a.mult)
  BY <1>10, <1>13, <1>14, <1>17, <1>18
<1> QED
  BY <1>1, <1>10, <1>16, <1>18, <1>19

\* The start-up branch in one: what is left of it, and what it was decided from.
LEMMA StartupStep ==
  ASSUME NEW a \in AecMobile, a.ECstartup, NEW nb \in Nat,
         NEW b, b = IF a.checkBuffSize THEN CheckBufSize(a, nb) ELSE a,
         NEW s, s = Startup(a, nb)
  PROVE  /\ s.counter = b.counter /\ s.firstVal = b.firstVal /\ s.sum = b.sum
         /\ s.checkBuffSize = b.checkBuffSize /\ s.bufSizeStart = b.bufSizeStart
         /\ s.msInSndCardBuf = a.msInSndCardBuf
         /\ s.ECstartup => b.checkBuffSize \/ nmbrOfFilledBuffers(a) < b.bufSizeStart
         /\ ~s.ECstartup => ~b.checkBuffSize
<1>1. b \in AecMobile /\ b.msInSndCardBuf = a.msInSndCardBuf /\ b.ECstartup = a.ECstartup
  <2>1. PICK d : d = CheckBufSize(a, nb)
    OBVIOUS
  <2>2. d \in AecMobile /\ d.msInSndCardBuf = a.msInSndCardBuf /\ d.ECstartup = a.ECstartup
    BY <2>1, CheckTypes
  <2> QED
    BY <2>1, <2>2
<1>2. PICK k \in Int : k = b.unread - b.bufSizeStart * FRAME_LEN
  <2>1. b.unread \in Int /\ b.bufSizeStart * FRAME_LEN \in Int
    BY <1>1, ConstantTypes DEF AecMobile
  <2> QED
    BY <2>1
<1>3. PICK c : c = IF nmbrOfFilledBuffers(a) = b.bufSizeStart THEN b ELSE MoveReadPtr(b, k)
  OBVIOUS
<1>4. s = IF b.checkBuffSize \/ nmbrOfFilledBuffers(a) < b.bufSizeStart THEN b
          ELSE [c EXCEPT !.ECstartup = FALSE]
  BY <1>2, <1>3 DEF Startup
<1>5. /\ c \in AecMobile
      /\ c.counter = b.counter /\ c.firstVal = b.firstVal /\ c.sum = b.sum
      /\ c.checkBuffSize = b.checkBuffSize /\ c.bufSizeStart = b.bufSizeStart
      /\ c.msInSndCardBuf = b.msInSndCardBuf
  <2>1. SameButUnread(b, MoveReadPtr(b, k))
    BY <1>1, SeekKeeps
  <2> QED
    BY <1>1, <1>3, <2>1 DEF SameButUnread
<1>6. PICK d : d = [c EXCEPT !.ECstartup = FALSE]
  OBVIOUS
<1>7. /\ d.counter = c.counter /\ d.firstVal = c.firstVal /\ d.sum = c.sum
      /\ d.checkBuffSize = c.checkBuffSize /\ d.bufSizeStart = c.bufSizeStart
      /\ d.msInSndCardBuf = c.msInSndCardBuf /\ d.ECstartup = FALSE
  BY <1>5, <1>6 DEF AecMobile
<1>8. CASE b.checkBuffSize \/ nmbrOfFilledBuffers(a) < b.bufSizeStart
  <2>1. s = b
    BY <1>4, <1>8
  <2> QED
    BY <1>1, <1>8, <2>1
<1>9. CASE ~(b.checkBuffSize \/ nmbrOfFilledBuffers(a) < b.bufSizeStart)
  <2>1. s = d
    BY <1>4, <1>6, <1>9
  <2> QED
    BY <1>1, <1>5, <1>7, <1>9, <2>1
<1> QED
  BY <1>8, <1>9

\* The block of the loop is 10 ms of whole frames.
LEMMA LoopBlock ==
  ASSUME NEW m \in {1, 2}
  PROVE  /\ FRAME_LEN * m \in {FRAME_LEN, 2 * FRAME_LEN}
         /\ FRAME_LEN * m \in Nat /\ FRAME_LEN * m >= FRAME_LEN
         /\ (FRAME_LEN * m) \div FRAME_LEN = m
         /\ ((FRAME_LEN * m) \div FRAME_LEN) \div m = 1
<1>1. PICK F \in Nat \ {0} : F = FRAME_LEN
  BY ConstantTypes
<1>2. F * 1 = F /\ F * 2 = 2 * F /\ F \div F = 1 /\ (2 * F) \div F = 2
  OBVIOUS
<1>3. CASE m = 1
  BY <1>1, <1>2, <1>3
<1>4. CASE m = 2
  BY <1>1, <1>2, <1>4
<1> QED
  BY <1>3, <1>4

\* Stuffing never leaves more than the loop's usual backlog.
LEMMA DelayCompUsual ==
  ASSUME NEW a \in AecMobile, NEW S \in Nat, S = nSampSndCard(a),
         Usual(a.unread, S, FRAME_LEN * a.mult)
  PROVE  Usual(DelayComp(a).unread, S, FRAME_LEN * a.mult)
<1>1. PICK u \in Nat, B \in Nat, F \in Nat, A \in Nat, M \in Nat, X \in Nat :
        /\ u = a.unread /\ B = FRAME_LEN * a.mult /\ F = FRAME_LEN /\ A = FAR_BUF_LEN
        /\ M = kBufSizeSamp /\ X = StuffFrames * FRAME_LEN
  <2>1. a.unread \in Nat /\ FRAME_LEN * a.mult \in Nat /\ StuffFrames * FRAME_LEN \in Nat
    BY ConstantTypes DEF AecMobile
  <2> QED
    BY <2>1, ConstantTypes
<1>2. PICK h \in Nat : h = S \div 2 /\ 2 * h <= S
  OBVIOUS
<1>3. PICK g \in Int : g = Lesser(Greater(h - u, F), X)
  <2>1. Lesser(Greater(h - u, F), X) \in Int
    BY DEF Lesser, Greater
  <2> QED
    BY <2>1
<1>4. g <= h - u \/ g <= F
  BY <1>3 DEF Lesser, Greater
<1>5. g >= 0
  BY <1>3 DEF Lesser, Greater
<1>6. u <= M
  BY <1>1, ConstantTypes DEF AecMobile
<1>7. DelayComp(a) = IF S - u > A - B THEN MoveReadPtr(a, -g) ELSE a
  BY <1>1, <1>2, <1>3 DEF DelayComp
<1>8. CASE S - u > A - B
  <2>1. MoveReadPtr(a, -g).unread = u - Greater(Lesser(-g, u), u - M)
    BY <1>1 DEF MoveReadPtr, AecMobile
  <2>2. PICK v \in Int : v = u - Greater(Lesser(-g, u), u - M) /\ v <= u + g
    <3>1. /\ u - Greater(Lesser(-g, u), u - M) \in Int
          /\ u - Greater(Lesser(-g, u), u - M) <= u + g
      BY <1>5, <1>6 DEF Lesser, Greater
    <3> QED
      BY <3>1
  <2>3. v <= h \/ v <= u + F
    BY <1>4, <2>2
  <2>4. 4 * v <= 3 * S \/ v <= S - A + B + F
    BY <1>2, <1>8, <2>3
  <2> QED
    BY <1>1, <1>7, <1>8, <2>1, <2>2, <2>4 DEF Usual
<1>9. CASE ~(S - u > A - B)
  BY <1>7, <1>9
<1> QED
  BY <1>8, <1>9

\* A usual backlog leaves room for a block.
LEMMA UsualFits ==
  ASSUME NEW ms \in Int, NEW m \in {1, 2}, Fits(ms, m), NEW u \in Nat,
         Usual(u, CardSamples(ms, m), FRAME_LEN * m)
  PROVE  u + FRAME_LEN * m <= kBufSizeSamp
<1>1. PICK S \in Int, B \in Nat : S = CardSamples(ms, m) /\ B = FRAME_LEN * m
  <2>1. Reported(ms) \in Nat
    BY ConstantTypes DEF Reported, Clamped
  <2>2. CardSamples(ms, m) \in Int /\ FRAME_LEN * m \in Nat
    BY <2>1, ConstantTypes DEF CardSamples
  <2> QED
    BY <2>2
<1>2. /\ 3 * S + 4 * B <= 4 * kBufSizeSamp
      /\ S + 2 * B + FRAME_LEN <= kBufSizeSamp + FAR_BUF_LEN
  BY <1>1 DEF Fits
<1>3. 4 * u <= 3 * S \/ u <= S - FAR_BUF_LEN + B + FRAME_LEN
  BY <1>1 DEF Usual
<1>4. u + B <= kBufSizeSamp
  BY <1>2, <1>3, ConstantTypes
<1> QED
  BY <1>1, <1>4

\* The delay suits the loop: see Fits.
LoopFits == \A ms \in MsValues, f \in SampFreqs \cap {8000, 16000} : Fits(ms, Mult(f))

\* What the lemmas about the loop's steps use of the invariant.
LEMMA LoopFacts ==
  ASSUME LoopFits, LInv, turn # "init"
  PROVE  /\ aecm \in AecMobile /\ aecm.mult \in {1, 2} /\ aecm.initFlag
         /\ card \in MsValues /\ card \in Int /\ Fits(card, aecm.mult)
         /\ Reported(card) \in Nat /\ CardSamples(card, aecm.mult) \in Nat
         /\ LCheck /\ LFill /\ LRun
<1>1. aecm \in AecMobile /\ aecm.mult \in {1, 2}
  BY DEF LInv, AecMobile
<1>2. card \in MsValues /\ card \in Int
  BY EchoControlMobileAssumption DEF LInv
<1>3. Fits(card, aecm.mult)
  BY <1>2 DEF LInv, LoopFits
<1>4. Reported(card) \in Nat
  BY <1>2, ConstantTypes DEF Reported, Clamped
<1>5. CardSamples(card, aecm.mult) \in Nat
  BY <1>1, <1>4, ConstantTypes DEF CardSamples
<1> QED
  BY <1>1, <1>2, <1>3, <1>4, <1>5 DEF LInv

LEMMA LBegin ==
  ASSUME LoopFits, LInv, Begin
  PROVE  LInv'
<1>1. PICK f \in SampFreqs : f \in {8000, 16000} /\ InitInstance(f)
  BY DEF Begin
<1>2. aecm' = Initialize(aecm, f) /\ fed' = << >> /\ lost' = 0 /\ turn' = "render" /\ card' = card
  BY <1>1 DEF InitInstance, Begin
<1>3. aecm \in AecMobile /\ card \in MsValues
  BY DEF LInv
<1>4. /\ aecm' \in AecMobile /\ aecm'.initFlag /\ aecm'.mult = Mult(f) /\ aecm'.unread = 0
      /\ aecm'.ECstartup /\ aecm'.checkBuffSize
  BY <1>2, <1>3, InitializeTypes
<1>5. aecm'.counter = 0
  BY <1>2 DEF Initialize, Created
<1>6. 0 \in 0..StableBlocks - 1 /\ 0 * (FRAME_LEN * aecm'.mult) = 0
  BY <1>4, ConstantTypes DEF Mult
<1>7. LCheck'
  BY <1>2, <1>4, <1>5, <1>6 DEF LCheck, Block
<1>8. LFill' /\ LRun'
  BY <1>4 DEF LFill, LRun
<1>9. WholeFrames'
  BY <1>4, ConstantTypes DEF WholeFrames
<1>10. \A i \in 1..Len(fed') : fed'[i] = "far"
  BY <1>2
<1>11. f \in SampFreqs \cap {8000, 16000}
  BY <1>1
<1> QED
  BY <1>2, <1>3, <1>4, <1>7, <1>8, <1>9, <1>10, <1>11 DEF LInv

\* Render finds room for its block.
LEMMA LRender ==
  ASSUME LoopFits, LInv, Render
  PROVE  LInv'
<1>1. turn = "render" /\ turn' = "capture" /\ card' = card /\ turn # "init"
  BY DEF Render
<1>2. /\ aecm \in AecMobile /\ aecm.mult \in {1, 2} /\ aecm.initFlag
      /\ card \in MsValues /\ card \in Int /\ Fits(card, aecm.mult)
      /\ Reported(card) \in Nat /\ CardSamples(card, aecm.mult) \in Nat
      /\ LCheck /\ LFill /\ LRun
  BY <1>1, LoopFacts
<1>3. PICK B \in Nat : B = FRAME_LEN * aecm.mult /\ B = Block /\ B \in {FRAME_LEN, 2 * FRAME_LEN}
  BY <1>2, LoopBlock DEF Block
<1>4. PICK S \in Nat : S = CardSamples(card, aecm.mult)
  BY <1>2
<1>5. PICK a : a = IF aecm.ECstartup THEN aecm ELSE DelayComp(aecm)
  OBVIOUS
<1>6. aecm' = Write(a, B) /\ lost' = B - Stored(a, B) /\ fed' = << >>
  BY <1>3, <1>5 DEF Render, BufferFarend
<1>7. SameButUnread(aecm, a)
  <2>1. SameButUnread(aecm, DelayComp(aecm))
    BY <1>2, DelayCompKeeps
  <2> QED
    BY <1>2, <1>5, <2>1 DEF SameButUnread
<1>8. a \in AecMobile
  BY <1>7 DEF SameButUnread
<1>9. SameButUnread(a, aecm')
  BY <1>6, <1>8, WriteKeeps
<1>10. PICK u \in Nat : u = a.unread
  BY <1>8 DEF AecMobile
<1>11. u + B <= kBufSizeSamp /\ (~aecm.ECstartup => Usual(u, S, B))
  <2>1. CASE aecm.ECstartup /\ aecm.checkBuffSize
    <3>1. PICK c \in Nat : c = aecm.counter /\ c + 1 <= StableBlocks /\ u = c * B
      <4>1. aecm.counter \in 0..StableBlocks - 1 /\ aecm.unread = aecm.counter * B
        BY <1>1, <1>2, <1>3, <2>1 DEF LCheck
      <4>2. aecm.counter \in Nat /\ aecm.counter + 1 <= StableBlocks
        BY <4>1, ConstantTypes
      <4> QED
        BY <1>5, <1>10, <2>1, <4>1, <4>2
    <3>2. PICK N \in Nat, e \in Nat : N = StableBlocks /\ N = (c + 1) + e
      <4>1. StableBlocks \in Nat /\ StableBlocks - (c + 1) \in Nat
        BY <3>1, ConstantTypes
      <4>2. StableBlocks = (c + 1) + (StableBlocks - (c + 1))
        BY <4>1
      <4> QED
        BY <4>1, <4>2
    <3>3. N * B = c * B + B + e * B /\ e * B \in Nat /\ c * B \in Nat
      BY <3>2
    <3>4. N * B <= kBufSizeSamp
      BY <1>2, <1>3, <3>2 DEF Fits
    <3>5. u + B <= kBufSizeSamp
      BY <3>1, <3>3, <3>4, ConstantTypes
    <3> QED
      BY <2>1, <3>5
  <2>2. CASE aecm.ECstartup /\ ~aecm.checkBuffSize
    <3>1. 4 * u <= 3 * S
      BY <1>1, <1>2, <1>4, <1>5, <1>10, <2>2 DEF LFill
    <3>2. Usual(u, CardSamples(card, aecm.mult), FRAME_LEN * aecm.mult)
      BY <1>4, <3>1 DEF Usual
    <3> QED
      BY <1>2, <1>3, <2>2, <3>2, UsualFits
  <2>3. CASE ~aecm.ECstartup
    <3>1. S = nSampSndCard(aecm)
      BY <1>2, <1>4, <2>3 DEF LRun, CardSamples, nSampSndCard
    <3>2. Usual(aecm.unread, S, FRAME_LEN * aecm.mult)
      BY <1>1, <1>2, <1>3, <1>4, <2>3 DEF LRun
    <3>3. Usual(DelayComp(aecm).unread, S, FRAME_LEN * aecm.mult)
      BY <1>2, <3>1, <3>2, DelayCompUsual
    <3>4. Usual(u, CardSamples(card, aecm.mult), FRAME_LEN * aecm.mult)
      BY <1>4, <1>5, <1>10, <2>3, <3>3
    <3>5. u + B <= kBufSizeSamp
      BY <1>2, <1>3, <3>4, UsualFits
    <3> QED
      BY <1>3, <1>4, <3>4, <3>5
  <2> QED
    BY <2>1, <2>2, <2>3
<1>12. Stored(a, B) = B /\ aecm'.unread = u + B
  <2>1. Stored(a, B) = B
    BY <1>10, <1>11, ConstantTypes DEF Stored, Lesser
  <2>2. Write(a, B).unread = a.unread + Stored(a, B)
    BY <1>8 DEF Write, AecMobile
  <2> QED
    BY <1>6, <1>10, <2>1, <2>2
<1>13. lost' = 0
  BY <1>6, <1>12
<1>14. /\ aecm' \in AecMobile /\ aecm'.mult = aecm.mult /\ aecm'.initFlag = aecm.initFlag
       /\ aecm'.ECstartup = aecm.ECstartup /\ aecm'.checkBuffSize = aecm.checkBuffSize
       /\ aecm'.counter = aecm.counter /\ aecm'.sum = aecm.sum /\ aecm'.firstVal = aecm.firstVal
       /\ aecm'.bufSizeStart = aecm.bufSizeStart /\ aecm'.msInSndCardBuf = aecm.msInSndCardBuf
  BY <1>7, <1>9 DEF SameButUnread
<1>15. LCheck'
  <2> SUFFICES ASSUME aecm'.ECstartup /\ aecm'.checkBuffSize
               PROVE  /\ aecm'.counter \in 0..StableBlocks - 1
                      /\ aecm'.unread = (aecm'.counter + 1) * Block'
                      /\ aecm'.counter > 0 => /\ aecm'.firstVal = Reported(card')
                                              /\ aecm'.sum = aecm'.counter * Reported(card')
    BY <1>1 DEF LCheck
  <2>1. /\ aecm.counter \in 0..StableBlocks - 1
        /\ aecm.unread = aecm.counter * B
        /\ aecm.counter > 0 => /\ aecm.firstVal = Reported(card)
                               /\ aecm.sum = aecm.counter * Reported(card)
    BY <1>1, <1>2, <1>3, <1>14 DEF LCheck
  <2>2. Block' = B
    BY <1>3, <1>14 DEF Block
  <2>3. u = aecm.counter * B
    BY <1>5, <1>10, <1>14, <2>1
  <2>4. PICK c \in Nat : c = aecm.counter
    BY <2>1, ConstantTypes
  <2>5. c * B + B = (c + 1) * B
    OBVIOUS
  <2> QED
    BY <1>1, <1>12, <1>14, <2>1, <2>2, <2>3, <2>4, <2>5
<1>16. LFill'
  BY <1>1, <1>2, <1>14 DEF LFill
<1>17. LRun'
  <2> SUFFICES ASSUME ~aecm'.ECstartup
               PROVE  /\ aecm'.msInSndCardBuf = Reported(card')
                      /\ aecm'.unread >= Block'
                      /\ Usual(aecm'.unread - Block', CardSamples(card', aecm'.mult), Block')
    BY <1>1 DEF LRun
  <2>1. Block' = B
    BY <1>3, <1>14 DEF Block
  <2>2. u + B - B = u /\ u + B >= B
    OBVIOUS
  <2>3. Usual(u, S, B) /\ aecm.msInSndCardBuf = Reported(card)
    BY <1>2, <1>11, <1>14 DEF LRun
  <2> QED
    BY <1>1, <1>4, <1>12, <1>14, <2>1, <2>2, <2>3
<1>18. WholeFrames'
  <2>1. ASSUME aecm'.ECstartup PROVE aecm'.unread % FRAME_LEN = 0
    <3>1. a = aecm /\ a.unread % FRAME_LEN = 0
      BY <1>5, <1>14, <2>1 DEF LInv, WholeFrames
    <3> QED
      BY <1>3, <1>6, <1>8, <3>1, WholeWrite
  <2> QED
    BY <2>1 DEF WholeFrames
<1>19. \A i \in 1..Len(fed') : fed'[i] = "far"
  BY <1>6
<1> QED
  BY <1>1, <1>2, <1>13, <1>14, <1>15, <1>16, <1>17, <1>18, <1>19 DEF LInv

\* Capture while the startup goes on or ends.
LEMMA LCaptureStartup ==
  ASSUME LoopFits, LInv, turn = "capture", turn' = "render", card' = card,
         ProcessStartup(Block, card)
  PROVE  LInv'
<1>1. /\ aecm \in AecMobile /\ aecm.mult \in {1, 2} /\ aecm.initFlag
      /\ card \in MsValues /\ card \in Int /\ Fits(card, aecm.mult)
      /\ Reported(card) \in Nat /\ CardSamples(card, aecm.mult) \in Nat
      /\ LCheck /\ LFill /\ LRun
  BY LoopFacts
<1>2. PICK r \in Nat : r = Reported(card)
  BY <1>1
<1>3. PICK S \in Nat : S = CardSamples(card, aecm.mult) /\ S = r * kSampMsNb * aecm.mult
  BY <1>1, <1>2 DEF CardSamples
<1>4. PICK B \in Nat : B = Block /\ B = FRAME_LEN * aecm.mult
  BY <1>1, LoopBlock DEF Block
<1>5. PICK a : a = SetMs(aecm, card)
  OBVIOUS
<1>6. SameButMs(aecm, a) /\ a.msInSndCardBuf = r
  <2>1. SameButMs(aecm, a)
    BY <1>1, <1>5, SetMsKeeps
  <2>2. a.msInSndCardBuf = r
    BY <1>1, <1>2, <1>5 DEF SetMs, AecMobile, Reported
  <2> QED
    BY <2>1, <2>2
<1>7. a \in AecMobile
  BY <1>6 DEF SameButMs
<1>8. PICK nb \in Nat : nb = 1
  OBVIOUS
<1>9. /\ aecm' = Startup(a, nb) /\ aecm.ECstartup /\ fed' = << >> /\ lost' = 0
  <2>1. (Block \div FRAME_LEN) \div aecm.mult = 1
    BY <1>1, LoopBlock DEF Block
  <2> QED
    BY <1>5, <1>8, <2>1 DEF ProcessStartup
<1>10. PICK b : b = IF a.checkBuffSize THEN CheckBufSize(a, nb) ELSE a
  OBVIOUS
<1>11. PICK s : s = Startup(a, nb)
  OBVIOUS
<1>12. a.ECstartup
  BY <1>6, <1>9 DEF SameButMs
<1>13. /\ s.counter = b.counter /\ s.firstVal = b.firstVal /\ s.sum = b.sum
       /\ s.checkBuffSize = b.checkBuffSize /\ s.bufSizeStart = b.bufSizeStart
       /\ s.msInSndCardBuf = a.msInSndCardBuf
       /\ s.ECstartup => b.checkBuffSize \/ nmbrOfFilledBuffers(a) < b.bufSizeStart
       /\ ~s.ECstartup => ~b.checkBuffSize
  BY <1>7, <1>10, <1>11, <1>12, StartupStep
<1>14. a.unread % FRAME_LEN = 0 /\ a.unread = aecm.unread
  BY <1>6, <1>9 DEF SameButMs, LInv, WholeFrames
<1>15. /\ s \in AecMobile /\ s.initFlag = a.initFlag /\ s.mult = a.mult
       /\ s.ECstartup => s.unread = a.unread
       /\ ~s.ECstartup => s.unread = Greater(s.bufSizeStart, 0) * FRAME_LEN
  <2>1. /\ s \in AecMobile /\ s.initFlag = a.initFlag /\ s.mult = a.mult
        /\ s.ECstartup => s.unread = a.unread \/ ~a.ECstartup
        /\ a.ECstartup /\ ~s.ECstartup /\ a.unread % FRAME_LEN = 0 =>
              s.unread = Greater(s.bufSizeStart, 0) * FRAME_LEN
    BY <1>7, <1>11, StartupTypes
  <2> QED
    BY <1>12, <1>14, <2>1
<1>16. /\ b.checkBuffSize =>
            /\ b.counter \in 1..StableBlocks - 1 /\ b.firstVal = r /\ b.sum = b.counter * r
            /\ a.unread = b.counter * B
       /\ ~b.checkBuffSize => /\ b.bufSizeStart \in Nat
                              /\ 4 * (b.bufSizeStart * FRAME_LEN) <= 3 * S
  <2>1. CASE a.checkBuffSize
    <3>1. b = CheckBufSize(a, 1)
      BY <1>8, <1>10, <2>1
    <3>2. /\ a.counter \in 0..StableBlocks - 1
          /\ a.unread = (a.counter + 1) * B
          /\ a.counter > 0 => a.firstVal = r /\ a.sum = a.counter * r
      BY <1>1, <1>2, <1>4, <1>6, <1>9, <2>1 DEF SameButMs, LCheck
    <3>3. StableBlocks < ShortRange \div 2 /\ StableBlocks * r < ShortRange \div 2
      BY <1>1, <1>2 DEF Fits
    <3>4. /\ b.counter = a.counter + 1 /\ b.firstVal = r /\ b.sum = (a.counter + 1) * r
          /\ b.checkBuffSize => b.counter \in 0..StableBlocks - 1
          /\ ~b.checkBuffSize =>
              /\ b.bufSizeStart \in Nat
              /\ 4 * (b.bufSizeStart * FRAME_LEN) <= 3 * (r * kSampMsNb * a.mult)
      BY <1>6, <1>7, <3>1, <3>2, <3>3, CheckInStep
    <3>5. b.checkBuffSize => b.counter \in 1..StableBlocks - 1
      BY <3>2, <3>4, ConstantTypes
    <3>6. r * kSampMsNb * a.mult = S
      BY <1>3, <1>6 DEF SameButMs
    <3> QED
      BY <3>2, <3>4, <3>5, <3>6
  <2>2. CASE ~a.checkBuffSize
    <3>1. b = a
      BY <1>10, <2>2
    <3>2. /\ aecm.bufSizeStart \in Nat
          /\ 4 * (aecm.bufSizeStart * FRAME_LEN) <= 3 * S
      BY <1>1, <1>3, <1>6, <1>9, <2>2 DEF LFill, SameButMs
    <3> QED
      BY <1>6, <2>2, <3>1, <3>2 DEF SameButMs
  <2> QED
    BY <2>1, <2>2
<1>17. aecm' = s /\ aecm'.mult = aecm.mult /\ Block' = B
  <2>1. aecm' = s /\ aecm'.mult = aecm.mult
    BY <1>6, <1>9, <1>11, <1>15 DEF SameButMs
  <2> QED
    BY <1>4, <2>1 DEF Block
<1>18. LCheck'
  <2> SUFFICES ASSUME aecm'.ECstartup /\ aecm'.checkBuffSize
               PROVE  /\ aecm'.counter \in 0..StableBlocks - 1
                      /\ aecm'.unread = aecm'.counter * Block'
                      /\ aecm'.counter > 0 => /\ aecm'.firstVal = Reported(card')
                                              /\ aecm'.sum = aecm'.counter * Reported(card')
    BY DEF LCheck
  <2>1. b.counter \in 1..StableBlocks - 1 /\ b.firstVal = r /\ b.sum = b.counter * r
        /\ a.unread = b.counter * B
    BY <1>13, <1>16, <1>17
  <2>2. b.counter \in 0..StableBlocks - 1
    BY <2>1, ConstantTypes
  <2> QED
    BY <1>2, <1>13, <1>15, <1>17, <2>1, <2>2
<1>19. LFill'
  <2> SUFFICES ASSUME aecm'.ECstartup /\ ~aecm'.checkBuffSize
               PROVE  /\ aecm'.bufSizeStart \in Nat
                      /\ 4 * (aecm'.bufSizeStart * FRAME_LEN) <= 3 * CardSamples(card', aecm'.mult)
                      /\ 4 * aecm'.unread <= 3 * CardSamples(card', aecm'.mult)
    BY DEF LFill
  <2>1. b.bufSizeStart \in Nat /\ 4 * (b.bufSizeStart * FRAME_LEN) <= 3 * S
    BY <1>13, <1>16, <1>17
  <2>2. nmbrOfFilledBuffers(a) < b.bufSizeStart
    BY <1>13, <1>17
  <2>3. PICK u \in Nat, F \in Nat \ {0}, z \in Nat :
          u = a.unread /\ F = FRAME_LEN /\ z = b.bufSizeStart
    BY <1>7, <2>1, ConstantTypes DEF AecMobile
  <2>4. u % F = 0 /\ u \div F < z
    BY <1>14, <2>2, <2>3 DEF nmbrOfFilledBuffers
  <2>5. PICK q \in Nat : q = u \div F
    OBVIOUS
  <2>6. u = F * (u \div F) + (u % F)
    OBVIOUS
  <2>7. u = q * F
    <3>1. F * q = q * F /\ q * F \in Nat
      OBVIOUS
    <3> QED
      BY <2>4, <2>5, <2>6, <3>1
  <2>8. q * F <= z * F
    <3>1. PICK e \in Nat : z = q + e
      <4>1. z - q \in Nat /\ z = q + (z - q)
        BY <2>4, <2>5
      <4> QED
        BY <4>1
    <3>2. z * F = q * F + e * F /\ e * F \in Nat /\ q * F \in Nat
      BY <3>1
    <3> QED
      BY <3>2
  <2>9. z * F \in Nat
    OBVIOUS
  <2>10. 4 * u <= 3 * S
    BY <2>1, <2>3, <2>7, <2>8, <2>9
  <2> QED
    BY <1>3, <1>13, <1>15, <1>17, <2>1, <2>3, <2>10
<1>20. LRun'
  <2> SUFFICES ASSUME ~aecm'.ECstartup
               PROVE  /\ aecm'.msInSndCardBuf = Reported(card')
                      /\ Usual(aecm'.unread, CardSamples(card', aecm'.mult), Block')
    BY DEF LRun
  <2>1. b.bufSizeStart \in Nat /\ 4 * (b.bufSizeStart * FRAME_LEN) <= 3 * S
    BY <1>13, <1>16, <1>17
  <2>2. Greater(b.bufSizeStart, 0) = b.bufSizeStart
    BY <2>1 DEF Greater
  <2>3. aecm'.unread = b.bufSizeStart * FRAME_LEN
    BY <1>13, <1>15, <1>17, <2>2
  <2> QED
    BY <1>2, <1>3, <1>6, <1>13, <1>17, <2>1, <2>3 DEF Usual
<1>21. WholeFrames'
  BY <1>14, <1>15, <1>17 DEF WholeFrames
<1>22. \A i \in 1..Len(fed') : fed'[i] = "far"
  BY <1>9
<1>23. aecm' \in AecMobile /\ aecm'.initFlag
  BY <1>1, <1>6, <1>15, <1>17 DEF SameButMs
<1> QED
  BY <1>1, <1>9, <1>17, <1>18, <1>19, <1>20, <1>21, <1>22, <1>23 DEF LInv

\* A smaller backlog is usual too.
LEMMA UsualSmaller ==
  ASSUME NEW u \in Int, NEW v \in Int, v <= u, NEW S \in Int, NEW B \in Int, Usual(u, S, B)
  PROVE  Usual(v, S, B)
BY ConstantTypes DEF Usual

\* Capture while the echo canceller runs: it finds the block render has left.
LEMMA LCaptureRunning ==
  ASSUME LoopFits, LInv, turn = "capture", turn' = "render", card' = card,
         ProcessRunning(Block, card, aecm.mult)
  PROVE  LInv'
<1>1. /\ aecm \in AecMobile /\ aecm.mult \in {1, 2} /\ aecm.initFlag
      /\ card \in MsValues /\ card \in Int /\ Fits(card, aecm.mult)
      /\ Reported(card) \in Nat /\ CardSamples(card, aecm.mult) \in Nat
      /\ LCheck /\ LFill /\ LRun
  BY LoopFacts
<1> DEFINE two == Block \div FRAME_LEN = 2 /\ aecm.mult > 0
<1>2. PICK a0, a1, a2 :
        /\ a0 = SetMs(aecm, card) /\ a1 = TakeFrame(a0, 0)
        /\ a2 = IF two THEN TakeFrame(a1, 1) ELSE a1
        /\ aecm' = a2
        /\ fed' = IF two THEN <<a1.farendOld[0], a2.farendOld[1]>> ELSE <<a1.farendOld[0]>>
  <2>1. \E a0 \in {SetMs(aecm, card)} :
        \E a1 \in {TakeFrame(a0, 0)} :
        \E a2 \in {IF two THEN TakeFrame(a1, 1) ELSE a1} :
          /\ aecm' = a2
          /\ fed' = IF two THEN <<a1.farendOld[0], a2.farendOld[1]>> ELSE <<a1.farendOld[0]>>
    BY DEF ProcessRunning
  <2> HIDE DEF two
  <2> QED
    BY <2>1
<1>3. lost' = 0 /\ ~aecm.ECstartup
  BY DEF ProcessRunning
<1>4. two <=> aecm.mult = 2
  <2>1. Block \div FRAME_LEN = aecm.mult
    BY <1>1, LoopBlock DEF Block
  <2> QED
    BY <1>1, <2>1
<1> HIDE DEF two
<1>5. SameButMs(aecm, a0) /\ a0.msInSndCardBuf = Reported(card)
  <2>1. SameButMs(aecm, a0)
    BY <1>1, <1>2, SetMsKeeps
  <2>2. a0.msInSndCardBuf = Reported(card)
    BY <1>1, <1>2 DEF SetMs, AecMobile, Reported
  <2> QED
    BY <2>1, <2>2
<1>6. a0 \in AecMobile /\ a0.mult = aecm.mult
  BY <1>5 DEF SameButMs
<1>7. PICK u \in Nat, F \in Nat \ {0}, S \in Nat, m \in {1, 2} :
        u = aecm.unread /\ F = FRAME_LEN /\ S = CardSamples(card, aecm.mult) /\ m = aecm.mult
  BY <1>1, ConstantTypes DEF AecMobile
<1>8. Block = F * m /\ u >= F * m /\ Usual(u - F * m, S, F * m)
  BY <1>1, <1>3, <1>7 DEF LRun, Block
<1>9. PICK x \in 0..1, y \in 0..1 : x = 0 /\ y = 1
  OBVIOUS
<1>10. Taken(a0, x, a1)
  <2>1. a1 = TakeFrame(a0, x)
    BY <1>2, <1>9
  <2>2. Taken(a0, x, TakeFrame(a0, x))
    BY <1>6, TakeFrameTypes
  <2> QED
    BY <2>1, <2>2
<1>11. a0.unread = u /\ u >= F
  <2>1. u >= F
    BY <1>7, <1>8
  <2> QED
    BY <1>5, <1>7, <2>1 DEF SameButMs
<1>12. /\ a1 \in AecMobile /\ a1.mult = m /\ a1.initFlag = a0.initFlag
       /\ a1.ECstartup = a0.ECstartup /\ a1.msInSndCardBuf = a0.msInSndCardBuf
       /\ a1.unread <= u - F /\ (m = 2 => a1.unread = u - F)
       /\ a1.farendOld[0] = "far"
  <2>1. 0 # m - 1 <=> m = 2
    BY <1>7
  <2> QED
    BY <1>6, <1>7, <1>9, <1>10, <1>11, <2>1 DEF Taken
<1>13. /\ aecm' \in AecMobile /\ aecm'.mult = m /\ aecm'.initFlag = a0.initFlag
       /\ aecm'.ECstartup = a0.ECstartup /\ aecm'.msInSndCardBuf = a0.msInSndCardBuf
       /\ aecm'.unread <= u - F * m
       /\ \A i \in 1..Len(fed') : fed'[i] = "far"
  <2>1. CASE m = 1
    <3>1. aecm' = a1 /\ fed' = <<a1.farendOld[0]>>
      BY <1>2, <1>4, <1>7, <2>1
    <3>2. \A i \in 1..Len(fed') : fed'[i] = "far"
      BY <1>12, <3>1
    <3>3. F * m = F
      BY <2>1
    <3> QED
      BY <1>12, <3>1, <3>2, <3>3
  <2>2. CASE m = 2
    <3>1. a2 = TakeFrame(a1, y) /\ aecm' = a2 /\ fed' = <<a1.farendOld[0], a2.farendOld[1]>>
      BY <1>2, <1>4, <1>7, <1>9, <2>2
    <3>2. Taken(a1, y, a2)
      BY <1>12, <3>1, TakeFrameTypes
    <3>3. a1.unread >= FRAME_LEN /\ a1.unread - F = u - F * m
      BY <1>7, <1>8, <1>12, <2>2
    <3>4. /\ a2 \in AecMobile /\ a2.mult = a1.mult /\ a2.initFlag = a1.initFlag
          /\ a2.ECstartup = a1.ECstartup /\ a2.msInSndCardBuf = a1.msInSndCardBuf
          /\ a2.unread <= a1.unread - FRAME_LEN /\ a2.farendOld[1] = "far"
      BY <1>9, <3>2, <3>3 DEF Taken
    <3>5. \A i \in 1..Len(fed') : fed'[i] = "far"
      BY <1>12, <3>1, <3>4
    <3> QED
      BY <1>7, <1>12, <3>1, <3>3, <3>4, <3>5
  <2> QED
    BY <2>1, <2>2
<1>14. ~aecm'.ECstartup /\ aecm'.initFlag /\ Block' = F * m
  <2>1. ~aecm'.ECstartup /\ aecm'.initFlag
    BY <1>1, <1>3, <1>5, <1>13 DEF SameButMs
  <2> QED
    BY <1>7, <1>13, <2>1 DEF Block
<1>15. Usual(aecm'.unread, S, F * m)
  <2>1. PICK v \in Int, w \in Int, B \in Int : v = aecm'.unread /\ w = u - F * m /\ B = F * m
    <3>1. aecm'.unread \in Int /\ F * m \in Int
      BY <1>13, ConstantTypes DEF AecMobile
    <3>2. u - F * m \in Int
      BY <3>1
    <3> QED
      BY <3>1, <3>2
  <2>2. v <= w /\ Usual(w, S, B)
    BY <1>8, <1>13, <2>1
  <2>3. Usual(v, S, B)
    BY <2>2, UsualSmaller
  <2> QED
    BY <2>1, <2>3
<1>16. LRun'
  BY <1>5, <1>7, <1>13, <1>14, <1>15 DEF LRun
<1>17. LCheck' /\ LFill' /\ WholeFrames'
  BY <1>14 DEF LCheck, LFill, WholeFrames
<1>18. \E f \in SampFreqs \cap {8000, 16000} : aecm'.mult = Mult(f)
  BY <1>7, <1>13 DEF LInv
<1> QED
  BY <1>1, <1>3, <1>13, <1>14, <1>16, <1>17, <1>18 DEF LInv

LEMMA LoopInvariant == ASSUME LoopFits PROVE LSpec => []LInv
<1>1. LInit => LInv
  <2> SUFFICES ASSUME LInit PROVE LInv
    OBVIOUS
  <2>1. aecm \in AecMobile /\ aecm.unread = 0
    BY CreatedTypes DEF LInit, Init, Created
  <2>2. WholeFrames
    BY <2>1, ConstantTypes DEF WholeFrames
  <2> QED
    BY <2>1, <2>2 DEF LInit, Init, LInv
<1>2. LInv /\ [LNext]_lvars => LInv'
  <2> SUFFICES ASSUME LInv, [LNext]_lvars PROVE LInv'
    OBVIOUS
  <2>1. CASE Begin
    BY <2>1, LBegin
  <2>2. CASE Render
    BY <2>2, LRender
  <2>3. CASE Capture
    BY <2>3, LCaptureStartup, LCaptureRunning DEF Capture
  <2>4. CASE UNCHANGED lvars
    BY <2>4 DEF lvars, vars, LInv, WholeFrames, LCheck, LFill, LRun, Block
  <2> QED
    BY <2>1, <2>2, <2>3, <2>4 DEF LNext
<1> QED
  BY <1>1, <1>2, PTL DEF LSpec

\* In main.cpp's loop, with any constant delay that suits the far-end buffer, no
\* far-end sample is dropped by a BufferFarend that returns 0, however long the
\* loop runs and whatever is stuffed or skipped on the way.
THEOREM LoopLosesNothing ==
  ASSUME LoopFits
  PROVE  LSpec => []NothingLost
<1>1. LInv => NothingLost
  BY DEF LInv, NothingLost
<1> QED
  BY <1>1, LoopInvariant, PTL

\* In that loop the core only ever gets far-end data of this session: the far
\* end never runs out, so what Init leaves in farendOld is never used.
THEOREM LoopFedDefined ==
  ASSUME LoopFits
  PROVE  LSpec => []FedIsDefined
<1>1. LInv => FedIsDefined
  BY DEF LInv, FedIsDefined
<1> QED
  BY <1>1, LoopInvariant, PTL
=============================================================================
