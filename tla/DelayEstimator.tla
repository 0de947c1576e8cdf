--------------------------- MODULE DelayEstimator ---------------------------
(***************************************************************************)
(* The binary delay estimator that AECM and AEC use to find the echo's     *)
(* delay (webrtc/modules/audio_processing/utility/delay_estimator.c and    *)
(* its wrapper delay_estimator_wrapper.c): one estimator and the far end   *)
(* it refers to.                                                           *)
(*                                                                         *)
(* A binary spectrum is a set of bits; the spectra that the thresholds of  *)
(* BinarySpectrumFix/Float produce are the inputs FarSpectra and           *)
(* NearSpectra.  bit_counts is scratch and has no variable.  Histogram     *)
(* values are multiples of 2^-14, so they are counted in that unit; the    *)
(* code's floats agree with this up to their rounding.                     *)
(***************************************************************************)
EXTENDS Integers, FiniteSets

CONSTANTS
  NumBits,                        \* bits of a binary spectrum (32)
  FarSpectra, NearSpectra,        \* the binary spectra the wrapper may produce
  HistorySize, MaxLookahead,      \* arguments of the two Create calls
  One,                            \* 1 in the means' Q9 format (1 << 9)
  InitialMean,                    \* 20 << 9
  kShiftsAtZero, kShiftsLinearSlope,
  kProbabilityOffset, kProbabilityLowerLimit, kProbabilityMinSpread,
  kHistogramMax, kLastHistogramMax, kMinHistogramThreshold,
  kMinRequiredHits, kMaxHitsWhenPossiblyNonCausal, kMaxHitsWhenPossiblyCausal,
  DelayShifts,                    \* arguments of the soft resets
  Offsets,                        \* arguments of set_allowed_offset
  MaxHits, MaxProbability         \* bounds on two unbounded counters

Bits == 1..NumBits

kMaxBitCountsQ9 == NumBits * One

\* The right shifts of one update of a mean, by the far end's bit count.
Shifts(count) == kShiftsAtZero - (kShiftsLinearSlope * count) \div 16

ASSUME SizesAssumption ==
  /\ NumBits \in Nat \ {0}
  /\ HistorySize \in Nat /\ HistorySize > 1
  /\ MaxLookahead \in Nat
  /\ FarSpectra \subseteq SUBSET Bits
  /\ NearSpectra \subseteq SUBSET Bits
  /\ DelayShifts \subseteq Int
  /\ Offsets \subseteq Nat

ASSUME MeanAssumption ==
  /\ One \in Nat \ {0}
  /\ InitialMean \in Nat /\ InitialMean < kMaxBitCountsQ9
  /\ kShiftsAtZero \in Nat /\ kShiftsLinearSlope \in Nat

\* An update of a mean always divides the difference by at least two.
ASSUME StepAssumption ==
  \A count \in 1..NumBits : 2^Shifts(count) \in Nat /\ 2^Shifts(count) > 1

ASSUME ThresholdAssumption ==
  /\ kProbabilityOffset \in Nat
  /\ kProbabilityLowerLimit \in Nat
  /\ kProbabilityMinSpread \in Nat
  /\ kHistogramMax \in Nat \ {0}
  /\ kLastHistogramMax \in Nat
  /\ kMinHistogramThreshold \in Nat
  /\ kMinRequiredHits \in Nat
  /\ kMaxHitsWhenPossiblyNonCausal \in Nat
  /\ kMaxHitsWhenPossiblyCausal \in Nat

VARIABLES
  far_history_size, binary_far_history, far_bit_counts,
  history_size, binary_near_history, lookahead, mean_bit_counts,
  minimum_probability, last_delay_probability,
  last_delay, last_candidate_delay, compare_delay, candidate_hits,
  histogram, last_delay_histogram,
  robust_validation_enabled, allowed_offset,
  since    \* history: Process calls since last_delay last changed, up to a limit

farVars  == <<far_history_size, binary_far_history, far_bit_counts>>
config   == <<lookahead, robust_validation_enabled, allowed_offset>>
estimate == <<minimum_probability, last_delay_probability, last_delay,
              last_candidate_delay, compare_delay, candidate_hits,
              last_delay_histogram, since>>
memory   == <<history_size, mean_bit_counts, histogram>>
vars     == <<farVars, config, estimate, memory, binary_near_history>>

-----------------------------------------------------------------------------
(* Helpers.                                                                *)

Larger(a, b)  == IF a > b THEN a ELSE b
Smaller(a, b) == IF a < b THEN a ELSE b

BitCount(u) == Cardinality(u)

Xor(u, v) == (u \ v) \cup (v \ u)

Empty(size) == [i \in 0..size - 1 |-> {}]

Zeros(size) == [i \in 0..size - 1 |-> 0]

\* The history after a new value: everything one place older.
Pushed(h, x) == [i \in DOMAIN h |-> IF i = 0 THEN x ELSE h[i - 1]]

\* A history moved by a number of blocks, the vacated places filled.
Moved(h, size, shift, fill) ==
  [i \in 0..size - 1 |-> IF i - shift \in 0..size - 1 THEN h[i - shift] ELSE fill]

\* Mutant: the difference is rounded away from zero.
MeanEstimatorRoundsUp(new_value, factor, mean_value) ==
  IF new_value < mean_value
    THEN mean_value - (mean_value - new_value + 2^factor - 1) \div 2^factor
    ELSE mean_value + (new_value - mean_value + 2^factor - 1) \div 2^factor

\* The difference is rounded toward zero, whatever its sign.
MeanEstimatorFix(new_value, factor, mean_value) ==
  IF new_value < mean_value
    THEN mean_value - (mean_value - new_value) \div 2^factor
    ELSE mean_value + (new_value - mean_value) \div 2^factor

-----------------------------------------------------------------------------
(* The far end.                                                            *)

InitBinaryDelayEstimatorFarend ==
  /\ binary_far_history' = Empty(far_history_size)
  /\ far_bit_counts' = Zeros(far_history_size)
  /\ UNCHANGED <<far_history_size, config, estimate, memory, binary_near_history>>

AddBinaryFarSpectrum(u) ==
  /\ binary_far_history' = Pushed(binary_far_history, u)
  /\ far_bit_counts' = Pushed(far_bit_counts, BitCount(u))
  /\ UNCHANGED <<far_history_size, config, estimate, memory, binary_near_history>>

\* Mutant: only the spectra are moved.
SoftResetFarendForgetsCounts(shift) ==
  /\ shift \in -(far_history_size - 1)..far_history_size - 1
  /\ binary_far_history' = Moved(binary_far_history, far_history_size, shift, {})
  /\ UNCHANGED <<far_history_size, far_bit_counts, config, estimate, memory,
                 binary_near_history>>

\* Guarded by the code's assertion: something of the history must remain.
SoftResetBinaryDelayEstimatorFarend(shift) ==
  /\ shift \in -(far_history_size - 1)..far_history_size - 1
  /\ binary_far_history' = Moved(binary_far_history, far_history_size, shift, {})
  /\ far_bit_counts' = Moved(far_bit_counts, far_history_size, shift, 0)
  /\ UNCHANGED <<far_history_size, config, estimate, memory, binary_near_history>>

-----------------------------------------------------------------------------
(* The estimator's settings.                                               *)

\* Mutant: the lookahead is not kept within its history.
SoftResetUnlimited(shift) ==
  /\ lookahead' = lookahead - shift
  /\ UNCHANGED <<farVars, robust_validation_enabled, allowed_offset, estimate, memory,
                 binary_near_history>>

SoftResetBinaryDelayEstimator(shift) ==
  /\ lookahead' = Smaller(Larger(lookahead - shift, 0), MaxLookahead)
  /\ UNCHANGED <<farVars, robust_validation_enabled, allowed_offset, estimate, memory,
                 binary_near_history>>

set_lookahead(n) ==
  /\ lookahead' = n
  /\ UNCHANGED <<farVars, robust_validation_enabled, allowed_offset, estimate, memory,
                 binary_near_history>>

set_allowed_offset(n) ==
  /\ allowed_offset' = n
  /\ UNCHANGED <<farVars, lookahead, robust_validation_enabled, estimate, memory,
                 binary_near_history>>

enable_robust_validation(enable) ==
  /\ robust_validation_enabled' = enable
  /\ UNCHANGED <<farVars, lookahead, allowed_offset, estimate, memory, binary_near_history>>

InitBinaryDelayEstimator ==
  /\ binary_near_history' = Empty(MaxLookahead + 1)
  /\ mean_bit_counts' = [i \in 0..history_size |-> InitialMean]
  /\ histogram' = [i \in 0..history_size |-> 0]
  /\ minimum_probability' = kMaxBitCountsQ9
  /\ last_delay_probability' = kMaxBitCountsQ9
  /\ last_delay' = -2
  /\ last_candidate_delay' = -2
  /\ compare_delay' = history_size
  /\ candidate_hits' = 0
  /\ last_delay_histogram' = 0
  /\ since' = 0
  /\ UNCHANGED <<farVars, config, history_size>>

-----------------------------------------------------------------------------
(* One near-end block.                                                     *)

\* The means after comparing the near-end spectrum u with every far-end one.
\* A delay whose far-end spectrum is empty has nothing to contribute.
UpdatedMeans(u) ==
  [i \in DOMAIN mean_bit_counts |->
     IF i < history_size /\ far_bit_counts[i] > 0
       THEN MeanEstimatorFix(BitCount(Xor(u, binary_far_history[i])) * One,
                             Shifts(far_bit_counts[i]), mean_bit_counts[i])
       ELSE mean_bit_counts[i]]

\* The first of the smallest means, if one is below the maximum.
IsCandidate(c, m) ==
  /\ m[c] < kMaxBitCountsQ9
  /\ \A i \in 0..history_size - 1 : m[c] <= m[i]
  /\ \A i \in 0..c - 1 : m[c] < m[i]

\* The first of the largest means.
IsWorst(w, m) ==
  /\ \A i \in 0..history_size - 1 : m[i] <= m[w]
  /\ \A i \in 0..w - 1 : m[i] < m[w]

NewMinimumProbability(best, depth) ==
  IF minimum_probability > kProbabilityLowerLimit /\ depth > kProbabilityMinSpread
    THEN Smaller(minimum_probability,
                 Larger(best + kProbabilityOffset, kProbabilityLowerLimit))
    ELSE minimum_probability

InstantaneousValid(best, depth) ==
  /\ depth > kProbabilityOffset
  /\ best < minimum_probability' \/ best < last_delay_probability + 1

\* Mutant: a new candidate inherits the hits of the one before.
HitsInherited(c) == candidate_hits + 1

Hits(c) == IF c = last_candidate_delay THEN candidate_hits + 1 ELSE 1

\* How fast the histogram decays near the last delay.
DecreaseInLastSet(c, m, depth) ==
  LET max_hits_for_slow_change == IF c < last_delay THEN kMaxHitsWhenPossiblyNonCausal
                                                    ELSE kMaxHitsWhenPossiblyCausal
  IN  IF Hits(c) < max_hits_for_slow_change THEN m[compare_delay] - m[c] ELSE depth

\* Mutant: the candidate's value has no upper limit.
UpdatedHistogramUnlimited(c, depth, decrease) ==
  [i \in DOMAIN histogram |->
     LET added == IF i = c THEN histogram[i] + depth ELSE histogram[i]
     IN  IF i >= history_size \/ i \in c - 2..c + 1 THEN added
         ELSE Larger(added - depth, 0)]

\* The histogram as UpdateRobustValidationStatistics leaves it.
UpdatedHistogram(c, depth, decrease) ==
  [i \in DOMAIN histogram |->
     LET added == IF i = c THEN Smaller(histogram[i] + depth, kHistogramMax)
                           ELSE histogram[i]
         inLastSet == i \in last_delay - 2..last_delay + 1 /\ i # c
         inCandidateSet == i \in c - 2..c + 1
     IN  IF i >= history_size THEN added
         ELSE IF inLastSet THEN Larger(added - decrease, 0)
         ELSE IF inCandidateSet THEN Larger(added, 0)
         ELSE Larger(added - depth, 0)]

\* The share, in twentieths, of the last delay's histogram value to reach.
Fraction(c) ==
  LET difference == c - last_delay
  IN  IF difference > allowed_offset
        THEN Larger(20 - (difference - allowed_offset), 10)
      ELSE IF difference < 0 THEN Smaller(5 - difference, 20)
      ELSE 20

HistogramBasedValidation(c, h) ==
  /\ 20 * h[c] >= Larger(Fraction(c) * h[compare_delay], 20 * kMinHistogramThreshold)
  /\ Hits(c) > kMinRequiredHits

RobustValidation(c, h, instantaneous, histogramValid) ==
  \/ last_delay < 0 /\ (instantaneous \/ histogramValid)
  \/ instantaneous /\ histogramValid
  \/ histogramValid /\ h[c] > last_delay_histogram

\* Mutant: the validation goes on comparing with the old estimate.
AcceptKeepsComparing(c, best, h) ==
  /\ last_delay' = c
  /\ last_delay_probability' = Smaller(best, last_delay_probability + 1)
  /\ histogram' = h
  /\ last_delay_histogram' = Smaller(h[c], kLastHistogramMax)
  /\ UNCHANGED compare_delay

ValidCandidate(c, h, best, depth) ==
  IF robust_validation_enabled
    THEN RobustValidation(c, h, InstantaneousValid(best, depth),
                          HistogramBasedValidation(c, h))
    ELSE InstantaneousValid(best, depth)

\* The candidate becomes the estimate.  If its histogram value is below the old
\* estimate's, that one is lowered to it.
Accept(c, best, h) ==
  /\ last_delay' = c
  /\ compare_delay' = c
  /\ last_delay_probability' = Smaller(best, last_delay_probability + 1)
  /\ IF c = last_delay
       THEN /\ histogram' = h
            /\ UNCHANGED last_delay_histogram
       ELSE /\ histogram' = [h EXCEPT ![compare_delay] = Smaller(h[c], @)]
            /\ last_delay_histogram' = Smaller(h[c], kLastHistogramMax)

Reject(h) ==
  /\ last_delay_probability' = last_delay_probability + 1
  /\ histogram' = h
  /\ UNCHANGED <<last_delay, compare_delay, last_delay_histogram>>

\* The part of the step that follows the update of the means to m, whose first
\* smallest is at c and largest at w.
Decide(m, c, w) ==
  \E depth \in {m[w] - m[c]} :
    /\ minimum_probability' = NewMinimumProbability(m[c], depth)
    /\ last_candidate_delay' = c
    /\ candidate_hits' = Hits(c)
    /\ \E h \in {UpdatedHistogram(c, depth, DecreaseInLastSet(c, m, depth))} :
         IF ValidCandidate(c, h, m[c], depth) THEN Accept(c, m[c], h) ELSE Reject(h)

\* The spectrum that was the near end's, lookahead blocks ago.
Delayed(u) == IF MaxLookahead > 0 THEN binary_near_history'[lookahead] ELSE u

ProcessBinarySpectrum(u) ==
  /\ far_history_size = history_size
  /\ candidate_hits < MaxHits /\ last_delay_probability < MaxProbability
  /\ binary_near_history' = IF MaxLookahead > 0 THEN Pushed(binary_near_history, u)
                                                ELSE binary_near_history
  /\ mean_bit_counts' = UpdatedMeans(Delayed(u))
  /\ \E c, w \in 0..history_size - 1 :
       /\ IsCandidate(c, mean_bit_counts') /\ IsWorst(w, mean_bit_counts')
       /\ Decide(mean_bit_counts', c, w)
  /\ since' = IF last_delay' # last_delay THEN 0
              ELSE Smaller(since + 1, kMinRequiredHits + 1)
  /\ UNCHANGED <<farVars, config, history_size>>

-----------------------------------------------------------------------------
Init ==
  /\ far_history_size = HistorySize /\ history_size = HistorySize
  /\ binary_far_history = Empty(HistorySize)
  /\ far_bit_counts = Zeros(HistorySize)
  /\ binary_near_history = Empty(MaxLookahead + 1)
  /\ lookahead = MaxLookahead
  /\ robust_validation_enabled = FALSE
  /\ allowed_offset = 0
  /\ mean_bit_counts = [i \in 0..HistorySize |-> InitialMean]
  /\ histogram = [i \in 0..HistorySize |-> 0]
  /\ minimum_probability = kMaxBitCountsQ9
  /\ last_delay_probability = kMaxBitCountsQ9
  /\ last_delay = -2 /\ last_candidate_delay = -2
  /\ compare_delay = HistorySize
  /\ candidate_hits = 0
  /\ last_delay_histogram = 0
  /\ since = 0

Next ==
  \/ InitBinaryDelayEstimatorFarend
  \/ InitBinaryDelayEstimator
  \/ \E u \in FarSpectra : AddBinaryFarSpectrum(u)
  \/ \E u \in NearSpectra : ProcessBinarySpectrum(u)
  \/ \E shift \in DelayShifts : SoftResetBinaryDelayEstimatorFarend(shift)
  \/ \E shift \in DelayShifts : SoftResetBinaryDelayEstimator(shift)
  \/ \E n \in 0..MaxLookahead : set_lookahead(n)
  \/ \E n \in Offsets : set_allowed_offset(n)
  \/ \E enable \in BOOLEAN : enable_robust_validation(enable)

Spec == Init /\ [][Next]_vars

-----------------------------------------------------------------------------
(* Properties.                                                             *)

TypeOK ==
  /\ far_history_size \in Nat /\ history_size \in Nat
  /\ binary_far_history \in [0..far_history_size - 1 -> SUBSET Bits]
  /\ far_bit_counts \in [0..far_history_size - 1 -> 0..NumBits]
  /\ binary_near_history \in [0..MaxLookahead -> SUBSET Bits]
  /\ lookahead \in 0..MaxLookahead
  /\ mean_bit_counts \in [0..history_size -> Nat]
  /\ histogram \in [0..history_size -> Nat]
  /\ minimum_probability \in Nat /\ last_delay_probability \in Nat
  /\ last_delay \in Int /\ last_candidate_delay \in Int
  /\ compare_delay \in Nat /\ candidate_hits \in Nat /\ last_delay_histogram \in Nat
  /\ robust_validation_enabled \in BOOLEAN
  /\ allowed_offset \in Nat
  /\ since \in Nat

\* Every mean stays below the value the search for the best candidate starts
\* from, so the search always finds one and the histogram is never indexed with
\* the -1 it starts from.
CandidateExists == \A i \in 0..history_size - 1 : mean_bit_counts[i] < kMaxBitCountsQ9

\* far_bit_counts describes binary_far_history through every push and shift
\* of the two arrays.
CountsMatch ==
  \A i \in 0..far_history_size - 1 : far_bit_counts[i] = BitCount(binary_far_history[i])

\* The estimate is -2 or a delay of the history, and the cell the validation
\* compares with is the estimate's or, before there is one, the dummy cell.
DelayInRange ==
  \/ last_delay = -2 /\ compare_delay = history_size
  \/ last_delay \in 0..history_size - 1 /\ compare_delay = last_delay

\* WebRtc_last_delay_quality as a fraction.
last_delay_quality ==
  IF robust_validation_enabled
    THEN [value |-> histogram[compare_delay], of |-> kHistogramMax]
    ELSE [value |-> Larger(kMaxBitCountsQ9 - last_delay_probability, 0),
          of |-> kMaxBitCountsQ9]

\* The quality of an estimate is a number between 0 and 1, whichever validation
\* is enabled and whatever was enabled before.
QualityInRange ==
  last_delay_quality.value >= 0 /\ last_delay_quality.value <= last_delay_quality.of

\* With robust validation an estimate is replaced by another one only after it
\* has stood for kMinRequiredHits blocks: no candidate can build up its hits
\* before the current estimate was made.
RobustChangesAreSpaced ==
  [][robust_validation_enabled /\ last_delay >= 0 /\ last_delay' \notin {last_delay, -2}
       => since >= kMinRequiredHits]_vars

=============================================================================
