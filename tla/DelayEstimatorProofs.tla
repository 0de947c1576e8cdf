------------------------- MODULE DelayEstimatorProofs -------------------------
(***************************************************************************)
(* What the delay estimator guarantees for every history size, lookahead,  *)
(* set of spectra and setting of its thresholds, as long as the history    *)
(* size is not changed after Create (DelayEstimator's Spec).               *)
(***************************************************************************)
EXTENDS DelayEstimator, FiniteSetTheorems, TLAPS

(* Arithmetic of the mean estimator. *)

\* A right shift by at least one makes a positive number smaller.
LEMMA HalvingShrinks ==
  ASSUME NEW x \in Nat, NEW d \in Nat, d > 1
  PROVE  /\ x \div d \in Nat
         /\ x \div d <= x
         /\ x > 0 => x \div d < x
OBVIOUS

\* A product grows with its first factor.
LEMMA ProductMonotonic ==
  ASSUME NEW x \in Nat, NEW n \in Nat, NEW o \in Nat, x <= n
  PROVE  x * o \in Nat /\ x * o <= n * o
OBVIOUS

\* The mean estimator moves a mean toward the new value without reaching it, so
\* a mean below the maximum stays below it.
LEMMA MeanStaysBelow ==
  ASSUME NEW max \in Nat, NEW value \in Nat, value <= max,
         NEW mean \in Nat, mean < max,
         NEW factor, 2^factor \in Nat, 2^factor > 1
  PROVE  /\ MeanEstimatorFix(value, factor, mean) \in Nat
         /\ MeanEstimatorFix(value, factor, mean) < max
<1> DEFINE d == 2^factor
<1>1. d \in Nat /\ d > 1
  OBVIOUS
<1> HIDE DEF d
<1>2. CASE value < mean
  <2>1. PICK x \in Nat : x = mean - value
    BY <1>2
  <2>2. x \div d \in Nat /\ x \div d <= x
    BY <1>1, HalvingShrinks
  <2>3. MeanEstimatorFix(value, factor, mean) = mean - x \div d
    BY <1>2, <2>1 DEF MeanEstimatorFix, d
  <2> QED
    BY <2>1, <2>2, <2>3
<1>3. CASE ~(value < mean)
  <2>1. PICK x \in Nat : x = value - mean
    BY <1>3
  <2>2. x \div d \in Nat /\ x \div d <= x /\ (x > 0 => x \div d < x)
    BY <1>1, HalvingShrinks
  <2>3. MeanEstimatorFix(value, factor, mean) = mean + x \div d
    BY <1>3, <2>1 DEF MeanEstimatorFix, d
  <2> QED
    BY <2>1, <2>2, <2>3
<1> QED
  BY <1>2, <1>3

\* Two binary spectra differ in at most NumBits bits.
LEMMA BitCountBound ==
  ASSUME NEW u \in SUBSET Bits
  PROVE  BitCount(u) \in 0..NumBits
<1>1. NumBits \in Nat
  BY SizesAssumption
<1>2. IsFiniteSet(Bits) /\ Cardinality(Bits) = NumBits
  BY <1>1, FS_Interval DEF Bits
<1>3. Cardinality(u) \in Nat /\ Cardinality(u) <= Cardinality(Bits)
  BY <1>2, FS_Subset, FS_CardinalityType
<1> QED
  BY <1>1, <1>2, <1>3 DEF BitCount

LEMMA MaximumType == kMaxBitCountsQ9 \in Nat
  BY SizesAssumption, MeanAssumption DEF kMaxBitCountsQ9

-----------------------------------------------------------------------------
(* The inductive invariant. *)

\* Without set_history_size the two history sizes are those of Create.
SizesFixed == far_history_size = HistorySize /\ history_size = HistorySize

HistogramLimited == \A i \in 0..history_size : histogram[i] <= kHistogramMax

\* A candidate other than the estimate has collected its hits since the estimate
\* was made.
HitsAfterChange ==
  last_delay >= 0 /\ last_candidate_delay # last_delay
    => candidate_hits <= since \/ since > kMinRequiredHits

IInv ==
  /\ TypeOK
  /\ SizesFixed
  /\ CountsMatch
  /\ CandidateExists
  /\ DelayInRange
  /\ HistogramLimited
  /\ HitsAfterChange

\* The means after one block are natural numbers below the maximum.
LEMMA MeansStayBelow ==
  ASSUME TypeOK, SizesFixed, CandidateExists, NEW u \in SUBSET Bits
  PROVE  /\ UpdatedMeans(u) \in [0..HistorySize -> Nat]
         /\ \A i \in 0..HistorySize - 1 : UpdatedMeans(u)[i] < kMaxBitCountsQ9
<1>1. /\ mean_bit_counts \in [0..HistorySize -> Nat]
      /\ DOMAIN mean_bit_counts = 0..HistorySize
      /\ HistorySize \in Nat
  BY SizesAssumption DEF TypeOK, SizesFixed
<1>2. ASSUME NEW i \in 0..HistorySize - 1, far_bit_counts[i] > 0
      PROVE  LET new == MeanEstimatorFix(BitCount(Xor(u, binary_far_history[i])) * One,
                                         Shifts(far_bit_counts[i]), mean_bit_counts[i])
             IN  new \in Nat /\ new < kMaxBitCountsQ9
  <2> DEFINE x == BitCount(Xor(u, binary_far_history[i]))
             f == Shifts(far_bit_counts[i])
  <2>1. x \in 0..NumBits
    <3>1. binary_far_history[i] \in SUBSET Bits
      BY DEF TypeOK, SizesFixed
    <3>2. Xor(u, binary_far_history[i]) \in SUBSET Bits
      BY <3>1 DEF Xor
    <3> QED
      BY <3>2, BitCountBound
  <2>2. 2^f \in Nat /\ 2^f > 1
    <3>1. far_bit_counts[i] \in 1..NumBits
      BY <1>2, SizesAssumption DEF TypeOK, SizesFixed
    <3> QED
      BY <3>1, StepAssumption
  <2>3. mean_bit_counts[i] \in Nat /\ mean_bit_counts[i] < kMaxBitCountsQ9
    BY <1>1 DEF CandidateExists, SizesFixed
  <2> HIDE DEF x, f
  <2>4. x * One \in Nat /\ x * One <= kMaxBitCountsQ9
    BY <2>1, ProductMonotonic, SizesAssumption, MeanAssumption DEF kMaxBitCountsQ9
  <2>5. /\ MeanEstimatorFix(x * One, f, mean_bit_counts[i]) \in Nat
        /\ MeanEstimatorFix(x * One, f, mean_bit_counts[i]) < kMaxBitCountsQ9
    BY <2>2, <2>3, <2>4, MaximumType, MeanStaysBelow
  <2> QED
    BY <2>5 DEF x, f
<1>3. ASSUME NEW i \in 0..HistorySize
      PROVE  UpdatedMeans(u)[i] \in Nat /\ (i < HistorySize => UpdatedMeans(u)[i] < kMaxBitCountsQ9)
  <2>1. CASE i < HistorySize /\ far_bit_counts[i] > 0
    <3>1. i \in 0..HistorySize - 1
      BY <1>1, <2>1
    <3>2. UpdatedMeans(u)[i] =
            MeanEstimatorFix(BitCount(Xor(u, binary_far_history[i])) * One,
                             Shifts(far_bit_counts[i]), mean_bit_counts[i])
      BY <1>1, <2>1 DEF UpdatedMeans, SizesFixed
    <3> QED
      BY <1>2, <2>1, <3>1, <3>2
  <2>2. CASE ~(i < HistorySize /\ far_bit_counts[i] > 0)
    <3>1. UpdatedMeans(u)[i] = mean_bit_counts[i]
      BY <1>1, <2>2 DEF UpdatedMeans, SizesFixed
    <3> QED
      BY <1>1, <3>1 DEF CandidateExists, SizesFixed
  <2> QED
    BY <2>1, <2>2
<1>4. UpdatedMeans(u) = [i \in 0..HistorySize |-> UpdatedMeans(u)[i]]
  BY <1>1 DEF UpdatedMeans
<1> QED
  BY <1>1, <1>3, <1>4

\* What the decision needs of the estimate, the means m after the block, the
\* candidate c and the worst delay w.
Decidable(m, c, w) ==
  /\ TypeOK /\ SizesFixed /\ DelayInRange /\ HistogramLimited
  /\ m \in [0..HistorySize -> Nat]
  /\ c \in 0..HistorySize - 1 /\ w \in 0..HistorySize - 1
  /\ \A i \in 0..HistorySize - 1 : m[c] <= m[i] /\ m[i] <= m[w]

\* The amount the bins around the estimate lose is never negative: the estimate's
\* own mean is compared with the smallest one.  Before there is an estimate no
\* bin is in that set.
LEMMA DecreaseIsNatural ==
  ASSUME NEW m, NEW c, NEW w, Decidable(m, c, w)
  PROVE  /\ m[w] - m[c] \in Nat
         /\ DecreaseInLastSet(c, m, m[w] - m[c]) \in Int
         /\ last_delay >= 0 => DecreaseInLastSet(c, m, m[w] - m[c]) \in Nat
<1>1. /\ m[c] \in Nat /\ m[w] \in Nat /\ m[c] <= m[w]
      /\ compare_delay \in 0..HistorySize /\ m[compare_delay] \in Nat
      /\ last_delay >= 0 => m[c] <= m[compare_delay]
  BY SizesAssumption DEF Decidable, DelayInRange, SizesFixed
<1>2. PICK b, v, t \in Nat : b = m[c] /\ v = m[w] /\ t = m[compare_delay]
  BY <1>1
<1>3. v - b \in Nat /\ t - b \in Int /\ (last_delay >= 0 => t - b \in Nat)
  BY <1>1, <1>2
<1>4. \/ DecreaseInLastSet(c, m, v - b) = t - b
      \/ DecreaseInLastSet(c, m, v - b) = v - b
  BY <1>2 DEF DecreaseInLastSet
<1>5. m[w] - m[c] = v - b
  BY <1>2
<1> HIDE DEF DecreaseInLastSet
<1> QED
  BY <1>3, <1>4, <1>5

\* No bin of the histogram leaves 0..kHistogramMax.
LEMMA HistogramStaysLimited ==
  ASSUME TypeOK, SizesFixed, HistogramLimited,
         last_delay = -2 \/ last_delay \in Nat,
         NEW c \in 0..HistorySize - 1, NEW depth \in Nat,
         NEW decrease \in Int, last_delay >= 0 => decrease \in Nat
  PROVE  UpdatedHistogram(c, depth, decrease) \in [0..HistorySize -> 0..kHistogramMax]
<1>1. /\ histogram \in [0..HistorySize -> Nat] /\ DOMAIN histogram = 0..HistorySize
      /\ HistorySize \in Nat /\ kHistogramMax \in Nat /\ history_size = HistorySize
  BY SizesAssumption, ThresholdAssumption DEF TypeOK, SizesFixed
<1>2. ASSUME NEW i \in 0..HistorySize
      PROVE  UpdatedHistogram(c, depth, decrease)[i] \in 0..kHistogramMax
  <2>1. PICK x \in Nat : x = histogram[i] /\ x <= kHistogramMax
    BY <1>1 DEF HistogramLimited
  <2>2. PICK a \in Nat : a = IF i = c THEN Smaller(x + depth, kHistogramMax) ELSE x
    BY <1>1, <2>1 DEF Smaller
  <2>3. a <= kHistogramMax
    BY <1>1, <2>1, <2>2 DEF Smaller
  <2>4. UpdatedHistogram(c, depth, decrease)[i] =
          IF i >= HistorySize THEN a
          ELSE IF i \in last_delay - 2..last_delay + 1 /\ i # c THEN Larger(a - decrease, 0)
          ELSE IF i \in c - 2..c + 1 THEN Larger(a, 0)
          ELSE Larger(a - depth, 0)
    BY <1>1, <2>1, <2>2 DEF UpdatedHistogram
  <2>5. i \in last_delay - 2..last_delay + 1 => decrease \in Nat
    BY <1>1
  <2>6. decrease \in Nat => Larger(a - decrease, 0) \in 0..kHistogramMax
    BY <1>1, <2>3 DEF Larger
  <2>7. Larger(a - depth, 0) \in 0..kHistogramMax /\ Larger(a, 0) \in 0..kHistogramMax
    BY <1>1, <2>3 DEF Larger
  <2>8. a \in 0..kHistogramMax
    BY <1>1, <2>3
  <2> QED
    BY <2>4, <2>5, <2>6, <2>7, <2>8
<1>3. UpdatedHistogram(c, depth, decrease) =
        [i \in 0..HistorySize |-> UpdatedHistogram(c, depth, decrease)[i]]
  BY <1>1 DEF UpdatedHistogram
<1> QED
  BY <1>2, <1>3

\* The decision: the new estimate, its histogram and its probabilities.
LEMMA DecisionStep ==
  ASSUME NEW m, NEW c, NEW w, Decidable(m, c, w), Decide(m, c, w)
  PROVE  /\ minimum_probability' \in Nat /\ last_delay_probability' \in Nat
         /\ last_candidate_delay' = c /\ candidate_hits' = Hits(c)
         /\ last_delay_histogram' \in Nat
         /\ histogram' \in [0..HistorySize -> 0..kHistogramMax]
         /\ \/ last_delay' = c /\ compare_delay' = c
            \/ UNCHANGED <<last_delay, compare_delay>>
<1>1. PICK b \in Nat : b = m[c]
  BY SizesAssumption DEF Decidable
<1>2. PICK depth \in Nat : depth = m[w] - m[c]
  BY DecreaseIsNatural
<1>3. PICK h : h = UpdatedHistogram(c, depth, DecreaseInLastSet(c, m, depth))
  OBVIOUS
<1>4. h \in [0..HistorySize -> 0..kHistogramMax]
  <2>1. /\ DecreaseInLastSet(c, m, depth) \in Int
        /\ last_delay >= 0 => DecreaseInLastSet(c, m, depth) \in Nat
    BY <1>2, DecreaseIsNatural
  <2>2. last_delay = -2 \/ last_delay \in Nat
    BY SizesAssumption DEF Decidable, DelayInRange, SizesFixed
  <2> QED
    BY <1>3, <2>1, <2>2, HistogramStaysLimited DEF Decidable
<1>5. /\ minimum_probability' = NewMinimumProbability(b, depth)
      /\ last_candidate_delay' = c /\ candidate_hits' = Hits(c)
      /\ Accept(c, b, h) \/ Reject(h)
  BY <1>1, <1>2, <1>3 DEF Decide
<1>6. minimum_probability' \in Nat
  BY <1>5, ThresholdAssumption DEF NewMinimumProbability, Smaller, Larger, Decidable, TypeOK
<1>7. h[c] \in Nat /\ compare_delay \in 0..HistorySize /\ last_delay_probability \in Nat
      /\ last_delay_histogram \in Nat /\ kHistogramMax \in Nat /\ kLastHistogramMax \in Nat
      /\ HistorySize \in Nat
  BY <1>4, SizesAssumption, ThresholdAssumption
  DEF Decidable, DelayInRange, SizesFixed, TypeOK
<1>8. CASE Accept(c, b, h)
  <2>1. last_delay' = c /\ compare_delay' = c
    BY <1>8 DEF Accept
  <2>2. last_delay_probability' \in Nat
    BY <1>1, <1>7, <1>8 DEF Accept, Smaller
  <2>3. Smaller(h[c], h[compare_delay]) \in 0..kHistogramMax /\ Smaller(h[c], kLastHistogramMax) \in Nat
    BY <1>4, <1>7 DEF Smaller, Decidable
  <2>4. \/ histogram' = h /\ last_delay_histogram' = last_delay_histogram
        \/ /\ histogram' = [h EXCEPT ![compare_delay] = Smaller(h[c], h[compare_delay])]
           /\ last_delay_histogram' = Smaller(h[c], kLastHistogramMax)
    BY <1>8 DEF Accept
  <2>5. histogram' \in [0..HistorySize -> 0..kHistogramMax] /\ last_delay_histogram' \in Nat
    BY <1>4, <1>7, <2>3, <2>4
  <2> QED
    BY <1>5, <1>6, <2>1, <2>2, <2>5
<1>9. CASE Reject(h)
  BY <1>4, <1>5, <1>6, <1>7, <1>9 DEF Reject
<1> QED
  BY <1>5, <1>8, <1>9

-----------------------------------------------------------------------------
(* Every step keeps the invariant. *)

LEMMA InitIInv == Init => IInv
<1> SUFFICES ASSUME Init PROVE IInv
  OBVIOUS
<1> USE SizesAssumption, MeanAssumption, ThresholdAssumption, MaximumType
<1>1. BitCount({}) = 0
  BY FS_EmptySet DEF BitCount
<1>2. TypeOK
  <2>1. (MaxLookahead + 1) - 1 = MaxLookahead /\ lookahead \in 0..MaxLookahead
    BY DEF Init
  <2>2. binary_near_history \in [0..MaxLookahead -> SUBSET Bits]
    BY <2>1 DEF Init, Empty
  <2>3. /\ binary_far_history \in [0..far_history_size - 1 -> SUBSET Bits]
        /\ far_bit_counts \in [0..far_history_size - 1 -> 0..NumBits]
    BY DEF Init, Empty, Zeros
  <2>4. robust_validation_enabled \in BOOLEAN
    BY DEF Init
  <2>5. /\ mean_bit_counts \in [0..history_size -> Nat]
        /\ histogram \in [0..history_size -> Nat]
    BY DEF Init
  <2> QED
    BY <2>1, <2>2, <2>3, <2>4, <2>5 DEF Init, TypeOK
<1>3. SizesFixed /\ DelayInRange /\ HitsAfterChange
  BY DEF Init, SizesFixed, DelayInRange, HitsAfterChange
<1>4. CountsMatch
  BY <1>1 DEF Init, CountsMatch, Empty, Zeros
<1>5. CandidateExists /\ HistogramLimited
  BY DEF Init, CandidateExists, HistogramLimited
<1> QED
  BY <1>2, <1>3, <1>4, <1>5 DEF IInv

\* A step that leaves the estimator alone, but perhaps for its settings.
LEMMA FarEndStep ==
  ASSUME IInv,
         UNCHANGED <<far_history_size, estimate, memory, binary_near_history>>,
         lookahead' \in 0..MaxLookahead, robust_validation_enabled' \in BOOLEAN,
         allowed_offset' \in Nat,
         binary_far_history' \in [0..HistorySize - 1 -> SUBSET Bits],
         far_bit_counts' \in [0..HistorySize - 1 -> 0..NumBits],
         CountsMatch'
  PROVE  IInv'
<1>1. TypeOK'
  BY DEF IInv, TypeOK, SizesFixed, estimate, memory
<1>2. SizesFixed' /\ CandidateExists' /\ DelayInRange' /\ HistogramLimited' /\ HitsAfterChange'
  BY DEF IInv, SizesFixed, CandidateExists, DelayInRange, HistogramLimited, HitsAfterChange,
         estimate, memory
<1> QED
  BY <1>1, <1>2 DEF IInv

\* A push into the two far-end histories.
LEMMA AddStep ==
  ASSUME IInv, NEW u \in FarSpectra, AddBinaryFarSpectrum(u)
  PROVE  IInv'
<1>1. /\ HistorySize \in Nat /\ far_history_size = HistorySize
      /\ binary_far_history \in [0..HistorySize - 1 -> SUBSET Bits]
      /\ far_bit_counts \in [0..HistorySize - 1 -> 0..NumBits]
      /\ u \in SUBSET Bits
  BY SizesAssumption DEF IInv, SizesFixed, TypeOK
<1>2. BitCount(u) \in 0..NumBits
  BY <1>1, BitCountBound
<1>3. /\ binary_far_history' \in [0..HistorySize - 1 -> SUBSET Bits]
      /\ far_bit_counts' \in [0..HistorySize - 1 -> 0..NumBits]
  BY <1>1, <1>2 DEF AddBinaryFarSpectrum, Pushed
<1>4. CountsMatch'
  BY <1>1 DEF AddBinaryFarSpectrum, Pushed, CountsMatch, IInv
<1>5. /\ UNCHANGED <<far_history_size, estimate, memory, binary_near_history>>
      /\ lookahead' \in 0..MaxLookahead /\ robust_validation_enabled' \in BOOLEAN
      /\ allowed_offset' \in Nat
  BY DEF AddBinaryFarSpectrum, IInv, TypeOK, config
<1> QED
  BY <1>3, <1>4, <1>5, FarEndStep

\* A shift of the two far-end histories, in either direction.
LEMMA SoftResetFarendStep ==
  ASSUME IInv, NEW shift \in DelayShifts, SoftResetBinaryDelayEstimatorFarend(shift)
  PROVE  IInv'
<1>1. /\ HistorySize \in Nat /\ far_history_size = HistorySize
      /\ binary_far_history \in [0..HistorySize - 1 -> SUBSET Bits]
      /\ far_bit_counts \in [0..HistorySize - 1 -> 0..NumBits]
      /\ NumBits \in Nat /\ shift \in Int
  BY SizesAssumption DEF IInv, SizesFixed, TypeOK
<1>2. BitCount({}) = 0
  BY FS_EmptySet DEF BitCount
<1>3. /\ binary_far_history' \in [0..HistorySize - 1 -> SUBSET Bits]
      /\ far_bit_counts' \in [0..HistorySize - 1 -> 0..NumBits]
  <2>1. /\ binary_far_history' = Moved(binary_far_history, HistorySize, shift, {})
        /\ far_bit_counts' = Moved(far_bit_counts, HistorySize, shift, 0)
    BY <1>1 DEF SoftResetBinaryDelayEstimatorFarend
  <2>2. ASSUME NEW S, NEW h \in [0..HistorySize - 1 -> S], NEW x \in S
        PROVE  Moved(h, HistorySize, shift, x) \in [0..HistorySize - 1 -> S]
    BY DEF Moved
  <2>3. {} \in SUBSET Bits /\ 0 \in 0..NumBits
    BY <1>1
  <2> QED
    BY <1>1, <2>1, <2>2, <2>3
<1>4. CountsMatch'
  BY <1>1, <1>2 DEF SoftResetBinaryDelayEstimatorFarend, Moved, CountsMatch, IInv
<1>5. /\ UNCHANGED <<far_history_size, estimate, memory, binary_near_history>>
      /\ lookahead' \in 0..MaxLookahead /\ robust_validation_enabled' \in BOOLEAN
      /\ allowed_offset' \in Nat
  BY DEF SoftResetBinaryDelayEstimatorFarend, IInv, TypeOK, config
<1> QED
  BY <1>3, <1>4, <1>5, FarEndStep

LEMMA InitFarendStep ==
  ASSUME IInv, InitBinaryDelayEstimatorFarend
  PROVE  IInv'
<1>1. HistorySize \in Nat /\ far_history_size = HistorySize /\ NumBits \in Nat
  BY SizesAssumption DEF IInv, SizesFixed
<1>2. BitCount({}) = 0
  BY FS_EmptySet DEF BitCount
<1>3. /\ binary_far_history' \in [0..HistorySize - 1 -> SUBSET Bits]
      /\ far_bit_counts' \in [0..HistorySize - 1 -> 0..NumBits]
  BY <1>1 DEF InitBinaryDelayEstimatorFarend, Empty, Zeros
<1>4. CountsMatch'
  BY <1>1, <1>2 DEF InitBinaryDelayEstimatorFarend, Empty, Zeros, CountsMatch
<1>5. /\ UNCHANGED <<far_history_size, estimate, memory, binary_near_history>>
      /\ lookahead' \in 0..MaxLookahead /\ robust_validation_enabled' \in BOOLEAN
      /\ allowed_offset' \in Nat
  BY DEF InitBinaryDelayEstimatorFarend, IInv, TypeOK, config
<1> QED
  BY <1>3, <1>4, <1>5, FarEndStep

\* The setters and the estimator's own soft reset.
LEMMA SettingsStep ==
  ASSUME IInv,
         \/ \E shift \in DelayShifts : SoftResetBinaryDelayEstimator(shift)
         \/ \E n \in 0..MaxLookahead : set_lookahead(n)
         \/ \E n \in Offsets : set_allowed_offset(n)
         \/ \E enable \in BOOLEAN : enable_robust_validation(enable)
  PROVE  IInv'
<1>1. /\ UNCHANGED <<farVars, estimate, memory, binary_near_history>>
      /\ lookahead' \in 0..MaxLookahead /\ allowed_offset' \in Nat
      /\ robust_validation_enabled' \in BOOLEAN
  <2>1. /\ MaxLookahead \in Nat /\ Offsets \subseteq Nat /\ DelayShifts \subseteq Int
        /\ lookahead \in 0..MaxLookahead /\ allowed_offset \in Nat
        /\ robust_validation_enabled \in BOOLEAN
    BY SizesAssumption DEF IInv, TypeOK
  <2>2. CASE \E shift \in DelayShifts : SoftResetBinaryDelayEstimator(shift)
    <3>1. PICK shift \in DelayShifts : SoftResetBinaryDelayEstimator(shift)
      BY <2>2
    <3>2. lookahead' \in 0..MaxLookahead
      BY <2>1, <3>1 DEF SoftResetBinaryDelayEstimator, Smaller, Larger
    <3> QED
      BY <2>1, <3>1, <3>2 DEF SoftResetBinaryDelayEstimator
  <2>3. CASE \E n \in 0..MaxLookahead : set_lookahead(n)
    BY <2>1, <2>3 DEF set_lookahead
  <2>4. CASE \E n \in Offsets : set_allowed_offset(n)
    BY <2>1, <2>4 DEF set_allowed_offset
  <2>5. CASE \E enable \in BOOLEAN : enable_robust_validation(enable)
    BY <2>1, <2>5 DEF enable_robust_validation
  <2> QED
    BY <2>2, <2>3, <2>4, <2>5
<1>2. /\ far_history_size' = far_history_size
      /\ binary_far_history' \in [0..HistorySize - 1 -> SUBSET Bits]
      /\ far_bit_counts' \in [0..HistorySize - 1 -> 0..NumBits]
      /\ CountsMatch'
  BY <1>1 DEF farVars, IInv, TypeOK, SizesFixed, CountsMatch
<1> QED
  BY <1>1, <1>2, FarEndStep

LEMMA InitEstimatorStep ==
  ASSUME IInv, InitBinaryDelayEstimator
  PROVE  IInv'
<1> USE SizesAssumption, MeanAssumption, ThresholdAssumption, MaximumType
<1>1. history_size' = HistorySize /\ history_size = HistorySize /\ far_history_size' = HistorySize
  BY DEF InitBinaryDelayEstimator, IInv, SizesFixed, farVars
<1>2. TypeOK'
  <2>1. (MaxLookahead + 1) - 1 = MaxLookahead
    OBVIOUS
  <2>2. binary_near_history' \in [0..MaxLookahead -> SUBSET Bits]
    BY <2>1 DEF InitBinaryDelayEstimator, Empty
  <2>3. /\ mean_bit_counts' \in [0..HistorySize -> Nat]
        /\ histogram' \in [0..HistorySize -> Nat]
    BY <1>1 DEF InitBinaryDelayEstimator
  <2>4. /\ binary_far_history' \in [0..HistorySize - 1 -> SUBSET Bits]
        /\ far_bit_counts' \in [0..HistorySize - 1 -> 0..NumBits]
        /\ lookahead' \in 0..MaxLookahead
        /\ robust_validation_enabled' \in BOOLEAN
        /\ allowed_offset' \in Nat
    BY DEF InitBinaryDelayEstimator, IInv, TypeOK, SizesFixed, farVars, config
  <2>5. /\ minimum_probability' \in Nat /\ last_delay_probability' \in Nat
        /\ last_delay' \in Int /\ last_candidate_delay' \in Int
        /\ compare_delay' \in Nat /\ candidate_hits' \in Nat
        /\ last_delay_histogram' \in Nat /\ since' \in Nat
    BY <1>1 DEF InitBinaryDelayEstimator
  <2> QED
    BY <1>1, <2>2, <2>3, <2>4, <2>5 DEF TypeOK
<1>3. SizesFixed' /\ DelayInRange' /\ HitsAfterChange'
  BY <1>1 DEF InitBinaryDelayEstimator, SizesFixed, DelayInRange, HitsAfterChange
<1>4. CountsMatch'
  BY DEF InitBinaryDelayEstimator, IInv, CountsMatch, farVars
<1>5. CandidateExists' /\ HistogramLimited'
  BY <1>1 DEF InitBinaryDelayEstimator, CandidateExists, HistogramLimited
<1> QED
  BY <1>2, <1>3, <1>4, <1>5 DEF IInv

\* A near-end block: the means it leaves and the candidate it decides about.
LEMMA ProcessDecides ==
  ASSUME IInv, NEW u \in NearSpectra, ProcessBinarySpectrum(u)
  PROVE  /\ binary_near_history' \in [0..MaxLookahead -> SUBSET Bits]
         /\ mean_bit_counts' \in [0..HistorySize -> Nat]
         /\ \A i \in 0..HistorySize - 1 : mean_bit_counts'[i] < kMaxBitCountsQ9
         /\ \E m : \E c, w \in 0..HistorySize - 1 : Decidable(m, c, w) /\ Decide(m, c, w)
<1>1. /\ MaxLookahead \in Nat /\ u \in SUBSET Bits /\ history_size = HistorySize
      /\ lookahead \in 0..MaxLookahead
      /\ binary_near_history \in [0..MaxLookahead -> SUBSET Bits]
  BY SizesAssumption DEF IInv, TypeOK, SizesFixed
<1>2. binary_near_history' \in [0..MaxLookahead -> SUBSET Bits]
  BY <1>1 DEF ProcessBinarySpectrum, Pushed
<1>3. PICK v \in SUBSET Bits : v = Delayed(u)
  BY <1>1, <1>2 DEF Delayed
<1>4. PICK m : m = mean_bit_counts'
  OBVIOUS
<1>5. m = UpdatedMeans(v)
  BY <1>3, <1>4 DEF ProcessBinarySpectrum
<1>6. /\ m \in [0..HistorySize -> Nat]
      /\ \A i \in 0..HistorySize - 1 : m[i] < kMaxBitCountsQ9
  BY <1>5, MeansStayBelow DEF IInv
<1>7. PICK c, w \in 0..HistorySize - 1 : IsCandidate(c, m) /\ IsWorst(w, m) /\ Decide(m, c, w)
  BY <1>1, <1>4 DEF ProcessBinarySpectrum
<1>8. Decidable(m, c, w)
  BY <1>1, <1>6, <1>7 DEF Decidable, IInv, IsCandidate, IsWorst
<1> QED
  BY <1>2, <1>4, <1>6, <1>7, <1>8

LEMMA ProcessStep ==
  ASSUME IInv, NEW u \in NearSpectra, ProcessBinarySpectrum(u)
  PROVE  IInv'
<1>1. PICK m : \E c, w \in 0..HistorySize - 1 : Decidable(m, c, w) /\ Decide(m, c, w)
  BY ProcessDecides
<1>2. PICK c, w \in 0..HistorySize - 1 : Decidable(m, c, w) /\ Decide(m, c, w)
  BY <1>1
<1>3. /\ minimum_probability' \in Nat /\ last_delay_probability' \in Nat
      /\ last_candidate_delay' = c /\ candidate_hits' = Hits(c)
      /\ last_delay_histogram' \in Nat
      /\ histogram' \in [0..HistorySize -> 0..kHistogramMax]
      /\ \/ last_delay' = c /\ compare_delay' = c
         \/ UNCHANGED <<last_delay, compare_delay>>
  BY <1>2, DecisionStep
<1>4. /\ UNCHANGED <<farVars, config, history_size>>
      /\ since' = IF last_delay' # last_delay THEN 0 ELSE Smaller(since + 1, kMinRequiredHits + 1)
  BY DEF ProcessBinarySpectrum
<1>5. /\ HistorySize \in Nat /\ kHistogramMax \in Nat /\ kMinRequiredHits \in Nat
      /\ candidate_hits \in Nat /\ since \in Nat /\ last_candidate_delay \in Int
      /\ last_delay \in Int /\ compare_delay \in Nat
      /\ far_history_size' = HistorySize /\ history_size' = HistorySize
      /\ history_size = HistorySize
  BY <1>4, SizesAssumption, ThresholdAssumption DEF IInv, TypeOK, SizesFixed, farVars
<1>6. TypeOK'
  <2>1. candidate_hits' \in Nat /\ since' \in Nat /\ last_candidate_delay' \in Int
    BY <1>3, <1>4, <1>5 DEF Hits, Smaller
  <2>2. last_delay' \in Int /\ compare_delay' \in Nat
    BY <1>3, <1>5
  <2>3. histogram' \in [0..HistorySize -> Nat]
    BY <1>3, <1>5
  <2>4. /\ binary_far_history' \in [0..HistorySize - 1 -> SUBSET Bits]
        /\ far_bit_counts' \in [0..HistorySize - 1 -> 0..NumBits]
        /\ lookahead' \in 0..MaxLookahead
        /\ robust_validation_enabled' \in BOOLEAN
        /\ allowed_offset' \in Nat
    BY <1>4 DEF IInv, TypeOK, SizesFixed, farVars, config
  <2> QED
    BY <1>3, <1>5, <2>1, <2>2, <2>3, <2>4, ProcessDecides DEF TypeOK
<1>7. SizesFixed' /\ CandidateExists'
  BY <1>5, ProcessDecides DEF SizesFixed, CandidateExists
<1>8. CountsMatch'
  BY <1>4 DEF IInv, CountsMatch, farVars
<1>9. DelayInRange'
  BY <1>3, <1>5 DEF IInv, DelayInRange
<1>10. HistogramLimited'
  BY <1>3, <1>5 DEF HistogramLimited
<1>11. HitsAfterChange'
  <2>1. SUFFICES ASSUME last_delay' >= 0, last_candidate_delay' # last_delay'
                 PROVE  candidate_hits' <= since' \/ since' > kMinRequiredHits
    BY DEF HitsAfterChange
  <2>2. last_delay' = last_delay /\ c # last_delay
    BY <1>3, <2>1
  <2>3. since' = Smaller(since + 1, kMinRequiredHits + 1)
    BY <1>4, <2>2
  <2>4. CASE c = last_candidate_delay
    <3>1. candidate_hits <= since \/ since > kMinRequiredHits
      BY <2>1, <2>2, <2>4 DEF IInv, HitsAfterChange
    <3>2. candidate_hits' = candidate_hits + 1
      BY <1>3, <2>4 DEF Hits
    <3> QED
      BY <1>5, <2>3, <3>1, <3>2 DEF Smaller
  <2>5. CASE c # last_candidate_delay
    BY <1>3, <1>5, <2>3, <2>5 DEF Hits, Smaller
  <2> QED
    BY <2>4, <2>5
<1> QED
  BY <1>6, <1>7, <1>8, <1>9, <1>10, <1>11 DEF IInv

LEMMA NextIInv == IInv /\ [Next]_vars => IInv'
<1> SUFFICES ASSUME IInv, [Next]_vars PROVE IInv'
  OBVIOUS
<1>1. CASE InitBinaryDelayEstimatorFarend
  BY <1>1, InitFarendStep
<1>2. CASE InitBinaryDelayEstimator
  BY <1>2, InitEstimatorStep
<1>3. CASE \E u \in FarSpectra : AddBinaryFarSpectrum(u)
  BY <1>3, AddStep
<1>4. CASE \E u \in NearSpectra : ProcessBinarySpectrum(u)
  BY <1>4, ProcessStep
<1>5. CASE \E shift \in DelayShifts : SoftResetBinaryDelayEstimatorFarend(shift)
  BY <1>5, SoftResetFarendStep
<1>6. CASE \/ \E shift \in DelayShifts : SoftResetBinaryDelayEstimator(shift)
           \/ \E n \in 0..MaxLookahead : set_lookahead(n)
           \/ \E n \in Offsets : set_allowed_offset(n)
           \/ \E enable \in BOOLEAN : enable_robust_validation(enable)
  BY <1>6, SettingsStep
<1>7. CASE UNCHANGED vars
  BY <1>7 DEF vars, farVars, config, estimate, memory, IInv, TypeOK, SizesFixed, CountsMatch,
              CandidateExists, DelayInRange, HistogramLimited, HitsAfterChange
<1> QED
  BY <1>1, <1>2, <1>3, <1>4, <1>5, <1>6, <1>7 DEF Next

-----------------------------------------------------------------------------
(* The theorems. *)

LEMMA Invariance == Spec => []IInv
  BY InitIInv, NextIInv, PTL DEF Spec

\* Whatever blocks, resets and settings come in whatever order, the variables of
\* WebRtc_ProcessBinarySpectrum and of its far end keep their types: naturals,
\* indices into their arrays, spectra of NumBits bits.
THEOREM TypeCorrectness == Spec => []TypeOK
<1>1. IInv => TypeOK
  BY DEF IInv
<1> QED
  BY Invariance, <1>1, PTL

\* The search of WebRtc_ProcessBinarySpectrum for the best delay always finds one:
\* no mean ever reaches the value the search starts from.
THEOREM CandidateAlwaysExists == Spec => []CandidateExists
<1>1. IInv => CandidateExists
  BY DEF IInv
<1> QED
  BY Invariance, <1>1, PTL

\* The far end's bit counts always describe its spectra.
THEOREM CountsAlwaysMatch == Spec => []CountsMatch
<1>1. IInv => CountsMatch
  BY DEF IInv
<1> QED
  BY Invariance, <1>1, PTL

\* last_delay is -2 or a delay of the history, and compare_delay follows it.
THEOREM DelayAlwaysInRange == Spec => []DelayInRange
<1>1. IInv => DelayInRange
  BY DEF IInv
<1> QED
  BY Invariance, <1>1, PTL

\* WebRtc_last_delay_quality is always between 0 and 1, with either validation.
THEOREM QualityAlwaysInRange == Spec => []QualityInRange
<1>1. ASSUME IInv PROVE QualityInRange
  <2>1. CASE robust_validation_enabled
    <3>1. compare_delay \in 0..history_size
      BY <1>1, SizesAssumption DEF IInv, DelayInRange, SizesFixed
    <3>2. histogram[compare_delay] \in Nat /\ histogram[compare_delay] <= kHistogramMax
      BY <1>1, <3>1 DEF IInv, TypeOK, HistogramLimited
    <3> QED
      BY <2>1, <3>2 DEF QualityInRange, last_delay_quality
  <2>2. CASE ~robust_validation_enabled
    <3>1. last_delay_probability \in Nat /\ kMaxBitCountsQ9 \in Nat
      BY <1>1, MaximumType DEF IInv, TypeOK
    <3>2. /\ Larger(kMaxBitCountsQ9 - last_delay_probability, 0) >= 0
          /\ Larger(kMaxBitCountsQ9 - last_delay_probability, 0) <= kMaxBitCountsQ9
      BY <3>1 DEF Larger
    <3> QED
      BY <2>2, <3>2 DEF QualityInRange, last_delay_quality
  <2> QED
    BY <2>1, <2>2
<1> QED
  BY Invariance, <1>1, PTL

\* With robust validation, an estimate is replaced by another only after it has
\* stood for kMinRequiredHits blocks.
THEOREM RobustSpacing == Spec => RobustChangesAreSpaced
<1>1. ASSUME IInv, [Next]_vars,
             robust_validation_enabled, last_delay >= 0, last_delay' \notin {last_delay, -2}
      PROVE  since >= kMinRequiredHits
  <2>1. PICK u \in NearSpectra : ProcessBinarySpectrum(u)
    <3>1. CASE InitBinaryDelayEstimator
      BY <1>1, <3>1 DEF InitBinaryDelayEstimator
    <3>2. CASE \/ InitBinaryDelayEstimatorFarend
               \/ \E u \in FarSpectra : AddBinaryFarSpectrum(u)
               \/ \E shift \in DelayShifts : SoftResetBinaryDelayEstimatorFarend(shift)
               \/ \E shift \in DelayShifts : SoftResetBinaryDelayEstimator(shift)
               \/ \E n \in 0..MaxLookahead : set_lookahead(n)
               \/ \E n \in Offsets : set_allowed_offset(n)
               \/ \E enable \in BOOLEAN : enable_robust_validation(enable)
               \/ UNCHANGED vars
      <4>1. UNCHANGED estimate
        BY <3>2 DEF InitBinaryDelayEstimatorFarend, AddBinaryFarSpectrum,
             SoftResetBinaryDelayEstimatorFarend, SoftResetBinaryDelayEstimator,
             set_lookahead, set_allowed_offset, enable_robust_validation, vars
      <4> QED
        BY <1>1, <4>1 DEF estimate
    <3> QED
      BY <1>1, <3>1, <3>2 DEF Next
  <2>2. PICK m : \E c, w \in 0..HistorySize - 1 : Decidable(m, c, w) /\ Decide(m, c, w)
    BY <1>1, <2>1, ProcessDecides
  <2>3. PICK c, w \in 0..HistorySize - 1 : Decidable(m, c, w) /\ Decide(m, c, w)
    BY <2>2
  <2>4. PICK depth, h : IF ValidCandidate(c, h, m[c], depth) THEN Accept(c, m[c], h) ELSE Reject(h)
    BY <2>3 DEF Decide
  <2>5. ValidCandidate(c, h, m[c], depth) /\ last_delay' = c
    BY <1>1, <2>4 DEF Accept, Reject
  <2>6. Hits(c) > kMinRequiredHits
    BY <1>1, <2>5 DEF ValidCandidate, RobustValidation, HistogramBasedValidation, IInv, TypeOK
  <2>7. /\ candidate_hits \in Nat /\ since \in Nat /\ kMinRequiredHits \in Nat
        /\ c # last_delay
    BY <1>1, <2>5, ThresholdAssumption DEF IInv, TypeOK
  <2>8. CASE c = last_candidate_delay
    <3>1. candidate_hits <= since \/ since > kMinRequiredHits
      BY <1>1, <2>7, <2>8 DEF IInv, HitsAfterChange
    <3>2. candidate_hits + 1 > kMinRequiredHits
      BY <2>6, <2>8 DEF Hits
    <3> QED
      BY <2>7, <3>1, <3>2
  <2>9. CASE c # last_candidate_delay
    BY <2>6, <2>7, <2>9 DEF Hits
  <2> QED
    BY <2>8, <2>9
<1>2. IInv /\ [Next]_vars
        => [robust_validation_enabled /\ last_delay >= 0 /\ last_delay' \notin {last_delay, -2}
              => since >= kMinRequiredHits]_vars
  BY <1>1
<1> QED
  BY Invariance, <1>2, PTL DEF Spec, RobustChangesAreSpaced

=============================================================================
