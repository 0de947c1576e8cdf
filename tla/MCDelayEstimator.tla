-------------------------- MODULE MCDelayEstimator --------------------------
(* Small instances of DelayEstimator for TLC.                              *)
EXTENDS DelayEstimator

\* Shifts of one block either way.
OneBlock == {-1, 1}

=============================================================================
