--------------------------- MODULE MCAecmLockstep ---------------------------
(***************************************************************************)
(* The loop with the numbers of the code, for every delay up to the one at *)
(* which the far-end buffer gets too small for wideband.                   *)
(***************************************************************************)
EXTENDS AecmLockstep

\* 294 ms (10 are added) is the largest delay whose wideband backlog, held
\* within FAR_BUF_LEN of it, still leaves room for a block in the buffer.
LowDelays == 0..284
=============================================================================
