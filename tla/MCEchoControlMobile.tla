------------------------ MODULE MCEchoControlMobile -------------------------
(***************************************************************************)
(* A scaled-down instance: frames of two samples, a far-end buffer of four *)
(* frames, delays of a few milliseconds.                                   *)
(***************************************************************************)
EXTENDS EchoControlMobile

\* One value below the legal range, one inside and the largest: far enough apart
\* for the delay filter to leave the band on both sides, and for a start size of
\* no frame, of some, and of more than the far-end buffer holds.
MCMsValues == {-1, 7, 14}
=============================================================================
