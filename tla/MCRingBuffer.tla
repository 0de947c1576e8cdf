---------------------------- MODULE MCRingBuffer ----------------------------
(***************************************************************************)
(* A buffer of three elements; requests up to one more than its capacity,  *)
(* so that writes are cut short, seeks are clamped and reads wrap.  Two    *)
(* elements are enough: every binary pattern of a block is written, so two *)
(* elements delivered in the wrong order or from the wrong place differ in *)
(* some behaviour.                                                         *)
(***************************************************************************)
EXTENDS RingBuffer
=============================================================================
