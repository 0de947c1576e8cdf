---------------------------- MODULE MCAecmFrame -----------------------------
(***************************************************************************)
(* FRAME_LEN, PART_LEN and FAR_BUF_LEN are 80, 256 and 1024 in the code:   *)
(* 5, 16 and 64 are the same lengths in units of 16 samples, so every wrap *)
(* and every remainder happens as it does there.                           *)
(***************************************************************************)
EXTENDS AecmFrame
=============================================================================
