-------------------------- MODULE MCIceConnection ---------------------------
(***************************************************************************)
(* The limits of p2p/base/port.h, which are 10, 2.5, 15, 5 and 5 seconds,  *)
(* as 3, 1, 4, 2 and 2, and two pings instead of five that must fail.      *)
(***************************************************************************)
EXTENDS IceConnection
=============================================================================
