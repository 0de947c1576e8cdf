--------------------------- MODULE MCRtpSendPath ----------------------------
(***************************************************************************)
(* A history of one packet that grows to three, so that its slots are both *)
(* reused and added; sequence numbers 3, 4 and then 0, the number of empty *)
(* slots; a budget of one byte per millisecond for packets of two, so that *)
(* the queue waits; one probe.                                             *)
(***************************************************************************)
EXTENDS RtpSendPath
=============================================================================
