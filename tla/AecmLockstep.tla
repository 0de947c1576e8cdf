---------------------------- MODULE AecmLockstep ----------------------------
(***************************************************************************)
(* The loop of main.cpp: after Init, every turn hands one 10 ms block to   *)
(* BufferFarend and then one to Process, with the same delay every time    *)
(* (main.cpp passes 0; the value is a parameter here).  The core accepts   *)
(* every frame.                                                            *)
(***************************************************************************)
EXTENDS EchoControlMobile

VARIABLES turn,     \* which call is next
          card      \* the msInSndCardBuf this run passes to Process

lvars == <<vars, turn, card>>

Block == FRAME_LEN * aecm.mult

LInit == Init /\ turn = "init" /\ card \in MsValues

Begin == /\ turn = "init"
         /\ \E f \in SampFreqs : f \in {8000, 16000} /\ InitInstance(f)
         /\ turn' = "render"
         /\ UNCHANGED card

Render == /\ turn = "render"
          /\ BufferFarend(Block)
          /\ turn' = "capture"
          /\ UNCHANGED card

Capture == /\ turn = "capture"
           /\ \/ ProcessStartup(Block, card)
              \/ ProcessRunning(Block, card, aecm.mult)
           /\ turn' = "render"
           /\ UNCHANGED card

LNext == Begin \/ Render \/ Capture

\* The loop runs until its input ends.
LSpec == LInit /\ [][LNext]_lvars /\ WF_lvars(LNext)

-----------------------------------------------------------------------------
\* In lock step no far-end sample is dropped by a BufferFarend that returns 0.
NothingLost == lost = 0

\* The far-end buffer settles where it is neither ahead of the sound card
\* (EstBufDelay would skip a frame) nor too far behind (DelayComp would
\* replay one).
DelayOf(a) == nSampSndCard(a) - a.unread

Settles == <>[](/\ turn = "render" => DelayOf(aecm) >= FRAME_LEN
                /\ turn = "render" => DelayOf(aecm) <= FAR_BUF_LEN - FRAME_LEN * aecm.mult)
=============================================================================
