--------------------------- MODULE MCFrameReceiver ---------------------------
(***************************************************************************)
(* Frame reception for TLC.                                                *)
(***************************************************************************)
EXTENDS FrameReceiver

AllFaults == {"lose", "delay", "repeat"}
=============================================================================
