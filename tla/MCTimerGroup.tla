---------------------------- MODULE MCTimerGroup ----------------------------
(* Instances of TimerGroup for TLC.                                        *)
EXTENDS TimerGroup
=============================================================================
