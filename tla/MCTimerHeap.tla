---------------------------- MODULE MCTimerHeap ----------------------------
(***************************************************************************)
(* TimerHeap for TLC.                                                      *)
(***************************************************************************)
EXTENDS TimerHeap
============================================================================
